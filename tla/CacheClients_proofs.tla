------------------------- MODULE CacheClients_proofs -------------------------
(***************************************************************************)
(* Proofs about the two clients of the cache of open files. The filesystem *)
(* uses the cache as the cache wants to be used, for any number of users,  *)
(* files, filters and switches of the filter; a page of the status server  *)
(* misses no file, and its list of retired files forgets nothing without   *)
(* counting it, for any number of pages made at the same time.             *)
(***************************************************************************)
EXTENDS FolveFilesystem, StatusServer, FileHandlerCache_proofs, SequenceTheorems

\* What CacheKey glues together must not be ambiguous. The code does not see to
\* that: filters one of which is a directory within the other, which
\* SanitizeConfigSubdir accepts, or a string torn by a race can make one key of
\* two files. Filters side by side can not; see FlatFiltersAreDistinct.
KeysDistinct ==
  \A f, g \in Config, p, q \in Path :
    CacheKey(f, p) = CacheKey(g, q) => f = g /\ p = q

Request == [pc : {"idle", "find", "create", "insert", "open", "stat", "stat_open"},
            path : Path \cup {<<>>}, config : Config, want_gapless : BOOLEAN,
            handler : Handler \cup {NoHandler}]

Info(f, p) == [filter_dir |-> f, filename |-> p]

\* What is in the cache was made for its key.
FiledUnderItsKey ==
  \A k \in DOMAIN cache : \E f \in Config, p \in Path :
    k = CacheKey(f, p) /\ file_info[cache[k].handler] = Info(f, p)

\* What a user made and did not file yet is for its request.
MadeForRequest ==
  \A u \in Caller : \A h \in created[u] :
    /\ At(u, "insert")
    /\ file_info[h] = Info(user[u].config, user[u].path)
    /\ \A g \in created[u] : g = h

\* Who holds a handler finds it under the key it asked for.
HeldUnderRequestKey ==
  \A u \in Caller : Holds(u) =>
    /\ RequestKey(u) \in DOMAIN cache
    /\ cache[RequestKey(u)].handler = user[u].handler

Holders == {u \in Caller : Holds(u)}

FsInv ==
  /\ KeysDistinct
  /\ IInv
  /\ FsTypeOK /\ user \in [Caller -> Request]
  /\ FiledUnderItsKey /\ MadeForRequest /\ HeldUnderRequestKey
  /\ IsFiniteSet(Holders)
  /\ RefCountExact

-----------------------------------------------------------------------------
(* Keys.                                                                   *)

\* Filters that are one path element each, as the entries of a directory that
\* GetAvailableConfigDirs lists, do not make ambiguous keys
\* (folve-filesystem.cc:91-94).
LEMMA FlatFiltersAreDistinct ==
  ASSUME \A f \in Config : Len(f) = 1
  PROVE  KeysDistinct
<1> SUFFICES ASSUME NEW f \in Config, NEW g \in Config, NEW p \in Path, NEW q \in Path,
                    f \o p = g \o q
             PROVE  f = g /\ p = q
  BY DEF KeysDistinct, CacheKey
<1>1. /\ f \in Seq(STRING) /\ g \in Seq(STRING) /\ p \in Seq(STRING) /\ q \in Seq(STRING)
      /\ Len(f) = 1 /\ Len(g) = 1
  BY FilesystemAssumption DEF Config
<1>2. f[1] = (f \o p)[1] /\ g[1] = (g \o q)[1]
  <2>1. ASSUME NEW s \in Seq(STRING), NEW t \in Seq(STRING), Len(s) = 1
        PROVE  s[1] = (s \o t)[1]
    <3>1. Len(t) \in Nat /\ 1 \in 1 .. Len(s) + Len(t)
      BY <2>1
    <3> QED BY <2>1, <3>1, ConcatProperties, Z3
  <2> QED BY <1>1, <2>1
<1>3. Len(f) = Len(g) /\ \A i \in 1 .. Len(f) : f[i] = g[i]
  BY <1>1, <1>2
<1>4. f = g
  BY <1>1, <1>3, SeqEqual
<1>5. f \o p = f \o q
  BY <1>4
<1>6. p = q
  BY <1>1, <1>5, ConcatSimplifications
<1> QED BY <1>4, <1>6

LEMMA RequestKeyIsKey ==
  ASSUME FsInv, NEW u \in Caller, ~At(u, "idle")
  PROVE  RequestKey(u) \in Key /\ user[u].config \in Config /\ user[u].path \in Path
<1>1. user[u].config \in Config /\ user[u].path \in Path
  BY DEF FsInv, FsTypeOK, At
<1> QED BY <1>1, FilesystemAssumption DEF RequestKey, CacheKey, Config

\* Whoever holds a handler holds the one for his request, and computes the key
\* of its entry.
LEMMA HoldersAreServed ==
  ASSUME FsInv, NEW u \in Caller, Holds(u)
  PROVE  /\ RequestKey(u) \in Key \cap DOMAIN cache
         /\ cache[RequestKey(u)].handler = user[u].handler
         /\ user[u].handler \in alive
         /\ file_info[user[u].handler] = Info(user[u].config, user[u].path)
         /\ HeldKey(u) = RequestKey(u)
         /\ At(u, "open") => CloseKey(u) = RequestKey(u)
<1> DEFINE k == RequestKey(u)
<1>1. k \in Key /\ user[u].config \in Config /\ user[u].path \in Path
  BY RequestKeyIsKey DEF Holds, At
<1>2. k \in DOMAIN cache /\ cache[k].handler = user[u].handler
  BY DEF FsInv, HeldUnderRequestKey
<1>3. cache[k].handler \in alive
  BY <1>2 DEF FsInv, IInv, OneOwner, Owned, CacheTypeOK, Entry
<1>4. PICK f \in Config, p \in Path :
        k = CacheKey(f, p) /\ file_info[cache[k].handler] = Info(f, p)
  BY <1>2 DEF FsInv, FiledUnderItsKey
<1>5. f = user[u].config /\ p = user[u].path
  BY <1>1, <1>4 DEF FsInv, KeysDistinct, RequestKey
<1>6. file_info[user[u].handler] = Info(user[u].config, user[u].path)
  BY <1>2, <1>4, <1>5
<1>7. CloseKey(u) = k
  BY <1>6 DEF CloseKey, RequestKey, Info
<1> QED BY <1>1, <1>2, <1>3, <1>6, <1>7 DEF HeldKey

\* Nobody holds what has no reference, and somebody holds what has one.
LEMMA HeldIsPinned ==
  ASSUME FsInv, NEW u \in Caller, Holds(u)
  PROVE  RequestKey(u) \notin Idle(cache)
<1> DEFINE k == RequestKey(u)
<1>1. k \in DOMAIN cache /\ u \in HoldersOf(cache[k].handler)
  BY HoldersAreServed DEF HoldersOf
<1>2. HoldersOf(cache[k].handler) \subseteq Holders
  BY DEF HoldersOf, Holders
<1>3. IsFiniteSet(HoldersOf(cache[k].handler))
  BY <1>2, FS_Subset DEF FsInv
<1>4. Cardinality(HoldersOf(cache[k].handler)) # 0
  BY <1>1, <1>3, FS_EmptySet
<1> QED BY <1>1, <1>4 DEF FsInv, RefCountExact, Idle

LEMMA HoldersOfFinite ==
  ASSUME FsInv, NEW h
  PROVE  IsFiniteSet(HoldersOf(h)) /\ Cardinality(HoldersOf(h)) \in Nat
<1>1. HoldersOf(h) \subseteq Holders
  BY DEF HoldersOf, Holders
<1> QED BY <1>1, FS_Subset, FS_CardinalityType DEF FsInv

-----------------------------------------------------------------------------
(* The filesystem is a client that keeps to the cache's contract.          *)

LEMMA StepIsCacheStep ==
  ASSUME FsInv, [FsNext]_fs_vars
  PROVE  [CacheNext]_cache_vars
<1>1. CASE UNCHANGED fs_vars
  BY <1>1 DEF fs_vars, cache_vars
<1>2. ASSUME NEW u \in Caller,
             GetOrCreateHandler(u) \/ OpenFails(u) \/ StatByFilename(u)
      PROVE  UNCHANGED cache_vars
  BY <1>2 DEF GetOrCreateHandler, OpenFails, StatByFilename
<1>3. ASSUME NEW u \in Caller, FindReopens(u) \/ FindMisses(u) \/ StatFinds(u) \/ StatMisses(u)
      PROVE  CacheNext
  <2>1. RequestKey(u) \in Key
    BY <1>3, RequestKeyIsKey DEF FindReopens, FindMisses, StatFinds, StatMisses, At
  <2>2. user[u].want_gapless \in BOOLEAN /\ FALSE \in BOOLEAN
    BY DEF FsInv, Request
  <2> QED BY <1>3, <2>1, <2>2
          DEF FindReopens, FindMisses, StatFinds, StatMisses, CacheNext
<1>4. ASSUME NEW u \in Caller, CreateFromDescriptor(u) PROVE CacheNext
  BY <1>4 DEF CreateFromDescriptor, CacheNext
<1>5. ASSUME NEW u \in Caller, InsertCreated(u) PROVE CacheNext
  <2>1. RequestKey(u) \in Key
    BY <1>5, RequestKeyIsKey DEF InsertCreated, At
  <2> QED BY <1>5, <2>1 DEF InsertCreated, CacheNext
<1>6. ASSUME NEW u \in Caller, PassoverProcessor(u) PROVE CacheNext
  <2>1. Holds(u)
    BY <1>6 DEF PassoverProcessor, Holds
  <2>2. /\ RequestKey(u) \in Key \cap DOMAIN cache
        /\ cache[RequestKey(u)].handler = user[u].handler
    BY <2>1, HoldersAreServed
  <2>3. BecomeGapless(RequestKey(u))
    BY <1>6, <2>1, <2>2, HeldIsPinned DEF PassoverProcessor, BecomeGapless
  <2> QED BY <2>2, <2>3 DEF CacheNext
<1>7. ASSUME NEW u \in Caller, Close(u) \/ StatDone(u) PROVE CacheNext
  <2>1. Holds(u)
    BY <1>7 DEF Close, StatDone, Holds
  <2>2. Unpin(u, RequestKey(u))
    BY <1>7, <2>1, HoldersAreServed DEF Close, StatDone
  <2> QED BY <2>1, <2>2, HoldersAreServed, HeldIsPinned DEF CacheNext
<1>8. ASSUME NEW u \in Caller, FinishDelete(u) PROVE CacheNext
  BY <1>8 DEF FinishDelete, CacheNext
<1>9. CASE SwitchCurrentConfigDir \/ SwitchDone
  BY <1>9 DEF SwitchCurrentConfigDir, SwitchDone
<1>10. CASE Clock
  BY <1>10 DEF Clock, CacheNext
<1> QED BY <1>1, <1>2, <1>3, <1>4, <1>5, <1>6, <1>7, <1>8, <1>9, <1>10 DEF FsNext

\* A handler keeps what it was made for as long as it exists.
InfoKept == \A h \in alive \cap alive' : file_info'[h] = file_info[h]

-----------------------------------------------------------------------------
(* The invariant, conjunct by conjunct.                                    *)

LEMMA InitFsInv == FsInit /\ KeysDistinct => FsInv
<1> SUFFICES ASSUME FsInit, KeysDistinct PROVE FsInv
  OBVIOUS
<1>1. IInv
  BY InitIInv DEF FsInit
<1>2. Idling \in Request
  BY FilesystemAssumption DEF Idling, Request, Config
<1>3. user \in [Caller -> Request] /\ \A u \in Caller : user[u] = Idling
  BY <1>2 DEF FsInit
<1>4. FsTypeOK
  BY <1>1, <1>3 DEF FsTypeOK, FsInit, CacheInit, IInv, Idling, Config
<1>5. DOMAIN cache = {} /\ \A u \in Caller : created[u] = {}
  BY DEF FsInit, CacheInit
<1>6. Holders = {} /\ HeldUnderRequestKey
  BY <1>3 DEF Holders, Holds, At, Idling, HeldUnderRequestKey
<1>7. IsFiniteSet(Holders)
  BY <1>6, FS_EmptySet
<1> QED BY <1>1, <1>3, <1>4, <1>5, <1>6, <1>7
        DEF FsInv, FiledUnderItsKey, MadeForRequest, RefCountExact

LEMMA StepKeepsType ==
  ASSUME FsInv, IInv', [FsNext]_fs_vars
  PROVE  FsTypeOK' /\ user' \in [Caller -> Request] /\ InfoKept
<1> DEFINE T == /\ user' \in [Caller -> Request]
                /\ \A u \in Caller : user'[u].pc # "idle" => user'[u].path \in Path
           S == /\ current_config_subdir' \in Config
                /\ switching' \in Filter \cup {NoFilter}
           I == DOMAIN file_info' = alive' /\ InfoKept
<1>0. /\ user \in [Caller -> Request]
      /\ \A u \in Caller : user[u].pc # "idle" => user[u].path \in Path
      /\ current_config_subdir \in Config /\ switching \in Filter \cup {NoFilter}
      /\ DOMAIN file_info = alive
  BY DEF FsInv, FsTypeOK
<1>1. SUFFICES T /\ S /\ I
  BY DEF FsTypeOK, IInv, Request
<1>2. Idling \in Request /\ Idling.pc = "idle"
  BY FilesystemAssumption DEF Idling, Request, Config
<1>3. ASSUME UNCHANGED user PROVE T
  BY <1>0, <1>3
<1>4. ASSUME UNCHANGED <<cache_vars, file_info>> PROVE I
  BY <1>0, <1>4 DEF cache_vars, InfoKept
<1>5. ASSUME KeepInfo PROVE I
  BY <1>5 DEF KeepInfo, InfoKept
<1>6. ASSUME SettingsUnchanged PROVE S
  BY <1>0, <1>6 DEF SettingsUnchanged
<1>7. ASSUME NEW u \in Caller, user' = [user EXCEPT ![u] = Idling] PROVE T
  BY <1>0, <1>2, <1>7
<1>8. ASSUME NEW u \in Caller, NEW pc \in {"create", "insert"}, ~At(u, "idle"), Goto(u, pc)
      PROVE T
  <2>1. [user[u] EXCEPT !.pc = pc] \in Request
    BY <1>0 DEF Request
  <2> QED BY <1>0, <1>8, <2>1 DEF Goto, At
<1>9. ASSUME NEW u \in Caller, NEW pc \in {"open", "stat_open"}, NEW h \in Handler,
             ~At(u, "idle"),
             user' = [user EXCEPT ![u].pc = pc, ![u].handler = h]
      PROVE T
  <2>1. [user[u] EXCEPT !.pc = pc, !.handler = h] \in Request
    BY <1>0 DEF Request
  <2>2. user' = [user EXCEPT ![u] = [user[u] EXCEPT !.pc = pc, !.handler = h]]
    BY <1>0, <1>9
  <2> QED BY <1>0, <1>9, <2>1, <2>2 DEF At
<1>10. ASSUME NEW u \in Caller, GetOrCreateHandler(u) PROVE T /\ S /\ I
  <2>1. PICK p \in Path, g \in BOOLEAN : \E config \in ExtractFilterName(p) :
          user' = [user EXCEPT ![u] = [pc |-> "find", path |-> p, config |-> config,
                                       want_gapless |-> g, handler |-> NoHandler]]
    BY <1>10 DEF GetOrCreateHandler
  <2>2. ExtractFilterName(p) \subseteq Config
    BY <1>0 DEF ExtractFilterName, Config
  <2> QED BY <1>0, <1>4, <1>6, <1>10, <2>1, <2>2 DEF GetOrCreateHandler, Request
<1>11. ASSUME NEW u \in Caller, StatByFilename(u) PROVE T /\ S /\ I
  <2>1. PICK p \in Path :
          user' = [user EXCEPT ![u] = [pc |-> "stat", path |-> p,
                                       config |-> current_config_subdir,
                                       want_gapless |-> FALSE, handler |-> NoHandler]]
    BY <1>11 DEF StatByFilename, Idling, StatKeyConfig
  <2> QED BY <1>0, <1>4, <1>6, <1>11, <2>1 DEF StatByFilename, Request
<1>12. ASSUME NEW u \in Caller, FindReopens(u) \/ StatFinds(u) PROVE T /\ S /\ I
  <2>1. cache[RequestKey(u)].handler \in Handler
    BY <1>12 DEF FindReopens, StatFinds, FindAndPinHit, FsInv, IInv, CacheTypeOK, Entry
  <2> QED BY <1>5, <1>6, <1>9, <1>12, <2>1 DEF FindReopens, StatFinds, At
<1>13. ASSUME NEW u \in Caller, InsertCreated(u) PROVE T /\ S /\ I
  <2>1. RequestKey(u) \in DOMAIN cache'
    BY <1>13, InsertKeepsTheKey DEF InsertCreated, FsInv
  <2>2. cache'[RequestKey(u)].handler \in Handler
    BY <2>1 DEF IInv, CacheTypeOK, Entry
  <2> QED BY <1>5, <1>6, <1>9, <1>13, <2>2 DEF InsertCreated, At
<1>14. ASSUME NEW u \in Caller, CreateFromDescriptor(u) PROVE T /\ S /\ I
  <2>1. I
    BY <1>0, <1>14 DEF CreateFromDescriptor, Construct, InfoKept
  <2> QED BY <1>6, <1>8, <1>14, <2>1 DEF CreateFromDescriptor, At
<1>15. ASSUME NEW u \in Caller, FindMisses(u) PROVE T /\ S /\ I
  BY <1>5, <1>6, <1>8, <1>15 DEF FindMisses, At
<1>16. ASSUME NEW u \in Caller, OpenFails(u) \/ Close(u) \/ StatMisses(u) \/ StatDone(u)
       PROVE T /\ S /\ I
  BY <1>4, <1>5, <1>6, <1>7, <1>16 DEF OpenFails, Close, StatMisses, StatDone
<1>17. ASSUME NEW u \in Caller, PassoverProcessor(u) PROVE T /\ S /\ I
  BY <1>0, <1>3, <1>6, <1>17 DEF PassoverProcessor, InfoKept
<1>18. ASSUME NEW u \in Caller, FinishDelete(u) PROVE T /\ S /\ I
  BY <1>3, <1>5, <1>6, <1>18 DEF FinishDelete
<1>19. ASSUME SwitchCurrentConfigDir \/ SwitchDone PROVE T /\ S /\ I
  BY <1>0, <1>3, <1>4, <1>19 DEF SwitchCurrentConfigDir, SwitchDone, Config
<1>20. ASSUME Clock PROVE T /\ S /\ I
  BY <1>0, <1>3, <1>6, <1>20 DEF Clock, Tick, InfoKept
<1>21. CASE UNCHANGED fs_vars
  BY <1>0, <1>3, <1>4, <1>21 DEF fs_vars
<1> QED BY <1>10, <1>11, <1>12, <1>13, <1>14, <1>15, <1>16, <1>17, <1>18, <1>19,
           <1>20, <1>21 DEF FsNext

LEMMA StepKeepsFiled ==
  ASSUME FsInv, IInv', [FsNext]_fs_vars, InfoKept
  PROVE  FiledUnderItsKey'
<1>1. ASSUME \A k \in DOMAIN cache' :
               \/ k \in DOMAIN cache /\ cache'[k].handler = cache[k].handler
               \/ \E u \in Caller : /\ ~At(u, "idle")
                                    /\ k = RequestKey(u)
                                    /\ cache'[k].handler \in created[u]
      PROVE  FiledUnderItsKey'
  <2> SUFFICES ASSUME NEW k \in DOMAIN cache'
               PROVE  \E f \in Config, p \in Path :
                        k = CacheKey(f, p) /\ file_info'[cache'[k].handler] = Info(f, p)
    BY DEF FiledUnderItsKey, CacheKey, Info
  <2>1. cache'[k].handler \in alive'
    BY DEF IInv, CacheTypeOK, OneOwner, Owned, Entry
  <2>2. CASE k \in DOMAIN cache /\ cache'[k].handler = cache[k].handler
    <3>1. cache[k].handler \in alive
      BY <2>2 DEF FsInv, IInv, CacheTypeOK, OneOwner, Owned, Entry
    <3>2. file_info'[cache'[k].handler] = file_info[cache[k].handler]
      BY <2>1, <2>2, <3>1 DEF InfoKept
    <3> QED BY <2>2, <3>2 DEF FsInv, FiledUnderItsKey
  <2>3. CASE \E u \in Caller : /\ ~At(u, "idle")
                               /\ k = RequestKey(u)
                               /\ cache'[k].handler \in created[u]
    <3>1. PICK u \in Caller : /\ ~At(u, "idle")
                              /\ k = RequestKey(u)
                              /\ cache'[k].handler \in created[u]
      BY <2>3
    <3>2. cache'[k].handler \in alive
      BY <3>1 DEF FsInv, IInv, CacheTypeOK, OneOwner, Owned
    <3>3. file_info'[cache'[k].handler] = Info(user[u].config, user[u].path)
      BY <2>1, <3>1, <3>2 DEF InfoKept, FsInv, MadeForRequest
    <3> QED BY <3>1, <3>3, RequestKeyIsKey DEF RequestKey
  <2> QED BY <1>1, <2>2, <2>3
<1>2. ASSUME UNCHANGED cache PROVE FiledUnderItsKey'
  BY <1>1, <1>2
<1>3. ASSUME NEW u \in Caller, NEW k, FindAndPinMiss(u, k) PROVE FiledUnderItsKey'
  BY <1>2, <1>3 DEF FindAndPinMiss, cache_vars
<1>4. ASSUME NEW u \in Caller, NEW k, NEW g, FindAndPinReplace(u, k, g)
      PROVE  FiledUnderItsKey'
  BY <1>1, <1>4 DEF FindAndPinReplace, Erase
<1>5. ASSUME NEW u \in Caller, NEW k, NEW g, FindAndPinHit(u, k, g)
      PROVE  FiledUnderItsKey'
  <2>1. \A x \in DOMAIN cache' :
          x \in DOMAIN cache /\ cache'[x].handler = cache[x].handler
    BY <1>5 DEF FindAndPinHit, Pinned
  <2> QED BY <1>1, <2>1
<1>6. ASSUME NEW u \in Caller, NEW k, Unpin(u, k) PROVE FiledUnderItsKey'
  <2>1. \A x \in DOMAIN cache' :
          x \in DOMAIN cache /\ cache'[x].handler = cache[x].handler
    BY <1>6 DEF Unpin, Unpinned, Erase
  <2> QED BY <1>1, <2>1
<1>7. ASSUME NEW u \in Caller, ~At(u, "idle"), NEW h, InsertPinned(u, RequestKey(u), h)
      PROVE  FiledUnderItsKey'
  <2>1. \A x \in DOMAIN cache' :
          \/ x \in DOMAIN cache /\ cache'[x].handler = cache[x].handler
          \/ x = RequestKey(u) /\ cache'[x].handler = h
    BY <1>7 DEF InsertPinned, Erase, Store, Inserted, Pinned
  <2>2. h \in created[u]
    BY <1>7 DEF InsertPinned
  <2> QED BY <1>1, <1>7, <2>1, <2>2
<1>8. ASSUME NEW u \in Caller,
             GetOrCreateHandler(u) \/ OpenFails(u) \/ CreateFromDescriptor(u)
             \/ PassoverProcessor(u) \/ StatByFilename(u) \/ FinishDelete(u)
      PROVE  FiledUnderItsKey'
  BY <1>2, <1>8 DEF GetOrCreateHandler, OpenFails, CreateFromDescriptor, Construct,
     PassoverProcessor, StatByFilename, FinishDelete, DeleteErased, cache_vars
<1>9. ASSUME NEW u \in Caller,
             FindReopens(u) \/ FindMisses(u) \/ StatFinds(u) \/ StatMisses(u)
      PROVE  FiledUnderItsKey'
  BY <1>3, <1>4, <1>5, <1>9 DEF FindReopens, FindMisses, StatFinds, StatMisses
<1>10. ASSUME NEW u \in Caller, InsertCreated(u) PROVE FiledUnderItsKey'
  BY <1>7, <1>10 DEF InsertCreated, At
<1>11. ASSUME NEW u \in Caller, Close(u) \/ StatDone(u) PROVE FiledUnderItsKey'
  BY <1>6, <1>11 DEF Close, StatDone
<1>12. CASE SwitchCurrentConfigDir \/ SwitchDone \/ Clock \/ UNCHANGED fs_vars
  BY <1>2, <1>12 DEF SwitchCurrentConfigDir, SwitchDone, Clock, Tick, fs_vars, cache_vars
<1> QED BY <1>8, <1>9, <1>10, <1>11, <1>12 DEF FsNext

LEMMA StepKeepsMade ==
  ASSUME FsInv, IInv', [FsNext]_fs_vars, InfoKept
  PROVE  MadeForRequest'
<1>1. ASSUME \A c \in Caller : created'[c] = {} \/
               /\ created'[c] = created[c]
               /\ user'[c] = user[c]
      PROVE  MadeForRequest'
  <2> SUFFICES ASSUME NEW c \in Caller, NEW h \in created'[c]
               PROVE  /\ At(c, "insert")'
                      /\ file_info'[h] = Info(user'[c].config, user'[c].path)
                      /\ \A g \in created'[c] : g = h
    BY DEF MadeForRequest, Info
  <2>1. created'[c] = created[c] /\ user'[c] = user[c]
    BY <1>1
  <2>2. h \in alive /\ h \in alive'
    BY <2>1 DEF FsInv, IInv, CacheTypeOK, OneOwner, Owned
  <2> QED BY <2>1, <2>2 DEF InfoKept, FsInv, MadeForRequest, At
<1>2. \A c \in Caller : ~At(c, "insert") => created[c] = {}
  BY DEF FsInv, MadeForRequest
<1>3. user \in [Caller -> Request] /\ created \in [Caller -> SUBSET Handler]
  BY DEF FsInv, IInv, CacheTypeOK
<1>4. ASSUME NEW u \in Caller, ~At(u, "insert"), UNCHANGED created,
             \A c \in Caller \ {u} : user'[c] = user[c]
      PROVE  MadeForRequest'
  BY <1>1, <1>2, <1>4
<1>5. ASSUME NEW u \in Caller,
             GetOrCreateHandler(u) \/ OpenFails(u) \/ StatByFilename(u)
             \/ FindReopens(u) \/ FindMisses(u) \/ StatFinds(u) \/ StatMisses(u)
             \/ Close(u) \/ StatDone(u)
      PROVE  MadeForRequest'
  <2>1. ~At(u, "insert")
    BY <1>5 DEF GetOrCreateHandler, OpenFails, StatByFilename, FindReopens, FindMisses,
       StatFinds, StatMisses, Close, StatDone, At
  <2>2. UNCHANGED created
    BY <1>5 DEF GetOrCreateHandler, OpenFails, StatByFilename, FindReopens, FindMisses,
       StatFinds, StatMisses, Close, StatDone, FindAndPinHit, FindAndPinMiss,
       FindAndPinReplace, Unpin, cache_vars
  <2>3. \A c \in Caller \ {u} : user'[c] = user[c]
    BY <1>3, <1>5 DEF GetOrCreateHandler, OpenFails, StatByFilename, FindReopens,
       FindMisses, StatFinds, StatMisses, Close, StatDone, Goto
  <2> QED BY <1>4, <2>1, <2>2, <2>3
<1>6. ASSUME NEW u \in Caller, CreateFromDescriptor(u) PROVE MadeForRequest'
  <2>1. PICK h \in Handler :
          /\ Construct(u, h)
          /\ file_info' = [x \in alive' |->
                             IF x = h THEN [filter_dir |-> user[u].config,
                                            filename |-> user[u].path]
                                      ELSE file_info[x]]
    BY <1>6 DEF CreateFromDescriptor
  <2>2. /\ created'[u] = {h} /\ h \in alive'
        /\ \A c \in Caller \ {u} : created'[c] = created[c]
    BY <1>3, <2>1 DEF Construct
  <2>3. /\ user'[u].pc = "insert" /\ user'[u].config = user[u].config
        /\ user'[u].path = user[u].path
        /\ \A c \in Caller \ {u} : user'[c] = user[c]
    BY <1>3, <1>6 DEF CreateFromDescriptor, Goto, Request
  <2>4. file_info'[h] = Info(user[u].config, user[u].path)
    BY <2>1, <2>2 DEF Info
  <2> SUFFICES ASSUME NEW c \in Caller, NEW x \in created'[c]
               PROVE  /\ At(c, "insert")'
                      /\ file_info'[x] = Info(user'[c].config, user'[c].path)
                      /\ \A g \in created'[c] : g = x
    BY DEF MadeForRequest, Info
  <2>5. CASE c = u
    BY <2>2, <2>3, <2>4, <2>5 DEF At, Info
  <2>6. CASE c # u
    <3>1. created'[c] = created[c] /\ user'[c] = user[c]
      BY <2>2, <2>3, <2>6
    <3>2. x \in alive /\ x \in alive'
      BY <3>1 DEF FsInv, IInv, CacheTypeOK, OneOwner, Owned
    <3> QED BY <3>1, <3>2 DEF InfoKept, FsInv, MadeForRequest, At
  <2> QED BY <2>5, <2>6
<1>7. ASSUME NEW u \in Caller, InsertCreated(u) PROVE MadeForRequest'
  <2>1. PICK h \in Handler : InsertPinned(u, RequestKey(u), h)
    BY <1>7 DEF InsertCreated
  <2>2. h \in created[u] /\ created' = [created EXCEPT ![u] = created[u] \ {h}]
    BY <1>3, <2>1 DEF InsertPinned
  <2>3. created[u] = {h}
    BY <2>2 DEF FsInv, MadeForRequest
  <2>4. created'[u] = {} /\ \A c \in Caller \ {u} : created'[c] = created[c]
    BY <1>3, <2>2, <2>3
  <2>5. \A c \in Caller \ {u} : user'[c] = user[c]
    BY <1>3, <1>7 DEF InsertCreated
  <2> QED BY <1>1, <2>4, <2>5
<1>8. ASSUME NEW u \in Caller, PassoverProcessor(u) \/ FinishDelete(u)
      PROVE  MadeForRequest'
  BY <1>1, <1>8 DEF PassoverProcessor, FinishDelete, DeleteErased
<1>9. CASE SwitchCurrentConfigDir \/ SwitchDone \/ Clock \/ UNCHANGED fs_vars
  BY <1>1, <1>9 DEF SwitchCurrentConfigDir, SwitchDone, Clock, Tick, fs_vars, cache_vars
<1> QED BY <1>5, <1>6, <1>7, <1>8, <1>9 DEF FsNext

-----------------------------------------------------------------------------
(* Who holds what, and how often it is counted.                            *)

\* HoldersOf, after the step, for a handler picked before it.
HoldersNext(h) == {u \in Caller : Holds(u)' /\ user'[u].handler = h}

HoldersOK == HeldUnderRequestKey /\ IsFiniteSet(Holders) /\ RefCountExact

\* Who takes handler h is one more to hold it, and holds no other.
LEMMA LeaseHolders ==
  ASSUME FsInv, NEW u \in Caller, ~Holds(u),
         NEW pc \in {"open", "stat_open"}, NEW h,
         user' = [user EXCEPT ![u].pc = pc, ![u].handler = h]
  PROVE  /\ HoldersNext(h) = HoldersOf(h) \cup {u}
         /\ Cardinality(HoldersNext(h)) = Cardinality(HoldersOf(h)) + 1
         /\ \A x : x # h => HoldersNext(x) = HoldersOf(x)
<1>1. /\ user'[u].pc = pc /\ user'[u].handler = h
      /\ \A c \in Caller \ {u} : user'[c] = user[c]
  BY DEF FsInv, Request
<1>2. Holds(u)' /\ \A c \in Caller \ {u} : Holds(c)' <=> Holds(c)
  BY <1>1 DEF Holds, At
<1>3. HoldersNext(h) = HoldersOf(h) \cup {u} /\ u \notin HoldersOf(h)
  BY <1>1, <1>2 DEF HoldersOf, HoldersNext
<1>4. \A x : x # h => HoldersNext(x) = HoldersOf(x)
  BY <1>1, <1>2 DEF HoldersOf, HoldersNext
<1>5. Cardinality(HoldersNext(h)) = Cardinality(HoldersOf(h)) + 1
  BY <1>3, HoldersOfFinite, FS_AddElement
<1> QED BY <1>3, <1>4, <1>5

\* Who gives handler h back is one less to hold it.
LEMMA ReturnHolders ==
  ASSUME FsInv, NEW u \in Caller, Holds(u), user' = [user EXCEPT ![u] = Idling],
         NEW h, h = user[u].handler
  PROVE  /\ HoldersNext(h) = HoldersOf(h) \ {u}
         /\ Cardinality(HoldersOf(h)) > 0
         /\ IsFiniteSet(HoldersNext(h))
         /\ Cardinality(HoldersNext(h)) = Cardinality(HoldersOf(h)) - 1
         /\ \A x : x # h => HoldersNext(x) = HoldersOf(x)
<1>1. /\ user'[u] = Idling
      /\ \A c \in Caller \ {u} : user'[c] = user[c]
  BY DEF FsInv
<1>2. ~Holds(u)' /\ \A c \in Caller \ {u} : Holds(c)' <=> Holds(c)
  BY <1>1 DEF Holds, At, Idling
<1>3. HoldersNext(h) = HoldersOf(h) \ {u} /\ u \in HoldersOf(h)
  BY <1>1, <1>2 DEF HoldersOf, HoldersNext
<1>4. \A x : x # h => HoldersNext(x) = HoldersOf(x)
  BY <1>1, <1>2 DEF HoldersOf, HoldersNext
<1>5. IsFiniteSet(HoldersOf(h)) /\ Cardinality(HoldersOf(h)) \in Nat
  BY HoldersOfFinite
<1>6. /\ IsFiniteSet(HoldersNext(h))
      /\ Cardinality(HoldersNext(h)) = Cardinality(HoldersOf(h)) - 1
  BY <1>3, <1>5, FS_RemoveElement
<1>7. Cardinality(HoldersOf(h)) # 0
  BY <1>3, <1>5, FS_EmptySet
<1> QED BY <1>3, <1>4, <1>5, <1>6, <1>7

\* A step in which nobody takes or gives back a handler, and which erases none
\* but idle entries.
LEMMA QuietKeepsHolders ==
  ASSUME FsInv,
         \A c \in Caller : Holds(c)' <=> Holds(c),
         \A c \in Caller : Holds(c) => user'[c] = user[c],
         NEW gone \in SUBSET Idle(cache), cache' = Erase(cache, gone)
  PROVE  HoldersOK'
<1>1. \A h : HoldersNext(h) = HoldersOf(h)
  BY DEF HoldersOf, HoldersNext
<1>2. Holders' = Holders
  BY DEF Holders
<1>3. HeldUnderRequestKey'
  <2> SUFFICES ASSUME NEW c \in Caller, Holds(c)'
               PROVE  /\ RequestKey(c)' \in DOMAIN cache'
                      /\ cache'[RequestKey(c)'].handler = user'[c].handler
    BY DEF HeldUnderRequestKey
  <2>1. Holds(c) /\ user'[c] = user[c] /\ RequestKey(c)' = RequestKey(c)
    BY DEF RequestKey, CacheKey
  <2>2. RequestKey(c) \in DOMAIN cache \ gone
    BY <2>1, HoldersAreServed, HeldIsPinned
  <2> QED BY <2>1, <2>2, HoldersAreServed DEF Erase
<1>4. RefCountExact'
  <2> SUFFICES ASSUME NEW k \in DOMAIN cache'
               PROVE  cache'[k].references = Cardinality(HoldersNext(cache'[k].handler))
    BY DEF RefCountExact, HoldersOf, HoldersNext, Holds, At
  <2>1. k \in DOMAIN cache /\ cache'[k] = cache[k]
    BY DEF Erase
  <2> QED BY <1>1, <2>1 DEF FsInv, RefCountExact
<1> QED BY <1>2, <1>3, <1>4 DEF HoldersOK, FsInv

\* A step in which u takes handler h: G is the table with that use counted, from
\* which none but idle entries are erased.
LEMMA LeaseKeepsHolders ==
  ASSUME FsInv, IInv', NEW u \in Caller, ~Holds(u),
         NEW pc \in {"open", "stat_open"}, NEW h,
         user' = [user EXCEPT ![u].pc = pc, ![u].handler = h],
         NEW G, DOMAIN G = DOMAIN cache \cup {RequestKey(u)},
         \A x \in DOMAIN cache \ {RequestKey(u)} : G[x] = cache[x],
         RequestKey(u) \in DOMAIN cache => cache[RequestKey(u)].handler = h,
         G[RequestKey(u)].handler = h,
         G[RequestKey(u)].references = Cardinality(HoldersOf(h)) + 1,
         NEW gone \in SUBSET Idle(G), cache' = Erase(G, gone)
  PROVE  HoldersOK'
<1> DEFINE k == RequestKey(u)
<1>1. /\ user \in [Caller -> Request]
      /\ user'[u].pc = pc /\ user'[u].handler = h
      /\ user'[u].config = user[u].config /\ user'[u].path = user[u].path
      /\ \A c \in Caller \ {u} : user'[c] = user[c]
  BY DEF FsInv, Request
<1>2. Holds(u)' /\ \A c \in Caller \ {u} : Holds(c)' <=> Holds(c)
  BY <1>1 DEF Holds, At
<1>3. Holders' = Holders \cup {u}
  BY <1>2 DEF Holders
<1>4. \A x : x # h => HoldersNext(x) = HoldersOf(x)
  BY LeaseHolders
<1>5. IsFiniteSet(HoldersOf(h)) /\ Cardinality(HoldersOf(h)) \in Nat
  BY HoldersOfFinite
<1>6. Cardinality(HoldersNext(h)) = Cardinality(HoldersOf(h)) + 1
  BY LeaseHolders
<1>7. k \in DOMAIN G \ gone
  BY <1>5 DEF Idle
<1>8. /\ k \in DOMAIN cache' /\ cache'[k].handler = h
      /\ cache'[k].references = Cardinality(HoldersNext(h))
  BY <1>6, <1>7 DEF Erase
<1>9. HeldUnderRequestKey'
  <2> SUFFICES ASSUME NEW c \in Caller, Holds(c)'
               PROVE  /\ RequestKey(c)' \in DOMAIN cache'
                      /\ cache'[RequestKey(c)'].handler = user'[c].handler
    BY DEF HeldUnderRequestKey
  <2>1. RequestKey(c)' = RequestKey(c)
    BY <1>1 DEF RequestKey, CacheKey
  <2>2. CASE c = u
    BY <1>1, <1>8, <2>1, <2>2
  <2>3. CASE c # u
    <3>1. Holds(c) /\ user'[c] = user[c]
      BY <1>1, <1>2, <2>3
    <3>2. /\ RequestKey(c) \in DOMAIN cache \ Idle(cache)
          /\ cache[RequestKey(c)].handler = user[c].handler
      BY <3>1, HoldersAreServed, HeldIsPinned
    <3>3. CASE RequestKey(c) = k
      BY <1>8, <2>1, <3>1, <3>2, <3>3
    <3>4. CASE RequestKey(c) # k
      BY <2>1, <3>1, <3>2, <3>4 DEF Erase, Idle
    <3> QED BY <3>3, <3>4
  <2> QED BY <2>2, <2>3
<1>10. RefCountExact'
  <2> SUFFICES ASSUME NEW x \in DOMAIN cache'
               PROVE  cache'[x].references = Cardinality(HoldersNext(cache'[x].handler))
    BY DEF RefCountExact, HoldersOf, HoldersNext, Holds, At
  <2>1. CASE x = k
    BY <1>8, <2>1
  <2>2. CASE x # k
    <3>1. x \in DOMAIN cache /\ cache'[x] = cache[x]
      BY <2>2 DEF Erase
    <3>2. cache'[x].handler # h
      BY <1>8, <2>2 DEF IInv, OneOwner
    <3> QED BY <1>4, <3>1, <3>2 DEF FsInv, RefCountExact
  <2> QED BY <2>1, <2>2
<1>11. IsFiniteSet(Holders')
  BY <1>3, FS_AddElement DEF FsInv
<1> QED BY <1>9, <1>10, <1>11 DEF HoldersOK

\* A step in which u gives its handler back, and the entry is erased if nobody
\* else holds it.
LEMMA ReturnKeepsHolders ==
  ASSUME FsInv, IInv', NEW u \in Caller, Holds(u), Unpin(u, RequestKey(u)),
         user' = [user EXCEPT ![u] = Idling]
  PROVE  HoldersOK'
<1> DEFINE k    == RequestKey(u)
           h    == user[u].handler
           U    == [cache EXCEPT ![k] = Unpinned(@)]
           gone == ErasedByUnpin(U, k)
<1>1. /\ user \in [Caller -> Request]
      /\ user'[u] = Idling
      /\ \A c \in Caller \ {u} : user'[c] = user[c]
  BY DEF FsInv
<1>2. ~Holds(u)' /\ \A c \in Caller \ {u} : Holds(c)' <=> Holds(c)
  BY <1>1 DEF Holds, At, Idling
<1>3. Holders' = Holders \ {u}
  BY <1>2 DEF Holders
<1>4. \A x : x # h => HoldersNext(x) = HoldersOf(x)
  BY ReturnHolders
<1>5. IsFiniteSet(HoldersNext(h))
  BY ReturnHolders
<1>6. Cardinality(HoldersNext(h)) = Cardinality(HoldersOf(h)) - 1
  BY ReturnHolders
<1>7. k \in DOMAIN cache /\ cache[k].handler = h
  BY HoldersAreServed
<1>8. /\ DOMAIN U = DOMAIN cache
      /\ \A x \in DOMAIN cache \ {k} : U[x] = cache[x]
      /\ U[k].handler = h /\ U[k].references = cache[k].references - 1
  BY <1>7 DEF Unpinned
<1>9. U[k].references = Cardinality(HoldersNext(h))
  BY <1>6, <1>7, <1>8 DEF FsInv, RefCountExact
<1>10. cache' = Erase(U, gone) /\ gone \subseteq Idle(U) \cap {k}
  BY DEF Unpin, ErasedByUnpin
<1> HIDE DEF U, gone
<1>11. ASSUME NEW c \in Caller, Holds(c)'
       PROVE  /\ RequestKey(c)' \in DOMAIN cache'
              /\ cache'[RequestKey(c)'].handler = user'[c].handler
  <2>1. c # u /\ Holds(c) /\ user'[c] = user[c] /\ RequestKey(c)' = RequestKey(c)
    BY <1>1, <1>2, <1>11 DEF RequestKey, CacheKey
  <2>2. RequestKey(c) \in DOMAIN cache /\ cache[RequestKey(c)].handler = user[c].handler
    BY <2>1, HoldersAreServed
  <2>3. CASE RequestKey(c) = k
    <3>1. c \in HoldersNext(h)
      BY <1>7, <1>11, <2>1, <2>2, <2>3 DEF HoldersOf, HoldersNext
    <3>2. U[k].references # 0
      BY <1>5, <1>9, <3>1, FS_EmptySet
    <3> QED BY <1>7, <1>8, <1>10, <2>1, <2>2, <2>3, <3>2 DEF Erase, Idle
  <2>4. CASE RequestKey(c) # k
    BY <1>8, <1>10, <2>1, <2>2, <2>4 DEF Erase
  <2> QED BY <2>3, <2>4
<1>12. ASSUME NEW x \in DOMAIN cache'
       PROVE  cache'[x].references = Cardinality(HoldersNext(cache'[x].handler))
  <2>1. x \in DOMAIN cache /\ cache'[x] = U[x]
    BY <1>8, <1>10, <1>12 DEF Erase
  <2>2. CASE x = k
    BY <1>8, <1>9, <2>1, <2>2
  <2>3. CASE x # k
    <3>1. cache'[x] = cache[x]
      BY <1>8, <2>1, <2>3
    <3>2. cache[x].handler # h
      BY <1>7, <2>1, <2>3 DEF FsInv, IInv, OneOwner
    <3> QED BY <1>4, <2>1, <3>1, <3>2 DEF FsInv, RefCountExact
  <2> QED BY <2>2, <2>3
<1>13. HeldUnderRequestKey'
  BY <1>11 DEF HeldUnderRequestKey
<1>14. RefCountExact'
  BY <1>12 DEF RefCountExact, HoldersOf, HoldersNext, Holds, At
<1>15. IsFiniteSet(Holders')
  BY <1>3, FS_RemoveElement DEF FsInv
<1> QED BY <1>13, <1>14, <1>15 DEF HoldersOK

\* The steps of a request before it has its handler: nobody takes or gives back.
LEMMA BetweenHolds ==
  ASSUME FsInv, NEW u \in Caller,
         GetOrCreateHandler(u) \/ StatByFilename(u) \/ OpenFails(u) \/ StatMisses(u)
         \/ FindMisses(u) \/ CreateFromDescriptor(u)
  PROVE  ~Holds(u) /\ ~Holds(u)' /\ \A c \in Caller \ {u} : user'[c] = user[c]
<1>1. user \in [Caller -> Request]
  BY DEF FsInv
<1>2. ~Holds(u)
  BY DEF GetOrCreateHandler, StatByFilename, OpenFails, StatMisses, FindMisses,
     CreateFromDescriptor, Holds, At
<1>3. CASE GetOrCreateHandler(u)
  <2>1. user'[u].pc = "find"
    BY <1>1, <1>3 DEF GetOrCreateHandler
  <2>2. \E r : user' = [user EXCEPT ![u] = r]
    BY <1>3, Zenon DEF GetOrCreateHandler
  <2> QED BY <1>1, <1>2, <2>1, <2>2 DEF Holds, At
<1>4. CASE StatByFilename(u)
  <2>1. user'[u].pc = "stat"
    BY <1>1, <1>4 DEF StatByFilename, Idling
  <2>2. \E r : user' = [user EXCEPT ![u] = r]
    BY <1>4, Zenon DEF StatByFilename
  <2> QED BY <1>1, <1>2, <2>1, <2>2 DEF Holds, At
<1>5. CASE OpenFails(u) \/ StatMisses(u)
  BY <1>1, <1>2, <1>5 DEF OpenFails, StatMisses, Idling, Holds, At
<1>6. CASE FindMisses(u) \/ CreateFromDescriptor(u)
  <2>1. user'[u].pc \in {"create", "insert"} /\ \A c \in Caller \ {u} : user'[c] = user[c]
    BY <1>1, <1>6 DEF FindMisses, CreateFromDescriptor, Goto, Request
  <2> QED BY <1>2, <2>1 DEF Holds, At
<1> QED BY <1>3, <1>4, <1>5, <1>6

LEMMA StepKeepsHolders ==
  ASSUME FsInv, IInv', [FsNext]_fs_vars
  PROVE  HoldersOK'
<1>0. user \in [Caller -> Request]
  BY DEF FsInv
<1>1. ASSUME UNCHANGED cache, NEW u \in Caller, ~Holds(u), ~Holds(u)',
             \A c \in Caller \ {u} : user'[c] = user[c]
      PROVE  HoldersOK'
  <2>1. cache' = Erase(cache, {})
    BY <1>1 DEF Erase, FsInv, IInv, CacheTypeOK
  <2>2. \A c \in Caller : Holds(c)' <=> Holds(c)
    BY <1>1 DEF Holds, At
  <2> QED BY <1>1, <2>1, <2>2, QuietKeepsHolders
<1>2. ASSUME UNCHANGED <<cache, user>> PROVE HoldersOK'
  <2>1. cache' = Erase(cache, {})
    BY <1>2 DEF Erase, FsInv, IInv, CacheTypeOK
  <2>2. \A c \in Caller : Holds(c)' <=> Holds(c)
    BY <1>2 DEF Holds, At
  <2> QED BY <1>2, <2>1, <2>2, QuietKeepsHolders
<1>3. ASSUME NEW u \in Caller, GetOrCreateHandler(u) \/ StatByFilename(u)
                                \/ OpenFails(u) \/ StatMisses(u) \/ CreateFromDescriptor(u)
      PROVE  HoldersOK'
  <2>1. UNCHANGED cache
    BY <1>3 DEF GetOrCreateHandler, StatByFilename, OpenFails, StatMisses, FindAndPinMiss,
       CreateFromDescriptor, Construct, cache_vars
  <2> QED BY <1>1, <1>3, <2>1, BetweenHolds
<1>4. ASSUME NEW u \in Caller, FindMisses(u) PROVE HoldersOK'
  <2>1. ~Holds(u) /\ ~Holds(u)' /\ \A c \in Caller \ {u} : user'[c] = user[c]
    BY <1>4, BetweenHolds
  <2>2. CASE FindAndPinMiss(u, RequestKey(u))
    BY <1>1, <2>1, <2>2 DEF FindAndPinMiss, cache_vars
  <2>3. CASE FindAndPinReplace(u, RequestKey(u), user[u].want_gapless)
    <3>1. cache' = Erase(cache, {RequestKey(u)}) /\ RequestKey(u) \in Idle(cache)
      BY <2>3 DEF FindAndPinReplace, PretendMissing
    <3>2. \A c \in Caller : Holds(c)' <=> Holds(c)
      BY <2>1 DEF Holds, At
    <3>3. \A c \in Caller : Holds(c) => user'[c] = user[c]
      BY <2>1 DEF Holds, At
    <3> QED BY <3>1, <3>2, <3>3, QuietKeepsHolders
  <2> QED BY <1>4, <2>2, <2>3 DEF FindMisses
<1>5. ASSUME NEW u \in Caller, FindReopens(u) \/ StatFinds(u) PROVE HoldersOK'
  <2> DEFINE k == RequestKey(u)
             h == cache[k].handler
             G == [cache EXCEPT ![k] = Pinned(@)]
  <2>1. PICK pc \in {"open", "stat_open"} :
          user' = [user EXCEPT ![u].pc = pc, ![u].handler = h]
    BY <1>5 DEF FindReopens, StatFinds
  <2>2. k \in DOMAIN cache /\ cache' = G /\ ~Holds(u)
    BY <1>5 DEF FindReopens, StatFinds, FindAndPinHit, Holds, At
  <2>3. /\ DOMAIN G = DOMAIN cache \cup {k}
        /\ \A x \in DOMAIN cache \ {k} : G[x] = cache[x]
        /\ G[k].handler = h /\ G[k].references = cache[k].references + 1
    BY <2>2 DEF Pinned
  <2>4. G[k].references = Cardinality(HoldersOf(h)) + 1
    BY <2>2, <2>3 DEF FsInv, RefCountExact
  <2>5. cache' = Erase(G, {})
    BY <2>2 DEF Erase
  <2> HIDE DEF G
  <2> QED BY <2>1, <2>2, <2>3, <2>4, <2>5, LeaseKeepsHolders
<1>6. ASSUME NEW u \in Caller, InsertCreated(u) PROVE HoldersOK'
  <2> DEFINE k == RequestKey(u)
             h == cache'[k].handler
  <2>1. PICK x \in Handler : InsertPinned(u, k, x)
    BY <1>6 DEF InsertCreated
  <2> DEFINE G == Store(cache, k, Inserted(cache, k, x))
  <2>2. PICK gone \in CleanupChoices(G) : cache' = Erase(G, gone)
    BY <2>1 DEF InsertPinned
  <2>3. gone \in SUBSET Idle(G)
    BY <2>2, CleanupErasesIdle
  <2>4. k \in DOMAIN cache' /\ k \in DOMAIN G /\ G[k].handler = h
    BY <2>1, <2>2, InsertKeepsTheKey DEF Erase, Store, FsInv
  <2>5. user' = [user EXCEPT ![u].pc = "open", ![u].handler = h] /\ ~Holds(u)
    BY <1>6 DEF InsertCreated, Holds, At
  <2>6. /\ DOMAIN G = DOMAIN cache \cup {k}
        /\ \A y \in DOMAIN cache \ {k} : G[y] = cache[y]
        /\ G[k] = Inserted(cache, k, x)
    BY DEF Store
  <2>7. CASE k \in DOMAIN cache
    <3>1. cache[k].handler = h /\ G[k].references = cache[k].references + 1
      BY <2>4, <2>6, <2>7 DEF Inserted, Pinned
    <3>2. G[k].references = Cardinality(HoldersOf(h)) + 1
      BY <2>7, <3>1 DEF FsInv, RefCountExact
    <3> HIDE DEF G
    <3> QED BY <2>2, <2>3, <2>4, <2>5, <2>6, <2>7, <3>1, <3>2, LeaseKeepsHolders
  <2>8. CASE k \notin DOMAIN cache
    <3>1. h = x /\ G[k].references = 1
      BY <2>4, <2>6, <2>8 DEF Inserted, Pinned
    <3>2. x \in created[u]
      BY <2>1 DEF InsertPinned
    <3>3. HoldersOf(h) = {}
      <4> SUFFICES ASSUME NEW c \in HoldersOf(h) PROVE FALSE
        OBVIOUS
      <4>1. c \in Caller /\ Holds(c) /\ user[c].handler = h
        BY DEF HoldersOf
      <4>2. RequestKey(c) \in DOMAIN cache /\ cache[RequestKey(c)].handler = h
        BY <4>1, HoldersAreServed
      <4> QED BY <3>1, <3>2, <4>2 DEF FsInv, IInv, OneOwner
    <3>4. G[k].references = Cardinality(HoldersOf(h)) + 1
      BY <3>1, <3>3, FS_EmptySet
    <3> HIDE DEF G
    <3> QED BY <2>2, <2>3, <2>4, <2>5, <2>6, <2>8, <3>4, LeaseKeepsHolders
  <2> QED BY <2>7, <2>8
<1>7. ASSUME NEW u \in Caller, PassoverProcessor(u) \/ FinishDelete(u) PROVE HoldersOK'
  BY <1>2, <1>7 DEF PassoverProcessor, FinishDelete, DeleteErased
<1>8. ASSUME NEW u \in Caller, Close(u) \/ StatDone(u) PROVE HoldersOK'
  <2>1. Holds(u) /\ user' = [user EXCEPT ![u] = Idling]
    BY <1>8 DEF Close, StatDone, Holds
  <2>2. Unpin(u, RequestKey(u))
    BY <1>8, <2>1, HoldersAreServed DEF Close, StatDone
  <2> QED BY <2>1, <2>2, ReturnKeepsHolders
<1>9. CASE SwitchCurrentConfigDir \/ SwitchDone \/ Clock \/ UNCHANGED fs_vars
  BY <1>2, <1>9 DEF SwitchCurrentConfigDir, SwitchDone, Clock, Tick, fs_vars, cache_vars
<1> QED BY <1>3, <1>4, <1>5, <1>6, <1>7, <1>8, <1>9 DEF FsNext

LEMMA NextKeepsFsInv == FsInv /\ [FsNext]_fs_vars => FsInv'
<1> SUFFICES ASSUME FsInv, [FsNext]_fs_vars PROVE FsInv'
  OBVIOUS
<1>1. IInv'
  BY StepIsCacheStep, NextKeepsIInv DEF FsInv
<1>2. FsTypeOK' /\ user' \in [Caller -> Request] /\ InfoKept
  BY <1>1, StepKeepsType
<1>3. FiledUnderItsKey' /\ MadeForRequest'
  BY <1>1, <1>2, StepKeepsFiled, StepKeepsMade
<1>4. HoldersOK'
  BY <1>1, StepKeepsHolders
<1>5. KeysDistinct'
  BY DEF FsInv, KeysDistinct, CacheKey, Config
<1> QED BY <1>1, <1>2, <1>3, <1>4, <1>5 DEF FsInv, HoldersOK

-----------------------------------------------------------------------------
(* Results.                                                                *)

LEMMA FsInvariant ==
  ASSUME KeysDistinct
  PROVE  FsSafety => []FsInv
<1>1. FsInit => FsInv
  BY InitFsInv
<1>2. FsInv /\ [FsNext]_fs_vars => FsInv'
  BY NextKeepsFsInv
<1> QED BY <1>1, <1>2, PTL DEF FsSafety

\* The filesystem keeps to the contract of its cache, whatever its users do and
\* whenever the filter is switched: every step is one the most general client
\* may take, and so all the cache guarantees holds here (the theorems of
\* FileHandlerCache_proofs).
THEOREM FilesystemImplementsCacheClient ==
  ASSUME KeysDistinct
  PROVE  FsSafety => CacheSpec
<1>1. FsInit => CacheInit
  BY DEF FsInit
<1>2. FsInv /\ [FsNext]_fs_vars => [CacheNext]_cache_vars
  BY StepIsCacheStep
<1> QED BY <1>1, <1>2, FsInvariant, PTL DEF FsSafety, CacheSpec

\* Requests, cache and the record of what each handler was made for have the
\* form they are declared with.
THEOREM FilesystemTypeCorrect ==
  ASSUME KeysDistinct
  PROVE  FsSafety => []FsTypeOK
<1>1. FsInv => FsTypeOK
  BY DEF FsInv
<1> QED BY <1>1, FsInvariant, PTL

\* The reference count of an entry is the number of opens, reopens and stats
\* that have its handler (file-handler-cache.h:61).
THEOREM FilesystemRefCountExact ==
  ASSUME KeysDistinct
  PROVE  FsSafety => []RefCountExact
<1>1. FsInv => RefCountExact
  BY DEF FsInv
<1> QED BY <1>1, FsInvariant, PTL

\* Close and the end of a stat compute the key of the entry they have to give
\* back: the assertion of Unpin (file-handler-cache.cc:106) never fails.
THEOREM FilesystemUnpinFindsEntry ==
  ASSUME KeysDistinct
  PROVE  FsSafety => []UnpinFindsEntry
<1>1. FsInv => UnpinFindsEntry
  BY HoldersAreServed DEF UnpinFindsEntry
<1> QED BY <1>1, FsInvariant, PTL

\* A handler that is served, new or from the cache, was made for the file asked
\* for and the filter in force when it was asked (README.md, "Files opened after
\* such change will have the new filter applied").
THEOREM FilesystemHandlerServesRequest ==
  ASSUME KeysDistinct
  PROVE  FsSafety => []HandlerServesRequest
<1>1. FsInv => HandlerServesRequest
  BY HoldersAreServed DEF HandlerServesRequest, Info
<1> QED BY <1>1, FsInvariant, PTL

\* Whoever has a file open under one filter shares one handler, however the
\* opens race (file-handler-cache.h:33).
THEOREM FilesystemOneConversionPerOpenFile ==
  ASSUME KeysDistinct
  PROVE  FsSafety => []OneConversionPerOpenFile
<1>1. ASSUME FsInv PROVE OneConversionPerOpenFile
  <2> SUFFICES ASSUME NEW u \in Caller, NEW v \in Caller, Holds(u), Holds(v),
                      user[u].path = user[v].path, user[u].config = user[v].config
               PROVE  user[u].handler = user[v].handler
    BY DEF OneConversionPerOpenFile
  <2>1. RequestKey(u) = RequestKey(v)
    BY DEF RequestKey
  <2> QED BY <1>1, <2>1, HoldersAreServed
<1> QED BY <1>1, FsInvariant, PTL

-----------------------------------------------------------------------------
(* The life of one handler. HandlerLife is what its users count on.        *)

Life(h) == INSTANCE HandlerLife
             WITH status <- Status(h), leases <- Cardinality(HoldersOf(h))

\* Where a handler is.
LEMMA StatusOf ==
  ASSUME FsInv, NEW h \in Handler
  PROVE  /\ Status(h) \in {"none", "created", "cached", "retired"}
         /\ Status(h) = "none" <=> h \notin alive
         /\ Status(h) = "created" <=> \E c \in Caller : h \in created[c]
         /\ Status(h) = "retired" <=> \E c \in Caller : h \in to_delete[c]
         /\ Status(h) = "cached" <=> \E k \in DOMAIN cache : cache[k].handler = h
         /\ Status(h) # "cached" => HoldersOf(h) = {}
<1>1. /\ h \in alive <=> Owned(h)
      /\ \A k \in DOMAIN cache, c \in Caller :
           cache[k].handler \notin created[c] \cup to_delete[c]
      /\ \A c1, c2 \in Caller : created[c1] \cap to_delete[c2] = {}
  BY DEF FsInv, IInv, OneOwner
<1>2. /\ Status(h) \in {"none", "created", "cached", "retired"}
      /\ Status(h) = "none" <=> h \notin alive
      /\ Status(h) = "created" <=> \E c \in Caller : h \in created[c]
      /\ Status(h) = "retired" <=> \E c \in Caller : h \in to_delete[c]
      /\ Status(h) = "cached" <=> \E k \in DOMAIN cache : cache[k].handler = h
  BY <1>1 DEF Status, Owned
<1>3. ASSUME NEW c \in HoldersOf(h) PROVE Status(h) = "cached"
  BY <1>2, <1>3, HoldersAreServed DEF HoldersOf
<1> QED BY <1>2, <1>3

LEMMA LifeInit ==
  ASSUME FsInit, KeysDistinct, NEW h \in Handler
  PROVE  Life(h)!Init
<1>1. FsInv
  BY InitFsInv
<1>2. Status(h) = "none"
  BY DEF FsInit, CacheInit, Status
<1>3. HoldersOf(h) = {}
  BY <1>1, <1>2, StatusOf
<1> QED BY <1>2, <1>3, FS_EmptySet DEF Life!Init

\* The same after a step: StatusOf holds in every state the invariant holds in.
LEMMA StatusOfNext ==
  FsInv' => \A h \in Handler :
    /\ Status(h)' \in {"none", "created", "cached", "retired"}
    /\ Status(h)' = "none" <=> h \notin alive'
    /\ Status(h)' = "created" <=> \E c \in Caller : h \in created'[c]
    /\ Status(h)' = "retired" <=> \E c \in Caller : h \in to_delete'[c]
    /\ Status(h)' = "cached" <=> \E k \in DOMAIN cache' : cache'[k].handler = h
    /\ Status(h)' # "cached" => Cardinality(HoldersNext(h)) = 0
<1>1. FsInv => \A h \in Handler :
        /\ Status(h) \in {"none", "created", "cached", "retired"}
        /\ Status(h) = "none" <=> h \notin alive
        /\ Status(h) = "created" <=> \E c \in Caller : h \in created[c]
        /\ Status(h) = "retired" <=> \E c \in Caller : h \in to_delete[c]
        /\ Status(h) = "cached" <=> \E k \in DOMAIN cache : cache[k].handler = h
        /\ Status(h) # "cached" => Cardinality(HoldersOf(h)) = 0
  BY StatusOf, FS_EmptySet
<1>2. FsInv' => (\A h \in Handler :
        /\ Status(h) \in {"none", "created", "cached", "retired"}
        /\ Status(h) = "none" <=> h \notin alive
        /\ Status(h) = "created" <=> \E c \in Caller : h \in created[c]
        /\ Status(h) = "retired" <=> \E c \in Caller : h \in to_delete[c]
        /\ Status(h) = "cached" <=> \E k \in DOMAIN cache : cache[k].handler = h
        /\ Status(h) # "cached" => Cardinality(HoldersOf(h)) = 0)'
  BY <1>1, PTL
<1>3. \A h : HoldersOf(h)' = HoldersNext(h)
  BY DEF HoldersOf, HoldersNext
<1> QED BY <1>2, <1>3

\* The steps of the code, as steps of one handler's life.
LEMMA LifeStep ==
  ASSUME FsInv, FsInv', [FsNext]_fs_vars, NEW h \in Handler
  PROVE  [Life(h)!Next]_(Life(h)!life_vars)
<1> DEFINE n == Cardinality(HoldersOf(h))
           m == Cardinality(HoldersNext(h))
<1>0. /\ Cardinality(HoldersOf(h))' = m
      /\ n \in Nat
      /\ user \in [Caller -> Request]
      /\ created \in [Caller -> SUBSET Handler]
      /\ to_delete \in [Caller -> SUBSET Handler]
  BY HoldersOfFinite DEF HoldersOf, HoldersNext, FsInv, IInv, CacheTypeOK
<1>before. /\ Status(h) = "none" <=> h \notin alive
           /\ Status(h) = "created" <=> \E c \in Caller : h \in created[c]
           /\ Status(h) = "retired" <=> \E c \in Caller : h \in to_delete[c]
           /\ Status(h) = "cached" <=> \E k \in DOMAIN cache : cache[k].handler = h
           /\ Status(h) # "cached" => n = 0
  BY StatusOf, FS_EmptySet
<1>after. /\ Status(h)' = "none" <=> h \notin alive'
          /\ Status(h)' = "created" <=> \E c \in Caller : h \in created'[c]
          /\ Status(h)' = "retired" <=> \E c \in Caller : h \in to_delete'[c]
          /\ Status(h)' = "cached" <=> \E k \in DOMAIN cache' : cache'[k].handler = h
          /\ Status(h)' # "cached" => m = 0
  BY StatusOfNext
<1>1. ASSUME Status(h)' = Status(h), m = n
      PROVE  UNCHANGED Life(h)!life_vars
  BY <1>0, <1>1 DEF Life!life_vars
<1>2. ASSUME h \in alive' <=> h \in alive,
             (\E c \in Caller : h \in created'[c]) <=> (\E c \in Caller : h \in created[c]),
             (\E c \in Caller : h \in to_delete'[c]) <=> (\E c \in Caller : h \in to_delete[c])
      PROVE  Status(h)' = Status(h)
  BY <1>2 DEF Status
<1>3. ASSUME UNCHANGED <<alive, created, to_delete>> PROVE Status(h)' = Status(h)
  BY <1>3 DEF Status
<1>4. ASSUME NEW u \in Caller, ~Holds(u), ~Holds(u)',
             \A c \in Caller \ {u} : user'[c] = user[c]
      PROVE  m = n
  BY <1>4 DEF HoldersOf, HoldersNext, Holds, At
<1>5. ASSUME UNCHANGED user PROVE m = n
  BY <1>5 DEF HoldersOf, HoldersNext, Holds, At
<1>6. ASSUME NEW u \in Caller,
             GetOrCreateHandler(u) \/ OpenFails(u) \/ StatByFilename(u) \/ StatMisses(u)
             \/ (FindMisses(u) /\ FindAndPinMiss(u, RequestKey(u)))
      PROVE  UNCHANGED Life(h)!life_vars
  <2>1. m = n
    BY <1>4, <1>6, BetweenHolds
  <2>2. UNCHANGED <<alive, created, to_delete>>
    BY <1>6 DEF GetOrCreateHandler, OpenFails, StatByFilename, StatMisses, FindAndPinMiss,
       cache_vars
  <2> QED BY <1>1, <1>3, <2>1, <2>2
<1>7. ASSUME NEW u \in Caller, FindMisses(u),
             FindAndPinReplace(u, RequestKey(u), user[u].want_gapless)
      PROVE  [Life(h)!Next]_(Life(h)!life_vars)
  <2> DEFINE k == RequestKey(u)
  <2>1. /\ k \in DOMAIN cache /\ cache[k].references = 0
        /\ to_delete'[u] = {cache[k].handler} /\ to_delete[u] = {}
        /\ \A c \in Caller \ {u} : to_delete'[c] = to_delete[c]
        /\ UNCHANGED <<alive, created>>
    BY <1>0, <1>7 DEF FindAndPinReplace, PretendMissing, Idle, HandlersOf, Ready
  <2>2. m = n
    BY <1>4, <1>7, BetweenHolds
  <2>3. CASE cache[k].handler = h
    <3>1. n = 0
      BY <2>1, <2>3 DEF FsInv, RefCountExact
    <3>2. Status(h) = "cached" /\ Status(h)' = "retired"
      BY <1>before, <1>after, <2>1, <2>3
    <3> QED BY <1>0, <2>2, <3>1, <3>2 DEF Life!Next, Life!Retire
  <2>4. CASE cache[k].handler # h
    BY <1>1, <1>2, <2>1, <2>2, <2>4
  <2> QED BY <2>3, <2>4
<1>8. ASSUME NEW u \in Caller, CreateFromDescriptor(u)
      PROVE  [Life(h)!Next]_(Life(h)!life_vars)
  <2>1. PICK x \in Handler : Construct(u, x)
    BY <1>8 DEF CreateFromDescriptor
  <2>2. /\ created[u] = {} /\ created'[u] = {x} /\ x \notin alive
        /\ \A c \in Caller \ {u} : created'[c] = created[c]
        /\ alive' = alive \cup {x} /\ UNCHANGED to_delete
    BY <1>0, <2>1 DEF Construct
  <2>3. m = n
    BY <1>4, <1>8, BetweenHolds
  <2>4. CASE x = h
    <3>1. Status(h) = "none" /\ Status(h)' = "created"
      BY <1>before, <1>after, <2>2, <2>4
    <3> QED BY <1>0, <2>3, <3>1 DEF Life!Next, Life!Create
  <2>5. CASE x # h
    BY <1>1, <1>2, <2>2, <2>3, <2>5
  <2> QED BY <2>4, <2>5
<1>9. ASSUME NEW u \in Caller, FindReopens(u) \/ StatFinds(u)
      PROVE  [Life(h)!Next]_(Life(h)!life_vars)
  <2> DEFINE k == RequestKey(u)
  <2>1. /\ k \in DOMAIN cache /\ ~Holds(u)
        /\ UNCHANGED <<alive, created, to_delete>>
    BY <1>9 DEF FindReopens, StatFinds, FindAndPinHit, Holds, At
  <2>2. PICK pc \in {"open", "stat_open"} :
          user' = [user EXCEPT ![u].pc = pc, ![u].handler = cache[k].handler]
    BY <1>9 DEF FindReopens, StatFinds
  <2>3. CASE cache[k].handler = h
    <3>1. m = n + 1
      BY <2>1, <2>2, <2>3, LeaseHolders
    <3>2. Status(h) = "cached" /\ Status(h)' = "cached"
      BY <1>3, <1>before, <2>1, <2>3
    <3> QED BY <1>0, <3>1, <3>2 DEF Life!Next, Life!Lease
  <2>4. CASE cache[k].handler # h
    <3>1. HoldersNext(h) = HoldersOf(h)
      BY <2>1, <2>2, <2>4, LeaseHolders, Zenon
    <3> QED BY <1>1, <1>3, <2>1, <3>1
  <2> QED BY <2>3, <2>4
<1>10. ASSUME NEW u \in Caller, InsertCreated(u)
       PROVE  [Life(h)!Next]_(Life(h)!life_vars)
  <2> DEFINE k == RequestKey(u)
  <2>1. PICK x \in Handler : InsertPinned(u, k, x)
    BY <1>10 DEF InsertCreated
  <2> DEFINE G == Store(cache, k, Inserted(cache, k, x))
  <2>2. PICK gone \in CleanupChoices(G) :
          cache' = Erase(G, gone) /\ to_delete' = [to_delete EXCEPT ![u] = HandlersOf(G, gone)]
    BY <2>1 DEF InsertPinned
  <2>3. gone \subseteq Idle(G)
    BY <2>2, CleanupErasesIdle
  <2>4. /\ k \in DOMAIN cache' /\ cache'[k] = Inserted(cache, k, x)
        /\ \A y \in DOMAIN G : y # k => y \in DOMAIN cache /\ G[y] = cache[y]
        /\ k \notin gone
    BY <2>1, <2>2, InsertKeepsTheKey DEF Erase, Store, FsInv
  <2>5. ~Holds(u) /\ user' = [user EXCEPT ![u].pc = "open", ![u].handler = cache'[k].handler]
    BY <1>10 DEF InsertCreated, Holds, At
  <2>6. /\ created'[u] = created[u] \ {x} /\ x \in created[u]
        /\ \A c \in Caller \ {u} : created'[c] = created[c]
        /\ alive' = Survivors(k, x) /\ to_delete[u] = {}
        /\ to_delete'[u] = HandlersOf(G, gone)
        /\ \A c \in Caller \ {u} : to_delete'[c] = to_delete[c]
    BY <1>0, <2>1, <2>2 DEF InsertPinned, Ready
  <2> HIDE DEF G
  <2>7. CASE h = x /\ k \in DOMAIN cache
    <3>1. Status(h) = "created" /\ Status(h)' = "none"
      BY <1>before, <1>after, <2>6, <2>7 DEF Survivors
    <3>2. n = 0 /\ m = 0
      BY <1>before, <1>after, <3>1
    <3> QED BY <1>0, <3>1, <3>2 DEF Life!Next, Life!Discard
  <2>8. CASE h = x /\ k \notin DOMAIN cache
    <3>1. cache'[k].handler = h
      BY <2>4, <2>8 DEF Inserted, Pinned
    <3>2. Status(h) = "created" /\ Status(h)' = "cached"
      BY <1>before, <1>after, <2>4, <2>6, <2>8, <3>1
    <3>3. n = 0 /\ m = n + 1
      BY <1>before, <2>5, <3>1, <3>2, LeaseHolders
    <3> QED BY <1>0, <3>2, <3>3 DEF Life!Next, Life!Insert
  <2>9. CASE h # x /\ cache'[k].handler = h
    <3>1. k \in DOMAIN cache /\ cache[k].handler = h
      BY <2>4, <2>9 DEF Inserted, Pinned
    <3>2. Status(h) = "cached" /\ Status(h)' = "cached"
      BY <1>before, <1>after, <2>4, <2>9, <3>1
    <3>3. m = n + 1
      BY <2>5, <2>9, LeaseHolders
    <3> QED BY <1>0, <3>2, <3>3 DEF Life!Next, Life!Lease
  <2>10. CASE h # x /\ cache'[k].handler # h
    <3>1. HoldersNext(h) = HoldersOf(h)
      BY <2>5, <2>10, LeaseHolders, Zenon
    <3>2. CASE \E y \in gone : G[y].handler = h
      <4>1. PICK y \in gone : G[y].handler = h
        BY <3>2
      <4>2. y \in DOMAIN G /\ G[y].references = 0 /\ y # k
        BY <2>3, <2>4, <4>1 DEF Idle
      <4>3. y \in DOMAIN cache /\ cache[y].handler = h /\ n = 0
        BY <2>4, <4>1, <4>2 DEF FsInv, RefCountExact
      <4>4. h \in to_delete'[u]
        BY <2>6, <4>1 DEF HandlersOf
      <4>5. Status(h) = "cached" /\ Status(h)' = "retired"
        BY <1>before, <1>after, <4>3, <4>4
      <4> QED BY <1>0, <3>1, <4>3, <4>5 DEF Life!Next, Life!Retire
    <3>3. CASE ~\E y \in gone : G[y].handler = h
      <4>1. h \notin to_delete'[u]
        BY <2>6, <3>3 DEF HandlersOf
      <4>2. h \in alive' <=> h \in alive
        BY <2>6, <2>10 DEF Survivors
      <4>3. \A c \in Caller : h \in created'[c] <=> h \in created[c]
        BY <2>6, <2>10
      <4>4. \A c \in Caller : h \in to_delete'[c] <=> h \in to_delete[c]
        BY <2>6, <4>1
      <4> QED BY <1>1, <1>2, <3>1, <4>2, <4>3, <4>4
    <3> QED BY <3>2, <3>3
  <2> QED BY <2>7, <2>8, <2>9, <2>10
<1>11. ASSUME NEW u \in Caller, Close(u) \/ StatDone(u)
       PROVE  [Life(h)!Next]_(Life(h)!life_vars)
  <2> DEFINE k == RequestKey(u)
             U == [cache EXCEPT ![k] = Unpinned(@)]
             gone == ErasedByUnpin(U, k)
  <2>1. Holds(u) /\ user' = [user EXCEPT ![u] = Idling]
    BY <1>11 DEF Close, StatDone, Holds
  <2>2. Unpin(u, k)
    BY <1>11, <2>1, HoldersAreServed DEF Close, StatDone
  <2>3. /\ k \in DOMAIN cache /\ cache[k].handler = user[u].handler
        /\ cache[k].references = Cardinality(HoldersOf(user[u].handler))
    BY <2>1, HoldersAreServed DEF FsInv, RefCountExact
  <2>4. /\ UNCHANGED <<alive, created>> /\ to_delete[u] = {}
        /\ to_delete'[u] = HandlersOf(cache, gone)
        /\ \A c \in Caller \ {u} : to_delete'[c] = to_delete[c]
        /\ cache' = Erase(U, gone)
    BY <1>0, <2>2 DEF Unpin, Ready
  <2>5. /\ DOMAIN U = DOMAIN cache
        /\ U[k].handler = cache[k].handler /\ U[k].references = cache[k].references - 1
        /\ gone = {} \/ (gone = {k} /\ U[k].references = 0)
    BY <2>3 DEF Unpinned, ErasedByUnpin, Idle
  <2> HIDE DEF U, gone
  <2>6. CASE user[u].handler = h
    <3>1. n > 0 /\ m = n - 1
      BY <2>1, <2>6, ReturnHolders
    <3>2. Status(h) = "cached"
      BY <1>before, <2>3, <2>6
    <3>3. CASE gone = {}
      <4>1. Status(h)' = "cached"
        BY <1>after, <2>3, <2>4, <2>5, <2>6, <3>3 DEF Erase
      <4> QED BY <1>0, <3>1, <3>2, <4>1 DEF Life!Next, Life!Return
    <3>4. CASE gone = {k} /\ U[k].references = 0
      <4>1. n = 1
        BY <1>0, <2>3, <2>5, <2>6, <3>4
      <4>2. h \in to_delete'[u]
        BY <2>3, <2>4, <2>6, <3>4 DEF HandlersOf
      <4>3. Status(h)' = "retired"
        BY <1>after, <4>2
      <4> QED BY <1>0, <3>1, <3>2, <4>1, <4>3 DEF Life!Next, Life!Return
    <3> QED BY <2>5, <3>3, <3>4
  <2>7. CASE user[u].handler # h
    <3>1. m = n
      BY <2>1, <2>7, ReturnHolders
    <3>2. h \notin to_delete'[u]
      BY <2>3, <2>4, <2>5, <2>7 DEF HandlersOf
    <3> QED BY <1>1, <1>2, <2>4, <3>1, <3>2
  <2> QED BY <2>6, <2>7
<1>12. ASSUME NEW u \in Caller, FinishDelete(u)
       PROVE  [Life(h)!Next]_(Life(h)!life_vars)
  <2>1. PICK x \in Handler : DeleteErased(u, x)
    BY <1>12 DEF FinishDelete
  <2>2. /\ x \in to_delete[u] /\ to_delete'[u] = to_delete[u] \ {x}
        /\ \A c \in Caller \ {u} : to_delete'[c] = to_delete[c]
        /\ alive' = alive \ {x} /\ UNCHANGED created
    BY <1>0, <2>1 DEF DeleteErased
  <2>3. m = n
    BY <1>5, <1>12 DEF FinishDelete
  <2>4. CASE x = h
    <3>1. Status(h) = "retired" /\ Status(h)' = "none"
      BY <1>before, <1>after, <2>2, <2>4
    <3> QED BY <1>0, <2>3, <3>1 DEF Life!Next, Life!Delete
  <2>5. CASE x # h
    BY <1>1, <1>2, <2>2, <2>3, <2>5
  <2> QED BY <2>4, <2>5
<1>13. ASSUME NEW u \in Caller, PassoverProcessor(u)
       PROVE  UNCHANGED Life(h)!life_vars
  BY <1>1, <1>3, <1>5, <1>13 DEF PassoverProcessor
<1>14. CASE SwitchCurrentConfigDir \/ SwitchDone \/ Clock \/ UNCHANGED fs_vars
  BY <1>1, <1>3, <1>5, <1>14
     DEF SwitchCurrentConfigDir, SwitchDone, Clock, Tick, fs_vars, cache_vars
<1> QED BY <1>6, <1>7, <1>8, <1>9, <1>10, <1>11, <1>12, <1>13, <1>14 DEF FsNext, FindMisses

\* No handler is deleted under a user or leased once it is retired, and none is
\* retired while somebody holds it: each handler leads the life its users count
\* on (file-handler-cache.h:37), whatever the others do.
THEOREM FilesystemImplementsHandlerLife ==
  ASSUME KeysDistinct, NEW h \in Handler
  PROVE  FsSafety => Life(h)!Init /\ [][Life(h)!Next]_(Life(h)!life_vars)
<1>1. FsInit => Life(h)!Init
  BY LifeInit
<1>2. FsInv /\ FsInv' /\ [FsNext]_fs_vars => [Life(h)!Next]_(Life(h)!life_vars)
  BY LifeStep
<1> QED BY <1>1, <1>2, FsInvariant, PTL DEF FsSafety
-----------------------------------------------------------------------------
(* The status server: what its list and its pages hold.                    *)

Page == [step : {"none", "GetStats", "retired", "done"}, open : SUBSET Key,
         forgotten : Nat, files : SUBSET Key, retired : Seq(Key), more : Nat]

ServerTypes ==
  /\ retired_ \in Seq(Key) /\ expunged_retired_ \in Nat /\ opened \in Nat
  /\ page \in [Viewer -> Page]

\* What is forgotten is forgotten from a full list.
Full ==
  /\ Len(retired_) <= kMaxRetired
  /\ expunged_retired_ > 0 => Len(retired_) = kMaxRetired

Remembered(k) == \E i \in DOMAIN retired_ : retired_[i] = k

\* What a page in the making still has before it.
PageComplete(v) ==
  /\ page[v].forgotten <= expunged_retired_
  /\ page[v].step = "GetStats" =>
       /\ page[v].more = 0
       /\ \A k \in page[v].open :
            k \in DOMAIN cache \/ Remembered(k) \/ expunged_retired_ > page[v].forgotten
  /\ page[v].step = "retired" =>
       /\ page[v].more = 0
       /\ \A k \in page[v].open :
            \/ k \in page[v].files \/ Remembered(k)
            \/ expunged_retired_ > page[v].forgotten
  /\ page[v].step = "done" =>
       \A k \in page[v].open :
         \/ k \in page[v].files \/ \E i \in DOMAIN page[v].retired : page[v].retired[i] = k
         \/ page[v].more > page[v].forgotten

SInv == ServerTypes /\ Full /\ EveryHandlerAccounted /\ \A v \in Viewer : PageComplete(v)

-----------------------------------------------------------------------------
(* The list.                                                               *)

\* What is put in front of the list is on it, with what was there before.
LEMMA FrontedLemma ==
  ASSUME NEW list \in Seq(Key), NEW gone \in SUBSET Key, IsFiniteSet(gone),
         NEW s \in Orders(gone)
  PROVE  LET front == Fronted(list, s)
         IN  /\ front \in Seq(Key) /\ Len(front) = Cardinality(gone) + Len(list)
             /\ \A k \in gone : \E i \in DOMAIN front : front[i] = k
             /\ \A j \in DOMAIN list : \E i \in DOMAIN front : front[i] = list[j]
<1> DEFINE n == Cardinality(gone)
           reversed == [i \in DOMAIN s |-> s[Len(s) + 1 - i]]
           front == reversed \o list
<1>1. n \in Nat
  BY FS_CardinalityType
<1>2. s \in [1 .. n -> gone] /\ {s[i] : i \in DOMAIN s} = gone
  BY DEF Orders
<1>3. DOMAIN s = 1 .. n /\ Len(s) = n /\ s \in Seq(Key)
  BY <1>1, <1>2
<1>4. reversed \in [1 .. n -> Key] /\ \A i \in 1 .. n : reversed[i] = s[n + 1 - i]
  <2>1. \A i \in 1 .. n : n + 1 - i \in 1 .. n
    BY <1>1
  <2> HIDE DEF n
  <2> QED BY <1>2, <1>3, <2>1
<1>5. reversed \in Seq(Key) /\ Len(reversed) = n
  BY <1>1, <1>4
<1>6. Len(list) \in Nat /\ DOMAIN list = 1 .. Len(list)
  BY LenProperties
<1> HIDE DEF reversed, n
<1>7. /\ front \in Seq(Key) /\ Len(front) = n + Len(list)
      /\ \A i \in 1 .. n + Len(list) :
           front[i] = IF i <= n THEN reversed[i] ELSE list[i - n]
  BY <1>5, ConcatProperties
<1> HIDE DEF front
<1>8. DOMAIN front = 1 .. n + Len(list)
  BY <1>7, LenProperties
<1>9. ASSUME NEW k \in gone PROVE \E i \in DOMAIN front : front[i] = k
  <2>1. PICK j \in 1 .. n : s[j] = k
    BY <1>2, <1>3
  <2>2. n + 1 - j \in 1 .. n /\ n + 1 - (n + 1 - j) = j
    BY <1>1, <2>1
  <2>3. reversed[n + 1 - j] = k
    BY <1>4, <2>1, <2>2
  <2>4. n + 1 - j \in 1 .. n + Len(list) /\ n + 1 - j <= n
    BY <1>1, <1>6, <2>2
  <2> QED BY <1>7, <1>8, <2>3, <2>4
<1>10. ASSUME NEW j \in DOMAIN list PROVE \E i \in DOMAIN front : front[i] = list[j]
  <2>1. PICK i : i = n + j
    OBVIOUS
  <2>2. i \in 1 .. n + Len(list) /\ ~(i <= n) /\ i - n = j
    BY <1>1, <1>6, <1>10, <2>1
  <2>3. front[i] = list[j]
    BY <1>7, <2>2
  <2> QED BY <1>8, <2>2, <2>3
<1> QED BY <1>7, <1>9, <1>10 DEF Fronted, front, reversed, n

\* The list is cut after kMaxRetired: nothing is lost, or it is counted.
LEMMA RetireLemma ==
  ASSUME SInv, NEW gone \in SUBSET Key, IsFiniteSet(gone), RetireHandlerEvents(gone)
  PROVE  /\ retired_' \in Seq(Key) /\ expunged_retired_' \in Nat
         /\ Full'
         /\ expunged_retired_ <= expunged_retired_'
         /\ Len(retired_') + expunged_retired_'
              = Len(retired_) + expunged_retired_ + Cardinality(gone)
         /\ \/ expunged_retired_' > expunged_retired_
            \/ /\ \A k \in gone : Remembered(k)'
               /\ \A k \in Key : Remembered(k) => Remembered(k)'
<1>1. PICK s \in Orders(gone) :
        LET list == Fronted(retired_, s)
        IN  /\ retired_' = SubSeq(list, 1, Len(list) - Excess(list))
            /\ expunged_retired_' = expunged_retired_ + Expunged(list)
  BY DEF RetireHandlerEvents
<1> DEFINE list == Fronted(retired_, s)
           n    == Cardinality(gone)
<1>2. /\ retired_ \in Seq(Key) /\ expunged_retired_ \in Nat /\ n \in Nat
      /\ Len(retired_) \in Nat /\ kMaxRetired \in Nat \ {0}
      /\ Len(retired_) <= kMaxRetired
      /\ expunged_retired_ > 0 => Len(retired_) = kMaxRetired
  BY FS_CardinalityType, StatusAssumption, LenProperties DEF SInv, ServerTypes, Full
<1>3. /\ list \in Seq(Key) /\ Len(list) = n + Len(retired_)
      /\ \A k \in gone : \E i \in DOMAIN list : list[i] = k
      /\ \A j \in DOMAIN retired_ : \E i \in DOMAIN list : list[i] = retired_[j]
  BY <1>2, FrontedLemma
<1>4. /\ retired_' = SubSeq(list, 1, Len(list) - Excess(list))
      /\ expunged_retired_' = expunged_retired_ + Excess(list)
  BY <1>1 DEF Expunged
<1>5. \A i \in 1 .. Len(list) : list[i] \in Key
  BY <1>3, ElementOfSeq
<1> HIDE DEF list, n
<1>6. CASE Len(list) <= kMaxRetired
  <2>1. Excess(list) = 0
    BY <1>2, <1>3, <1>6 DEF Excess
  <2>2. Len(list) - 0 = Len(list) /\ Len(list) \in Nat
    BY <1>2, <1>3
  <2>3. retired_' = SubSeq(list, 1, Len(list))
    BY <1>4, <2>1, <2>2
  <2>4. /\ retired_' \in Seq(Key) /\ Len(retired_') = Len(list)
        /\ \A i \in 1 .. Len(list) : retired_'[i] = list[i]
    BY <1>3, <1>5, <2>2, <2>3, SubSeqProperties
  <2>5. DOMAIN retired_' = DOMAIN list /\ DOMAIN list = 1 .. Len(list)
    BY <1>3, <2>4, LenProperties
  <2>6. \A i \in DOMAIN list : i \in DOMAIN retired_' /\ retired_'[i] = list[i]
    BY <2>4, <2>5
  <2>7. \A k \in gone : Remembered(k)'
    BY <1>3, <2>6 DEF Remembered
  <2>8. \A k \in Key : Remembered(k) => Remembered(k)'
    BY <1>3, <2>6 DEF Remembered
  <2>9. expunged_retired_' = expunged_retired_
    BY <1>2, <1>4, <2>1
  <2>10. Full' /\ Len(retired_') + expunged_retired_'
                    = Len(retired_) + expunged_retired_ + n
    BY <1>2, <1>3, <1>6, <2>4, <2>9 DEF Full
  <2> QED BY <1>2, <2>4, <2>7, <2>8, <2>9, <2>10 DEF n
<1>7. CASE Len(list) > kMaxRetired
  <2>1. Excess(list) = Len(list) - kMaxRetired
    BY <1>7 DEF Excess
  <2>2. /\ Len(list) - Excess(list) = kMaxRetired
        /\ Excess(list) \in Nat /\ Excess(list) > 0
    BY <1>2, <1>3, <1>7, <2>1
  <2>3. retired_' = SubSeq(list, 1, kMaxRetired)
    BY <1>4, <2>2
  <2>4. \A i \in 1 .. kMaxRetired : i \in 1 .. Len(list)
    BY <1>2, <1>3, <1>7
  <2>5. retired_' \in Seq(Key) /\ Len(retired_') = kMaxRetired
    BY <1>2, <1>5, <2>3, <2>4, SubSeqProperties
  <2>6. expunged_retired_' \in Nat /\ expunged_retired_' > expunged_retired_
    BY <1>2, <1>4, <2>2
  <2>7. Full' /\ Len(retired_') + expunged_retired_'
                   = Len(retired_) + expunged_retired_ + n
    BY <1>2, <1>3, <1>4, <2>1, <2>2, <2>5 DEF Full
  <2> QED BY <1>2, <2>5, <2>6, <2>7 DEF n
<1> QED BY <1>2, <1>3, <1>6, <1>7

-----------------------------------------------------------------------------
(* The invariant.                                                          *)

\* What the cache had and does not have any more is finite, and what is new in
\* it is counted.
LEMMA GoneLemma ==
  ASSUME IInv, IInv'
  PROVE  LET gone == DOMAIN cache \ DOMAIN cache'
             come == DOMAIN cache' \ DOMAIN cache
         IN  /\ gone \in SUBSET Key /\ IsFiniteSet(gone)
             /\ Cardinality(gone) \in Nat /\ Cardinality(come) \in Nat
             /\ Cardinality(DOMAIN cache) \in Nat /\ Cardinality(DOMAIN cache') \in Nat
             /\ Cardinality(DOMAIN cache') + Cardinality(gone)
                  = Cardinality(DOMAIN cache) + Cardinality(come)
<1> DEFINE A == DOMAIN cache
           B == DOMAIN cache'
<1>1. IsFiniteSet(A) /\ IsFiniteSet(B) /\ A \subseteq Key
  BY DEF IInv, CacheTypeOK
<1> HIDE DEF A, B
<1>2. IsFiniteSet(A \ B) /\ IsFiniteSet(B \ A) /\ IsFiniteSet(A \cap B)
  BY <1>1, FS_Subset
<1>3. /\ Cardinality(A) \in Nat /\ Cardinality(B) \in Nat
      /\ Cardinality(A \ B) \in Nat /\ Cardinality(B \ A) \in Nat
      /\ Cardinality(A \cap B) \in Nat
  BY <1>1, <1>2, FS_CardinalityType
<1>4. Cardinality(A \ B) = Cardinality(A) - Cardinality(A \cap B)
  BY <1>1, FS_Difference
<1>5. Cardinality(B \ A) = Cardinality(B) - Cardinality(B \cap A)
  BY <1>1, FS_Difference
<1>6. B \cap A = A \cap B
  OBVIOUS
<1>7. Cardinality(B) + Cardinality(A \ B) = Cardinality(A) + Cardinality(B \ A)
  BY <1>3, <1>4, <1>5, <1>6
<1> QED BY <1>1, <1>2, <1>3, <1>7 DEF A, B

\* What is gone from the one is in the others.
LEMMA Sum ==
  ASSUME NEW a \in Nat, NEW b \in Nat, NEW g \in Nat, NEW n \in Nat,
         NEW l \in Nat, NEW m \in Nat, NEW e \in Nat, NEW f \in Nat,
         b + g = a + n, m + f = l + e + g
  PROVE  (a + l + e) + n = b + m + f
OBVIOUS

LEMMA CacheStepKeeps ==
  ASSUME IInv, IInv', SInv, CacheStep
  PROVE  SInv'
<1> DEFINE gone == DOMAIN cache \ DOMAIN cache'
           come == DOMAIN cache' \ DOMAIN cache
<1>1. /\ gone \in SUBSET Key /\ IsFiniteSet(gone)
      /\ Cardinality(gone) \in Nat /\ Cardinality(come) \in Nat
      /\ Cardinality(DOMAIN cache) \in Nat /\ Cardinality(DOMAIN cache') \in Nat
      /\ Cardinality(DOMAIN cache') + Cardinality(gone)
           = Cardinality(DOMAIN cache) + Cardinality(come)
  BY GoneLemma
<1>2. RetireHandlerEvents(gone) /\ opened' = opened + Cardinality(come) /\ page' = page
  BY DEF CacheStep
<1>3. /\ retired_ \in Seq(Key) /\ expunged_retired_ \in Nat /\ opened \in Nat
      /\ page \in [Viewer -> Page] /\ Len(retired_) \in Nat
      /\ opened = Cardinality(DOMAIN cache) + Len(retired_) + expunged_retired_
  BY LenProperties DEF SInv, ServerTypes, EveryHandlerAccounted
<1>4. /\ retired_' \in Seq(Key) /\ expunged_retired_' \in Nat
      /\ Full'
      /\ expunged_retired_ <= expunged_retired_'
      /\ Len(retired_') + expunged_retired_'
           = Len(retired_) + expunged_retired_ + Cardinality(gone)
      /\ \/ expunged_retired_' > expunged_retired_
         \/ /\ \A k \in gone : Remembered(k)'
            /\ \A k \in Key : Remembered(k) => Remembered(k)'
  BY <1>1, <1>2, RetireLemma
<1>a. PICK a, b, g, n : /\ a = Cardinality(DOMAIN cache) /\ b = Cardinality(DOMAIN cache')
                        /\ g = Cardinality(gone) /\ n = Cardinality(come)
  OBVIOUS
<1>b. a \in Nat /\ b \in Nat /\ g \in Nat /\ n \in Nat /\ b + g = a + n /\ opened' = opened + n
  BY <1>1, <1>2, <1>a
<1>5. ServerTypes'
  <2>1. opened' \in Nat
    BY <1>3, <1>b
  <2> QED BY <1>2, <1>3, <1>4, <2>1 DEF ServerTypes
<1>6. EveryHandlerAccounted'
  <2>1. Len(retired_') \in Nat
    BY <1>4, LenProperties
  <2>2. /\ opened = a + Len(retired_) + expunged_retired_
        /\ Len(retired_') + expunged_retired_' = Len(retired_) + expunged_retired_ + g
    BY <1>3, <1>4, <1>a
  <2>3. opened' = b + Len(retired_') + expunged_retired_'
    <3>1. PICK l, m, e, f : /\ l = Len(retired_) /\ m = Len(retired_')
                            /\ e = expunged_retired_ /\ f = expunged_retired_'
      OBVIOUS
    <3>2. l \in Nat /\ m \in Nat /\ e \in Nat /\ f \in Nat
      BY <1>3, <1>4, <2>1, <3>1
    <3>3. opened' = (a + l + e) + n /\ m + f = l + e + g
      BY <1>b, <2>2, <3>1
    <3>4. opened' = b + m + f
      BY ONLY <1>b, <3>2, <3>3, Sum
    <3> QED BY <3>1, <3>4
  <2> QED BY <1>4, <1>a, <2>3 DEF EveryHandlerAccounted, Full
<1>7. ASSUME NEW v \in Viewer PROVE PageComplete(v)'
  <2>1. page'[v] = page[v] /\ page[v].forgotten \in Nat /\ page[v].open \subseteq Key
    BY <1>2, <1>3 DEF Page
  <2>2. PageComplete(v)
    BY DEF SInv
  <2>3. page[v].forgotten <= expunged_retired_
    BY <2>2 DEF PageComplete
  <2>4. page[v].forgotten <= expunged_retired_'
    BY <1>3, <1>4, <2>1, <2>3
  <2>5. CASE expunged_retired_' > expunged_retired_
    <3>1. expunged_retired_' > page[v].forgotten
      BY <1>3, <1>4, <2>1, <2>3, <2>5
    <3> QED BY <2>1, <2>2, <2>4, <3>1 DEF PageComplete
  <2>6. CASE ~(expunged_retired_' > expunged_retired_)
    <3>1. expunged_retired_' = expunged_retired_
      BY <1>3, <1>4, <2>6
    <3>2. \A k \in Key : Remembered(k) => Remembered(k)'
      BY <1>4, <2>6
    <3>3. \A k \in DOMAIN cache : k \in DOMAIN cache' \/ Remembered(k)'
      BY <1>4, <2>6
    <3> QED BY <2>1, <2>2, <2>4, <3>1, <3>2, <3>3 DEF PageComplete
  <2> QED BY <2>5, <2>6
<1> QED BY <1>4, <1>5, <1>6, <1>7 DEF SInv

LEMMA CreatePageKeeps ==
  ASSUME IInv, SInv, NEW v \in Viewer, CreatePage(v)
  PROVE  SInv'
<1>1. UNCHANGED <<cache_vars, retired_, expunged_retired_, opened>>
  BY DEF CreatePage, Begin, GetStats, SkipRetired, ListRetired
<1>2. /\ cache' = cache /\ retired_' = retired_ /\ opened' = opened
      /\ expunged_retired_' = expunged_retired_
  BY <1>1 DEF cache_vars
<1>3. Full' /\ EveryHandlerAccounted'
  BY <1>2 DEF SInv, Full, EveryHandlerAccounted
<1>4. /\ retired_ \in Seq(Key) /\ expunged_retired_ \in Nat /\ DOMAIN cache \subseteq Key
      /\ page \in [Viewer -> Page] /\ page[v] \in Page
      /\ \A u \in Viewer : PageComplete(u)
  BY DEF IInv, CacheTypeOK, SInv, ServerTypes
<1>5. ASSUME NEW p \in Page, page' = [page EXCEPT ![v] = p],
             p.forgotten <= expunged_retired_,
             p.step = "GetStats" =>
               /\ p.more = 0
               /\ \A k \in p.open : \/ k \in DOMAIN cache \/ Remembered(k)
                                    \/ expunged_retired_ > p.forgotten,
             p.step = "retired" =>
               /\ p.more = 0
               /\ \A k \in p.open : \/ k \in p.files \/ Remembered(k)
                                    \/ expunged_retired_ > p.forgotten,
             p.step = "done" =>
               \A k \in p.open :
                 \/ k \in p.files \/ \E i \in DOMAIN p.retired : p.retired[i] = k
                 \/ p.more > p.forgotten
      PROVE  SInv'
  <2>1. page'[v] = p /\ \A u \in Viewer \ {v} : page'[u] = page[u]
    BY <1>4, <1>5
  <2>2. page' \in [Viewer -> Page]
    BY <1>4, <1>5
  <2>3. PageComplete(v)'
    BY <1>2, <1>5, <2>1 DEF PageComplete, Remembered
  <2>4. \A u \in Viewer \ {v} : PageComplete(u)'
    BY <1>2, <1>4, <2>1 DEF PageComplete, Remembered
  <2>5. ServerTypes'
    BY <1>2, <2>2 DEF SInv, ServerTypes
  <2> QED BY <1>3, <2>3, <2>4, <2>5 DEF SInv
<1>6. CASE Begin(v)
  <2> DEFINE p == [NoPage EXCEPT !.step = "GetStats", !.open = DOMAIN cache,
                                 !.forgotten = expunged_retired_]
  <2>1. page' = [page EXCEPT ![v] = p]
    BY <1>6 DEF Begin, After
  <2>2. <<>> \in Seq(Key)
    BY EmptySeq
  <2>3. /\ p \in Page /\ p.step = "GetStats" /\ p.open = DOMAIN cache
        /\ p.forgotten = expunged_retired_ /\ p.more = 0
    BY <1>4, <2>2 DEF NoPage, Page
  <2>4. p.forgotten <= expunged_retired_
    BY <1>4, <2>3
  <2> HIDE DEF p
  <2> QED BY <1>5, <2>1, <2>3, <2>4
<1>7. CASE GetStats(v)
  <2> DEFINE p == [page[v] EXCEPT !.step = "retired", !.files = DOMAIN cache]
  <2>1. page[v].step = "GetStats" /\ page' = [page EXCEPT ![v] = p]
    BY <1>7 DEF GetStats, After
  <2>2. /\ p \in Page /\ p.step = "retired" /\ p.files = DOMAIN cache
        /\ p.open = page[v].open /\ p.forgotten = page[v].forgotten
        /\ p.more = page[v].more
    BY <1>4 DEF Page
  <2> HIDE DEF p
  <2>3. PageComplete(v)
    BY <1>4
  <2> QED BY <1>5, <2>1, <2>2, <2>3 DEF PageComplete
<1>8. CASE SkipRetired(v) \/ ListRetired(v)
  <2>1. page[v].step = "retired" /\ PageComplete(v)
    BY <1>4, <1>8 DEF SkipRetired, ListRetired
  <2>2. /\ page[v].more = 0 /\ page[v].forgotten <= expunged_retired_
        /\ page[v].forgotten \in Nat
        /\ \A k \in page[v].open : \/ k \in page[v].files \/ Remembered(k)
                                   \/ expunged_retired_ > page[v].forgotten
    BY <1>4, <2>1 DEF PageComplete, Page
  <2>3. CASE SkipRetired(v)
    <3> DEFINE p == [page[v] EXCEPT !.step = "done"]
    <3>1. retired_ = <<>> /\ page' = [page EXCEPT ![v] = p]
      BY <2>3 DEF SkipRetired, After
    <3>2. p \in Page /\ p.step = "done" /\ p.files = page[v].files
          /\ p.open = page[v].open /\ p.forgotten = page[v].forgotten
      BY <1>4 DEF Page
    <3>3. expunged_retired_ = 0
      <4>1. Len(retired_) # kMaxRetired
        BY <3>1, StatusAssumption, EmptySeq
      <4> QED BY <1>4, <4>1 DEF SInv, Full
    <3>4. \A k \in page[v].open : ~Remembered(k)
      BY <3>1 DEF Remembered
    <3>5. ~(expunged_retired_ > page[v].forgotten)
      BY <2>2, <3>3
    <3> HIDE DEF p
    <3> QED BY <1>5, <2>2, <3>1, <3>2, <3>4, <3>5
  <2>4. CASE ListRetired(v)
    <3> DEFINE p == [page[v] EXCEPT !.step = "done", !.retired = retired_,
                                    !.more = expunged_retired_]
    <3>1. page' = [page EXCEPT ![v] = p]
      BY <2>4 DEF ListRetired, After
    <3>2. /\ p \in Page /\ p.step = "done" /\ p.files = page[v].files
          /\ p.open = page[v].open /\ p.forgotten = page[v].forgotten
          /\ p.retired = retired_ /\ p.more = expunged_retired_
      BY <1>4 DEF Page
    <3> HIDE DEF p
    <3> QED BY <1>5, <2>2, <3>1, <3>2 DEF Remembered
  <2> QED BY <1>8, <2>3, <2>4
<1> QED BY <1>6, <1>7, <1>8 DEF CreatePage

LEMMA ServerInit == Init => SInv
<1> SUFFICES ASSUME Init PROVE SInv
  OBVIOUS
<1>1. <<>> \in Seq(Key) /\ Len(<<>>) = 0
  BY EmptySeq
<1>2. ServerTypes
  BY <1>1 DEF Init, ServerTypes, Page, NoPage
<1>3. Full
  BY <1>1, StatusAssumption DEF Init, Full
<1>4. DOMAIN cache = {} /\ Cardinality({}) = 0
  BY FS_EmptySet DEF Init, CacheInit
<1>5. EveryHandlerAccounted
  BY <1>1, <1>4, StatusAssumption DEF Init, EveryHandlerAccounted
<1>6. \A v \in Viewer : PageComplete(v)
  BY DEF Init, NoPage, PageComplete
<1> QED BY <1>2, <1>3, <1>5, <1>6 DEF SInv

LEMMA ServerStep == IInv /\ IInv' /\ SInv /\ [Next]_vars => SInv'
<1> SUFFICES ASSUME IInv, IInv', SInv, [Next]_vars PROVE SInv'
  OBVIOUS
<1>1. CASE UNCHANGED vars
  BY <1>1 DEF vars, cache_vars, SInv, ServerTypes, Full, EveryHandlerAccounted, PageComplete,
     Remembered
<1> QED BY <1>1, CacheStepKeeps, CreatePageKeeps DEF Next

\* The observer and the page see the cache and leave it alone: with them it is
\* the cache of FileHandlerCache, and guarantees the same.
THEOREM ImplementsCache == Spec => CacheSpec
<1>1. Init => CacheInit
  BY DEF Init
<1>2. [Next]_vars => [CacheNext]_cache_vars
  BY DEF Next, vars, CacheStep, CreatePage, Begin, GetStats, SkipRetired, ListRetired
<1> QED BY <1>1, <1>2, PTL DEF Spec, CacheSpec

LEMMA ServerInvariant == Spec => []SInv
<1>1. Spec => []IInv
  BY ImplementsCache, CacheInvariant, PTL
<1> QED BY <1>1, ServerInit, ServerStep, PTL DEF Spec

\* A page lists every file that was open when it was begun, or says that more
\* were forgotten than it says when it was begun.
THEOREM PagesMissNoHandler == Spec => []PageMissesNoHandler
<1>1. SInv => PageMissesNoHandler
  BY DEF SInv, PageComplete, PageMissesNoHandler
<1> QED BY <1>1, ServerInvariant, PTL

\* Every handler there ever was is in the cache, on the list or in the count.
THEOREM HandlersAreAccounted == Spec => []EveryHandlerAccounted
<1>1. SInv => EveryHandlerAccounted
  BY DEF SInv
<1> QED BY <1>1, ServerInvariant, PTL
=============================================================================
