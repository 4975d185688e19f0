--------------------------- MODULE FolveFilesystem ---------------------------
(***************************************************************************)
(* The filesystem's use of the handler cache: folve-filesystem.cc, and the *)
(* FUSE callbacks of folve-main.cc that call it.                           *)
(*                                                                         *)
(* A user is one open file: a FUSE open() with its release(), a getattr()  *)
(* by name, or the opening of the next file that gapless playback does     *)
(* while it converts the end of a file. Between two calls into the cache   *)
(* the code holds no lock, so every call is a step of its own.             *)
(*                                                                         *)
(* A directory name is a sequence of path elements. CacheKey glues two     *)
(* strings together: "a" and "/b/c" give "a/b/c", the elements a, b, c; no *)
(* filter, the empty string, is the sequence with one empty element, since *)
(* "" and "/b/c" give "/b/c".                                              *)
(***************************************************************************)
EXTENDS FileHandlerCache, Sequences

CONSTANTS
  Filter,               \* filter directories that can be selected
  TornFilter,           \* what a racing read of the selected filter may yield
  Path,                 \* filesystem paths of files
  ToplevelDirIsFilter,  \* toplevel_dir_is_filter_: the option -t
  NoFilter,             \* no switch of the filter under way
  NoHandler             \* NULL

PassThrough == <<"">>

ASSUME FilesystemAssumption ==
  /\ PassThrough \in Filter
  /\ NoHandler \notin Handler
  /\ NoFilter \notin Filter
  /\ ToplevelDirIsFilter \in BOOLEAN
  /\ Filter \cup TornFilter \cup Path \subseteq Seq(STRING)
  /\ \A f \in Filter \cup TornFilter, p \in Path : f \o p \in Key

VARIABLES
  current_config_subdir,  \* the filter selected in the user interface
  switching,              \* the filter being assigned to it
  user,                   \* what each user's thread is doing
  file_info               \* filter and file name a handler was made for

fs_vars == <<cache_vars, current_config_subdir, switching, user, file_info>>

Config == Filter \cup TornFilter
\* Mutant: the filter is not part of the key.
CacheKeyOfFile(config_path, fs_path) == PassThrough \o fs_path
CacheKey(config_path, fs_path) == config_path \o fs_path

FsTypeOK ==
  /\ CacheTypeOK
  /\ current_config_subdir \in Config
  /\ switching \in Filter \cup {NoFilter}
  /\ \A u \in Caller :
       /\ user[u].pc \in {"idle", "find", "create", "insert", "open",
                          "stat", "stat_open"}
       /\ user[u].handler \in Handler \cup {NoHandler}
       /\ user[u].pc # "idle" =>
            user[u].path \in Path /\ user[u].config \in Config
  /\ DOMAIN file_info = alive

Idling == [pc |-> "idle", path |-> <<>>, config |-> PassThrough,
           want_gapless |-> FALSE, handler |-> NoHandler]

FsInit ==
  /\ CacheInit
  /\ current_config_subdir \in Filter        \* SetupInitialConfig
  /\ switching = NoFilter
  /\ user = [u \in Caller |-> Idling]
  /\ file_info = [h \in {} |-> Idling]

At(u, pc) == user[u].pc = pc
Goto(u, pc) == user' = [user EXCEPT ![u].pc = pc]
RequestKey(u) == CacheKey(user[u].config, user[u].path)
KeepInfo == file_info' = [h \in alive' |-> file_info[h]]
SettingsUnchanged == UNCHANGED <<current_config_subdir, switching>>

-----------------------------------------------------------------------------
(* GetOrCreateHandler, for folve_open and for gapless playback.            *)

\* The filters a request for a path may be for: the selected one or, with -t,
\* the one the path starts with, if there is one. "_" stands for none.
ExtractFilterName(fs_path) ==
  IF ToplevelDirIsFilter
  THEN IF Len(fs_path) < 2
       THEN {}
       ELSE Filter \cap {IF fs_path[1] = "_" THEN PassThrough ELSE <<fs_path[1]>>}
  ELSE {current_config_subdir}

GetOrCreateHandler(u) ==
  /\ At(u, "idle") /\ Ready(u)
  /\ \E p \in Path, g \in BOOLEAN : \E config \in ExtractFilterName(p) :
       user' = [user EXCEPT ![u] = [pc |-> "find", path |-> p, config |-> config,
                                    want_gapless |-> g, handler |-> NoHandler]]
  /\ UNCHANGED <<cache_vars, file_info>> /\ SettingsUnchanged

FindReopens(u) ==
  /\ At(u, "find")
  /\ FindAndPinHit(u, RequestKey(u), user[u].want_gapless)
  /\ user' = [user EXCEPT ![u].pc = "open",
                          ![u].handler = cache[RequestKey(u)].handler]
  /\ KeepInfo /\ SettingsUnchanged

FindMisses(u) ==
  /\ At(u, "find")
  /\ \/ FindAndPinMiss(u, RequestKey(u))
     \/ FindAndPinReplace(u, RequestKey(u), user[u].want_gapless)
  /\ Goto(u, "create")
  /\ KeepInfo /\ SettingsUnchanged

\* open() of the underlying file fails.
OpenFails(u) ==
  /\ At(u, "create") /\ Ready(u)
  /\ user' = [user EXCEPT ![u] = Idling]
  /\ UNCHANGED <<cache_vars, file_info>> /\ SettingsUnchanged

CreateFromDescriptor(u) ==
  /\ At(u, "create")
  /\ \E h \in Handler :
       /\ Construct(u, h)
       /\ file_info' = [x \in alive' |->
                          IF x = h THEN [filter_dir |-> user[u].config,
                                         filename |-> user[u].path]
                                   ELSE file_info[x]]
  /\ Goto(u, "insert")
  /\ SettingsUnchanged

InsertCreated(u) ==
  /\ At(u, "insert")
  /\ \E h \in Handler : InsertPinned(u, RequestKey(u), h)
  /\ user' = [user EXCEPT ![u].pc = "open",
                          ![u].handler = cache'[RequestKey(u)].handler]
  /\ KeepInfo /\ SettingsUnchanged

\* The previous file passes its processor on to the file it has just opened,
\* which may decline.
PassoverProcessor(u) ==
  /\ At(u, "open") /\ Ready(u)
  /\ user[u].want_gapless
  /\ in_gapless' = in_gapless \cup {user[u].handler}
  /\ UNCHANGED <<cache, alive, created, to_delete, now>>
  /\ UNCHANGED <<user, file_info>> /\ SettingsUnchanged

\* Mutant: the handler is given back under the filter selected now.
CloseKeySelectedNow(u) == CacheKey(current_config_subdir, user[u].path)
CloseKey(u) ==
  CacheKey(file_info[user[u].handler].filter_dir, user[u].path)

\* Mutant: the handle stays valid after it was closed.
CloseAgain(u) ==
  /\ At(u, "open")
  /\ Unpin(u, CloseKey(u))
  /\ UNCHANGED user
  /\ KeepInfo /\ SettingsUnchanged
Close(u) ==
  /\ At(u, "open")
  /\ Unpin(u, CloseKey(u))
  /\ user' = [user EXCEPT ![u] = Idling]
  /\ KeepInfo /\ SettingsUnchanged

-----------------------------------------------------------------------------
(* StatByFilename: what folve_getattr asks first.                          *)

StatKeyConfig(fs_path) == current_config_subdir

StatByFilename(u) ==
  /\ At(u, "idle") /\ Ready(u)
  /\ \E p \in Path :
       user' = [user EXCEPT ![u] = [Idling EXCEPT !.pc = "stat", !.path = p,
                                                  !.config = StatKeyConfig(p)]]
  /\ UNCHANGED <<cache_vars, file_info>> /\ SettingsUnchanged

StatFinds(u) ==
  /\ At(u, "stat")
  /\ FindAndPinHit(u, RequestKey(u), FALSE)
  /\ user' = [user EXCEPT ![u].pc = "stat_open",
                          ![u].handler = cache[RequestKey(u)].handler]
  /\ KeepInfo /\ SettingsUnchanged

StatMisses(u) ==
  /\ At(u, "stat")
  /\ FindAndPinMiss(u, RequestKey(u))
  /\ user' = [user EXCEPT ![u] = Idling]
  /\ KeepInfo /\ SettingsUnchanged

StatDone(u) ==
  /\ At(u, "stat_open")
  /\ Unpin(u, RequestKey(u))
  /\ user' = [user EXCEPT ![u] = Idling]
  /\ KeepInfo /\ SettingsUnchanged

FinishDelete(u) ==
  /\ \E h \in Handler : DeleteErased(u, h)
  /\ KeepInfo
  /\ UNCHANGED user /\ SettingsUnchanged

-----------------------------------------------------------------------------
(* SwitchCurrentConfigDir, called by the HTTP thread. The assignment of the *)
(* string is not synchronised with the threads that copy it: while it lasts *)
(* they may see something that is neither the old nor the new filter.      *)

SwitchCurrentConfigDir ==
  /\ switching = NoFilter
  /\ switching' \in Filter \ {current_config_subdir}
  /\ current_config_subdir' \in TornFilter \cup {switching'}
  /\ UNCHANGED <<cache_vars, user, file_info>>

SwitchDone ==
  /\ switching # NoFilter
  /\ current_config_subdir' = switching
  /\ switching' = NoFilter
  /\ UNCHANGED <<cache_vars, user, file_info>>

Clock ==
  /\ Tick
  /\ UNCHANGED <<user, file_info>> /\ SettingsUnchanged

FsNext ==
  \/ \E u \in Caller :
       \/ GetOrCreateHandler(u) \/ FindReopens(u) \/ FindMisses(u)
       \/ OpenFails(u) \/ CreateFromDescriptor(u) \/ InsertCreated(u)
       \/ PassoverProcessor(u) \/ Close(u)
       \/ StatByFilename(u) \/ StatFinds(u) \/ StatMisses(u) \/ StatDone(u)
       \/ FinishDelete(u)
  \/ SwitchCurrentConfigDir \/ SwitchDone
  \/ Clock

FsSafety == FsInit /\ [][FsNext]_fs_vars

\* A thread in the middle of a call keeps running: nothing in InsertPinned can
\* make it wait, and the destructors are assumed to return (see BufferThread
\* for the one that waits).
FsSpec ==
  /\ FsSafety
  /\ \A u \in Caller : WF_fs_vars(InsertCreated(u)) /\ WF_fs_vars(FinishDelete(u))

-----------------------------------------------------------------------------
(* Properties.                                                             *)

Holds(u) == At(u, "open") \/ At(u, "stat_open")
HoldersOf(h) == {u \in Caller : Holds(u) /\ user[u].handler = h}
HeldKey(u) == IF At(u, "open") THEN CloseKey(u) ELSE RequestKey(u)

\* The reference count of an entry is the number of users of its handler: each
\* open, reopen and stat counts once and is given back once, whichever filter
\* was selected in between (file-handler-cache.h:61, "you have to Unpin() after
\* use").
RefCountExact ==
  \A k \in DOMAIN cache :
    cache[k].references = Cardinality(HoldersOf(cache[k].handler))

\* Whoever holds a handler can give it back: the key that Close and
\* StatByFilename compute, which is not the key it was found under, names a
\* present entry, with that very handler (assert, file-handler-cache.cc:106).
UnpinFindsEntry ==
  \A u \in Caller : Holds(u) =>
    /\ user[u].handler \in alive
    /\ HeldKey(u) \in DOMAIN cache
    /\ cache[HeldKey(u)].handler = user[u].handler

\* "Files opened after such change will have the new filter applied"
\* (README.md): the handler an open or stat ends up with, cached or new, was
\* made for the file asked for and for the filter in force when it was asked.
HandlerServesRequest ==
  \A u \in Caller : Holds(u) =>
    file_info[user[u].handler] = [filter_dir |-> user[u].config,
                                  filename |-> user[u].path]

\* "We sometimes get multiple open()/close() request for the same file"
\* (file-handler-cache.h:33): however two opens of a file race, whoever
\* has it open under one filter shares one handler, and so one conversion.
OneConversionPerOpenFile ==
  \A u, v \in Caller :
    /\ Holds(u) /\ Holds(v)
    /\ user[u].path = user[v].path /\ user[u].config = user[v].config
    => user[u].handler = user[v].handler

\* Each handler leads the life HandlerLife describes, where holding a handler
\* is what the user does, not what the entry counts.
Status(h) ==
  IF h \notin alive THEN "none"
  ELSE IF \E u \in Caller : h \in created[u] THEN "created"
  ELSE IF \E u \in Caller : h \in to_delete[u] THEN "retired"
  ELSE "cached"
=============================================================================
