-------------------------- MODULE MCFolveFilesystem --------------------------
(* Instances of FolveFilesystem for TLC. *)
EXTENDS FolveFilesystem, TLC

CONSTANTS u1, u2, u3, h1, h2, h3, h4

TwoUsers == {u1, u2}
ThreeUsers == {u1, u2, u3}
ThreeHandlers == {h1, h2, h3}
FourHandlers == {h1, h2, h3, h4}

\* Handlers and users are interchangeable in every safety property.
Symmetry4 == Permutations(FourHandlers) \cup Permutations(Caller)

KeysOf(filters, files) == {f \o p : f \in filters, p \in files}

\* Filter switching: a filter and pass-through, one file.
FlatFilters == {PassThrough, <<"lowpass">>}
Torn == {<<"garbled">>}
OneFile == {<<"1.flac">>}
FlatKeys == KeysOf(FlatFilters \cup Torn, OneFile)

\* Filtered directories (-t): the first path element names the filter.
ToplevelFiles == {<<"_", "1.flac">>, <<"lowpass", "1.flac">>, <<"1.flac">>,
                  <<"unknown", "1.flac">>}
ToplevelKeys == KeysOf(FlatFilters \cup Torn, ToplevelFiles)

\* Handlers are interchangeable: what holds of the life of one, holds of all.
Life1 == INSTANCE HandlerLife
           WITH status <- Status(h1), leases <- Cardinality(HoldersOf(h1))

\* "this Cache handles deletion" (file-handler-cache.h:37), seen by the threads
\* that use a handler: it is never deleted under a user nor leased once retired,
\* and a handler that is not wanted or retired does go away.
LifeOfOneHandler == Life1!Spec
=============================================================================
