# Folve in TLA+

Folve is a FUSE filesystem that mirrors a directory of music files and convolves
their sound with a FIR filter on the fly, while they are read. This directory
holds TLA+ models of the parts of it that are hard to get right - a cache of
open files that owns them, a buffer that several threads fill and read, a thread
that converts ahead of the readers, processors that are handed from file to
file for gapless playback or kept in a pool while their configuration is edited, a
filter that is switched while files are open, and what readers, attributes and a
status page say of a file that is being converted -
with TLC configurations that check them on small instances and TLAPS proofs of
safety properties for all instances. Files and lines refer to the sources of
folve; the modules keep its names.

    tlc -workers 2 -config BufferThread.cfg MCBufferThread.tla
    tlapm BufferThread_proofs.tla

## 1. The system

### Threads

* **FUSE threads**, any number, run `folve_open`, `folve_read`, `folve_release`,
  `folve_getattr` (folve-main.cc). A handle of the kernel is a pointer to a
  `FileHandler`, shared by everybody who has the same file open under the same
  filter.
* **The pre-buffer thread** (buffer-thread.cc), started at the first request and
  never stopped, converts files ahead of their readers.
* **The HTTP thread** (status-server.cc) shows statistics of all handlers and
  switches the filter.

### Components

**FileHandlerCache** (file-handler-cache.cc). State: `cache_`, a map from key to
entry (handler, reference count, last access), under `mutex_`. Operations:
`FindAndPin`, `InsertPinned`, `Unpin`, eviction of idle entries, `GetStats`; an
observer is told of handlers retired. It owns the handlers: the user constructs,
the cache deletes - outside its lock, since a destructor may wait. Hard: two
opens racing; deletion after the critical section that decided on it; a cache
larger than it should be; replacing an idle handler that is not gapless. Correct
if every handler has exactly one owner, none in use is deleted, and nothing idle
makes the cache too large.

**FolveFilesystem** (folve-filesystem.cc). State: the selected filter
`current_config_subdir_`, the mode `-t` (a toplevel directory names the filter),
the cache, the pool, the pre-buffer thread. Operations: `GetOrCreateHandler`,
`Close`, `StatByFilename`, `SwitchCurrentConfigDir`, `RequestPrebuffer`,
`QuitBuffering`, `ListDirectory`. Between the calls of the cache it holds no
lock. Hard: the filter is switched between open and close, and while an open is
on its way; keys are concatenations; the string itself is assigned and copied
without synchronisation. Correct if references count users, whoever has a
handler can give it back, and it is one for the file and filter asked for.

**ConversionBuffer** (conversion-buffer.cc). State: a temporary file, how much
was written and accessed, whether it is complete, `mutex_`. Operations: `Read`,
`FillUntil`, `Append`, `NotifyFileComplete`, and the header. `FillUntil` calls
the sound source under the lock until there is enough. Hard: several readers and
the pre-buffer thread; parts of `Read` outside the lock; a source that ends
early; a full disk. Correct if reads behind the header are full until the end,
header reads convert nothing, and nobody who reads or pre-buffers adds to a complete
file.

**BufferThread** (buffer-thread.cc). State: a queue of buffers with goals, the
current one, two condition variables. Operations: `EnqueueWork`, `Forget`, `Run`.
Hard: `Run` works without its lock; `Forget` must wait for it; signals wake one
waiter; goals change under way. Correct if nothing forgotten is touched, every
wakeup arrives, every queued buffer has its turn, and the goal asked for counts.

**ConvolveFileHandler** (convolve-file-handler.cc). State: the input and how many
frames are left of it, the header and the sound in its `ConversionBuffer`, the
processor, the attributes reported, the statistics. Operations: `Read`, `Stat`,
`GetHandlerStatus`, `AddMoreSoundData`, `PassoverProcessor`,
`NotifyPassedProcessorUnreferenced`, `Close`. Hard, within a file: the header is
copied from the input while libsndfile's own is suppressed; `Read`, `Stat` and the
status page look at a conversion in progress without its lock, and a read that seems
to skip to the end is answered with silence. Between files: when a file ends in the
middle of a fragment, the processor is passed on to the next file, which fills it up
and later writes what is its own; the next file may be short, already open, or being
read. Correct if each file gets one header and its own frames, once and in order, a
sequential reader gets all of them, and the size reported suffices.

**SoundProcessor** (sound-processor.cc). State: the convolver, a buffer with two
positions, the maximum of the output, the timestamp of its configuration file.
Operations: `Create`, `FillBuffer`, `WriteProcessed`, `ConfigStillUpToDate`, `Reset`.
`Create` runs the parser under `fftw_mutex`. Correct if what it makes fits the engine
the parser configured, and the timestamp is that of the version parsed.

**ProcessorPool** (processor-pool.cc). Idle processors by configuration file, at
most three each. `GetOrCreate` chooses the most specific file there is, takes a
processor out or creates one; `Return` puts it back; either deletes what is not up to
date. Hard: it is tested outside the lock, and files are edited, removed and restored
meanwhile. Correct if a processor is in one place and nobody gets an outdated filter.

**Filter configuration parser** (zita-config.cc, zita-fconfig.cc, zita-audiofile.cc,
from jconvolver). State: the `ZitaConfig` being filled in. Hard: commands overwrite
before they test and may come in any order and twice; numbers are scanned as unsigned
into signed ones, lengths of impulse files are unsigned; an error may count as success.
Correct if what it accepts is consistent.

**StatusServer** (status-server.cc). State: a bounded list of retired handlers with a
count of those forgotten. Operations: the page, the choice of the filter, the
observer the cache calls with its mutex held. A page reads the cache first and the
list later. Correct if a page misses no file. `GetHandlerStatus` only takes the
handler's own mutex for statistics, which is innermost, so calling it with the
cache's mutex held adds no order of locks.

**PassThroughHandler** forwards reads. **folve-main.cc**: options and FUSE callbacks.
**util**: mutex, thread, clock, formatting.

### How they interact

    folve_open/release/getattr -> FolveFilesystem -> FileHandlerCache -> (delete) ~ConvolveFileHandler
    folve_read -> ConvolveFileHandler::Read -> ConversionBuffer::Read -> FillUntil
                                            -> RequestPrebuffer -> BufferThread::EnqueueWork
    BufferThread::Run -> ConversionBuffer::FillUntil -> AddMoreSoundData
    AddMoreSoundData -> GetOrCreateHandler(next file) -> PassoverProcessor -> Close(next file)
    ~ConvolveFileHandler -> NotifyFileComplete, BufferThread::Forget, Close, delete buffer
    CreateHandlerFromDescriptor -> ProcessorPool::GetOrCreate -> SoundProcessor::Create -> config
    HTTP -> SwitchCurrentConfigDir, FileHandlerCache::GetStats -> GetHandlerStatus
    FileHandlerCache -> (observer, under its mutex) StatusServer::RetireHandlerEvent

The line from `AddMoreSoundData` back into the filesystem closes a circle through
all locks: it is run with a buffer's mutex held, possibly by the pre-buffer
thread, and may open, evict and delete files.

## 2. Modules

| module | what it models |
|---|---|
| `FileHandlerCache` | the cache, one action per critical section; deletes as steps of their own |
| `FolveFilesystem` (extends it) | the users of the cache: open, gapless open, release, stat, filter switching |
| `HandlerLife` | abstract: the life of one handler as its users see it |
| `BufferThread` | the pre-buffer thread, its readers, the destructors that wait for it |
| `ConversionBuffer` | reads and fills of one file, lock by lock |
| `FolveThreads` (extends the cache) | cache, buffers' mutexes and pre-buffer thread composed: who waits for whom |
| `GaplessPlayback` | frames from input to output through processors, handovers and the pool |
| `FlacHeader` | functions: the header of a converted file and what libsndfile adds |
| `ConvolveFileHandler` (extends it) | read, stat, status and conversion of one file |
| `FilterConfig` | the parser of configurations: functions for commands, an action per line and block |
| `ProcessorPool` (extends it) | choice, check-out, check, creation and return of processors; edits |
| `StatusServer` (extends the cache) | the observer, the list of retired handlers, pages |
| `MC...` | values of the constants for TLC |
| `..._proofs` | theorems and their proofs |

**FileHandlerCache.** `cache` is a function whose domain are the keys present.
`FindAndPin` has three outcomes and so three actions: miss, hit, and the
pretended miss that erases an idle non-gapless handler. What a call erases is put
in `to_delete[c]`; the thread `c` deletes it, one object at a time, before it
does anything else (`Ready`). `created[c]` is what `c` constructed and not yet
handed over. Eviction picks the oldest idle entries; among equally old ones the
order of `std::sort` is open. `CacheSpec` is the cache under any client that keeps
to the contract.

**FolveFilesystem.** A user is one open file or one stat by name; gapless
playback's opening of the next file is one, too. `GetOrCreateHandler` takes the
filter at its beginning and goes through `find`, `create`, `insert`, `open`,
anything may happen in between. `Close` computes its key anew, as the code does.
The switch of the filter is two steps between which a reader of the string may
see a third value, `TornFilter`. Directory names are sequences of path elements,
so that concatenation can be what it is in the code.

**BufferThread.** A critical section is an action. Waiting for a condition
variable is a state left by a signal - to one waiter - or for no reason, after
which the condition is looked at again. `EnqueueWork` is two steps, since it
computes its goal before it locks. A destructor goes through `notify`, `forget`
(or `waiting`), `close`, `gone`. It begins when no reader has the file open; the
pre-buffer thread may be working on it. What reading and filling do is reduced to
how many chunks are written, a fill being one step.

**ConversionBuffer.** The other view: one file, and all steps of `FillUntil` and
`Read`. The source is reduced to how often it may be asked; each time it appends
something, nothing, or, if the disk is full, a part that is not counted; it may
end at any time. The destructor marks the file complete (`NotifyFileComplete`) when no
reader has it, waits until the pre-buffer thread is through, and closes the encoder,
which flushes its last samples into the buffer that is complete already (`Close`).

**GaplessPlayback.** A frame is a pair of file and position; what the filter makes
of it is identified with it. A processor is its input and `output_pos_`; a handler
is its position, `input_frames_left_`, its output. `AddMoreSoundData` is cut where
another thread may notice: reading the input, opening the next file, the check
for having started, the assignment of the processor, the filling from the next
file, the writing. Files may have a frame less than their header says; every file
has at least one.

**FolveThreads.** The circle just mentioned. Players and the pre-buffer thread are the
callers of the cache; a thread may hold the mutex of one buffer (`filling`) while it
goes through the same opening of a file as a player's, now of the next one
(`Nested`), and through the destructors of what that erased: `NotifyFileComplete`,
which needs the mutex of the buffer, `QuitBuffering`, which waits for the pre-buffer
thread, and `DeleteHandler`. As long as a thread converts sound of its own file
only, filling is one step: all that others notice is whether the file is complete.
`RequestPrebuffer` looks for the thread, starts it and enqueues in three steps, as
it does all that without a lock. A handler is named by its file and one of two
numbers, so an address is free again only when its handler is deleted. Goals and
positions are gone; whether work is dropped or re-scheduled is left open.

**FlacHeader** treats a file as a sequence of blocks of metadata and frames of sound.
`SetOutputSoundfile` is the constructor's work in its order: writes of libsndfile off,
blocks copied without table of seek points and checksum, the library's header flushed
into nowhere, the first block patched, writes on again; or, for other formats, the
library's header with the number of samples filled in. Patching bytes 4 to 41 is
patching the first block. The library writes its header once and again on closing,
after a seek that turns its writes off.

**ConvolveFileHandler.** Two readers - a player that reads on from where it is, and an
indexer that also asks for the last byte there seems to be -, threads in `Stat`, and
the status page. `Read` is cut at the read of the size so far, the test of the
horizon, `FillUntil`, and the `pread`; `Stat` at the size, the frames, and the store;
`AddMoreSoundData` at everything another thread may see. The horizon goes through
`int`. When the library writes what it was given is open until it is closed.

**FilterConfig.** A line is a record; `Command` is the parser's dispatch, each command
a function from configuration to the set of configurations that may follow, with the
checks of the source in their order, the errors they give and the assignments that come
before them; there are several where the convolver may refuse or memory run out. Numbers
of channels and sizes are scanned as unsigned and kept as signed (`Wrapped`), lengths of
impulse files are modulo `UINT`, the density is in hundredths. An impulse file is read
block by block, `ReadBlock`; at the end of the file the source's loop does not end,
`EndlessRead`. `Accepted` is what the caller
makes of the result, including the lookup of a pointer past the end of its table.

**ProcessorPool.** A thread goes through `GetOrCreate` by critical sections and system
calls; between them other threads and the user, who edits, removes and restores
configurations, take steps. `stat` of a file that is missing leaves the time
uninitialised, so `GetModificationTime` then has every value. `job[t].seen` records
what the file has been since the open began, its removal among it, for the property.

**StatusServer** conjoins the observer's step to every step of the cache: it is called
in the same critical section, all handlers of one clean-up within it. In which order the
handlers of one clean-up are told is open. A page is two reads, in an order, with the
cache changing in between.

**HandlerLife** is what a user of the cache may rely on: created, cached, leased any
number of times, retired when nobody leases it, deleted; and that what is retired
or not wanted is deleted in the end.

Operators marked "Mutant" are not part of the models. They are plausible bugs - a
count forgotten, a check dropped, a key computed from the wrong filter - by which
the operator defined after them can be replaced; each property is violated by
the one noted for it in PROJECT.json. They show that the property is sensitive to
the code.

## 3. What is checked

| run | instance | states | properties |
|---|---|---|---|
| `cache` | 2 callers, 3 keys, 3 handlers, room for 1, clock 0..1, 1 viewer, list of 1, at most 2 references and 4 openings (constraints) | 400 thousand | only entries in use make the cache too large; every handler has exactly one owner; pages miss none; all are accounted for |
| `switching` | 3 users, 1 file, 2 filters and a torn one, 4 handlers, room for 1 | 570 thousand | references count users; what is open can be closed; a handler serves the request it is for; one conversion per file and filter |
| `filtered` | 2 users, 4 paths with -t, 3 handlers, room for 1, clock 0..1 | 490 thousand | `LifeOfOneHandler`, with liveness; the filesystem keeps to the contract of the cache (`CacheSpec`) |
| `thread` | 2 readers, 2 files of 2 chunks, looking 2 ahead | 410 thousand | Run's assertion; no use after Forget; no lost wakeup; no sleeping on work; Forget returns; everyone gets a turn |
| `buffer` | 2 readers, header of 1, 2 blocks of at most 1, reads up to 2 at 0..2 | 84 thousand | full reads behind the header; header reads are cheap; complete is final but for the destructor's flush; reads return |
| `gapless_player` | 3 files of 1..4 frames, fragments of 3, 3 processors, pool of 1 | 230 thousand | each file its own frames; converted to the end; no processor shared; both assertions of SoundProcessor |
| `threads` | 1 player, the pre-buffer thread, 3 files, 2 handlers of each, room for 1 | 33 thousand | no circle of waiting threads; nothing deleted under its users; what is erased is deleted, calls return |
| `pool` | 2 threads, stereo files, 2 configurations with 6 texts, 3 processors, pool of 1, clock 0..1 | 310 thousand | a processor is in one place; no outdated filter; what is made fits its engine; opens return |
| `handler` | 6 files of 2 to 4 frames, fragments of 2, a player, an indexer, 2 threads in `Stat`, the status page | 3.2 million | header well-formed; one header, then every frame once; silence only for skips; the size suffices; the maximum is kept |

**Bounds.** The cache holds one or two entries where the program keeps four: what
matters is that it can be full, too full of entries in use, and that more is
wanted than there is room for. Three users of one file are what it takes for two
that share a handler and one that comes or goes. For the thread, a goal must be
more than one chunk away, else work is never re-scheduled; hence looking two
ahead. Two buffers are one that is worked on and one that waits. For frames, the
lengths are one to one more than a fragment: shorter, exactly as long, longer;
three files in a row let a processor be passed on twice. In the
`switching` run time stands still: only the order of eviction depends on it, and
equal times leave that order open; the clock moves in `cache` and `filtered`.

For `threads`, three files in a row let one handover lead to the next while the
player opens any of them, and room for one makes every opening evict. One player
is enough for the circle the comment at file-handler-cache.cc:58 describes. (Two
players and two files, with the thread started, have 2.5 million states and no
violation either, but take too long with liveness.)

For `cache`, room for one and a list of one overflow with two keys; the third key makes
an entry disappear and another appear between a page's two reads. For `pool`, a file
changes at most once a second, as its time tells no more (a second edit within the
second of the first is unnoticed by design); two seconds allow a processor of an older
version in the pool, and one change of each file: that a file changes and changes back
is covered by the theorem only. Which text a file may have is `Edits`. The texts have
comments before `/convolver/new`, an impulse file that is there and one that is missing,
a read past the end, a second `/convolver/new` that wants more channels than the first
or fewer, and a density out of range. Their sizes are those at which the fragment
changes, with fragments of 2, 4 and 8 and no response longer than 16: one fragment (2),
two (4) and one more (5), the longest (16), one that is too long (17), and one that is
negative, with a double that overflows (64 is -64: `UINT` is 128 where the code has
2^32).

For `handler`, the files are FLAC with and without a table of seek points, as the last
block, a FLAC file under the workaround, a file that ends before its header says, and
one whose output cannot be opened; sizes from much smaller to larger than the output
cover estimates that rise and that never start. A fragment is two frames, so files of
one fragment and of more than one are there. An item of a file is one byte, the
overhang of a skip and the margin of `Stat` are 1 and `INT` is 64; no value of the run
reaches that, and the theorems hold for any. Files of no frames are left out, here and
in `GaplessPlayback`.

**Deadlock** is checked, except in `BufferThread` and `FolveThreads`, where everything
may come to rest: all files closed, the thread waiting for work (in `FolveThreads`
`NoCircularWait` takes its place); and in `ProcessorPool`, where both threads may hang,
one in `EndlessRead`, the other waiting for `fftw_mutex`.

**Fairness.** `BufferThread!Spec`: the thread runs, a destructor that has begun goes
on, and so does a request; each is scheduled by the system and holds the mutex
only shortly. Nothing obliges anybody to read, close, or wake up spuriously.
`ConversionBuffer!Spec`: a thread inside a call goes on, and gets a mutex that
becomes free again and again (strong fairness: a mutex of pthreads is not a
queue, but no waiter is passed over for ever by threads that leave it).
`FolveThreads!Spec`: a call that has begun goes on, also if it has to wait for
mutexes again and again (strong fairness); the exception in its liveness
properties, a thread that has blocked itself, is the finding `evicts_itself`.
`ProcessorPool!Spec`: an open that has begun goes on, and gets `fftw_mutex` if that
becomes free again and again (strong fairness); nobody has to open, return or edit.
`FolveFilesystem!FsSpec`: a thread that is about to insert its handler or to delete
what it erased does so. Users need never close.
`StatusServer` and `ConvolveFileHandler` are checked for safety only.

### What the code does otherwise

Three runs violate a property that states what a comment or document says. The
counterexamples are short; PROJECT.json tells them at length.

| run | what happens |
|---|---|
| `evicts_itself` | the pre-buffer thread opens the next file, which evicts the one it is converting, and waits for a mutex it holds itself |
| `gapless_short` | a file used up by bridging the gap never writes its frames |
| `channels` | a mono file gets a stereo filter: `filter-<rate>.conf` is for any number of channels, and nothing compares |

Other differences are plain in the source and have no run:

* Filters `a` and `a/b` give two files one cache key (folve-filesystem.cc:91-93).
* Two first requests may start two pre-buffer threads (folve-filesystem.cc:59).
* The receiver of a processor may use it while its donor still does, if somebody else
  reads it (convolve-file-handler.cc:344). With a single player the order of calls
  keeps them apart, which `gapless_player` shows.
* With `-t`, a stat by name looks under the selected filter, not the path's
  (folve-filesystem.cc:147), and so misses the open file.
* A goal raised while its buffer is being filled is dropped with the work, as `Run`
  judges by its copy (buffer-thread.cc:82, 91).
* The maximum position is compared without the lock and stored with it, and may go
  back (conversion-buffer.cc:186); so may the size reported, between two calls of
  `Stat` (convolve-file-handler.cc:193), which is why `SizeIsEnough` speaks of a `Stat`
  that is alone.
* The status page may overwrite the maximum recorded while a file is being closed
  (convolve-file-handler.cc:157); `MaximumRecorded` excepts that.
* The maximum is taken of signed samples (sound-processor.cc:120).
* The timestamp is taken after parsing (sound-processor.cc:61): a change in between is
  never noticed; `FreshFilter` excepts that.
* The loop over an impulse file does not end at the end of the file (zita-config.cc:147),
  with `fftw_mutex` held: `OpensReturn` excepts it. A delay beyond the size makes
  the room negative, that is, huge (zita-config.cc:131).
* `ERR_OTHER` ends the parsing but counts as success (zita-config.cc:345), so a filter
  lacks what came after a missing impulse file.
* The convolver of a configuration that is refused is leaked (sound-processor.cc:45).
* With both numbers of channels out of range both checks of the convolver
  (sound-processor.cc:45-46) look outside of its tables; `EngineFits` excepts that.
* A size of 2^31 or more is scanned with `%u` into an `int` (zita-fconfig.cc:44,
  zita-config.h:48) and negative: it passes the test for the longest impulse response
  (line 61), and its fragment is the shortest one there is, or what the overflow of its
  double makes of it (line 75). For such sizes `EngineFits` asks for a fragment that is
  allowed, no more.
* A second `/convolver/new` is refused by the engine, which counts as success, and leaves
  numbers and fragment that may differ from the engine's; `EngineFits` then only asks
  that there are no more channels than the engine has.
* If a configuration is removed while its processor is tested, `stat` fails and the time
  compared is uninitialised (sound-processor.cc:53-57); `FreshFilter` excepts opens
  during which the file was removed.
* "Any further FillUntil() calls will return immediately" (conversion-buffer.h:96) holds,
  but a complete file is not final for its destructor: closing the encoder after
  `NotifyFileComplete` flushes samples into the buffer (convolve-file-handler.cc:96-98,
  517-520). Nobody reads them; `CompleteIsFinal` excepts this step alone.
* Of two pages made at once, both or either may show that the filter was switched
  (status-server.cc:359-363).

## 4. What is proved

For all values of the constants that satisfy the ASSUMEs: sizes are natural numbers, the
longest impulse response doubled fits an `int`, files are not empty, the list of retired
handlers holds at least one, and the special values are none of the ordinary ones. Two
assumptions are about libraries: the convolver's longest fragment is its shortest one
doubled some number of times (in zita-convolver, 64 and 8192), and what libsndfile opens
as FLAC begins with a STREAMINFO that knows the number of samples, and has one last
block of metadata, which is the last (`IsFlac`). No bound on time matters.

Recursion (halving a fragment, copying blocks) is written as recursive functions, which
the provers can reason about: `SetInduction` in two of the proof modules derives
induction over sets of numbers from the library's theorem that they are well-founded.

**The cache** (`FileHandlerCache_proofs`): `OverfullOnlyWhenPinned` and `OneOwner`
for `CacheSpec`. `OneOwner` speaks of callers, entries and erased handlers at once
and needs the types only. That only pinned entries overfill the cache is inductive
because the three operations share the work: an insertion into a cache that was
not too large makes it too large by one, and cleaning up either removes one or
finds none idle; an unpin that makes an entry idle erases it when the cache is too
large. The proof rests on the cardinality of finite sets.

**The filesystem** (`CacheClients_proofs`): it keeps to the contract of its cache
(`FsSafety => CacheSpec`, whence the theorems of the cache), `RefCountExact`,
`UnpinFindsEntry`, `HandlerServesRequest`, `OneConversionPerOpenFile`, and that every
handler leads a `HandlerLife`, as far as that is about safety. One invariant carries
them all: an entry's references count the users that hold its handler; who holds one
finds it in the cache under the key it will compute anew; a handler's file is that of
its key, and what was made and not filed yet is for the request that made it. A handler
with a holder is therefore pinned and never evicted, and what is erased has no
holder. The hypothesis of these theorems is `KeysDistinct`: different filters and paths
have different keys. It is needed: with filters `a` and `a/b` the file `/b/x` under
the first and `/x` under the second have one key. `FlatFiltersAreDistinct` proves it
for filters that are one path element each, which is what people have.

**Cache, mutexes and pre-buffer thread** (`FolveThreads_proofs`): `NoUseOfDeleted`,
`NoCircularWait`, and that players and thread together keep to the contract of the
cache (`SafetySpec => CacheSpec`), for any number of players, files and handlers. The
invariant says for every step of a call what the thread holds there - a handler, a
mutex, the next file -, that the references of an entry count those uses, that the
queue holds only handlers which are in the cache or in the hands of a destructor, each
once, and that a destructor past `Forget` left no work behind. A call erases at most
one handler. Whoever waits in a destructor waits for the pre-buffer thread, as nobody
else is busy with a file that was erased; who waits to fill, waits for one that holds
the mutex and is therefore in a destructor, if it waits at all. So a circle has the
pre-buffer thread in it, waiting for a player to leave the buffer they both convert -
and that player's file is open, not erased, so it does not wait for the thread. The
hypothesis is `OneThreadAtMost`: the thread is there from the start, or there is one
player to start it. It is needed, too: two first requests may start two threads,
and `Forget` speaks to one.

**The pre-buffer thread** (`BufferThread_proofs`): all safety properties of the
`thread` run follow from one invariant. That nothing forgotten is touched needs
that the work in hand is the first of the queue and is the current buffer - which
is all that `Forget` looks at -, that a buffer is queued once, so that erasing one
item is enough, and that a reader between reading and enqueueing keeps its file
open, without which it could enqueue a buffer already forgotten. Waiters wait for
the current buffer, so a signal that wakes only one cannot be wasted on another.

**The conversion buffer** (`ConversionBuffer_proofs`): `ShortReadMeansComplete`,
`HeaderReadsConvertNothing` and `CompleteIsFinal`, the latter with the exception of the
destructor's flush. The invariant: what was counted is on disk; once the destructor has
begun no reader is in a call; a reader that has left the fill loop has what it asked for
or the file is complete; who asks within the header asks for no more than the header,
which is there from the start, so the loop ends at once.

That the thread does not sleep while there is work (`NoSleepOnWork`) is part of the
same invariant.

**Gapless playback** (`GaplessPlayback_proofs`): all properties of the `gapless_player`
run, for any number of files of any length, of processors and of threads that convert,
and any fragment. The invariant, `GInv`, says where the frames of a file are. Between
two calls either nothing is pending, or what was read and not written is in the
processor's buffer behind `output_pos_`, with nothing of it missing. A thread in a call
has collected frames that go on where the output ends, and whatever it let the next
file add comes behind them. Two files have one processor only while a thread hands it
over, and one that no file has is as good as new, so a file never finds another's
frames in it. The hypothesis is `Undisturbed`: nobody converts a file while another
thread hands it a processor. With one thread that is a fact (`GaplessOnePlayer`). With
more it is not, and is needed: the mutex of the receiver is not taken, TLC finds
`OutputIsOwnInput` violated with two threads without it, and with it finds `GInv`
kept. That it speaks of the receiver alone says what a repair would have to lock.

**The pool** (`ProcessorPool_proofs`): `OnePlace` and `FreshFilter`. The invariant puts
every live processor in the hands of one thread or at one place of one list, and says
that a thread between check-out and test holds what no list has. Freshness needs the
order of time: a version whose time equals the file's is the file's text, as a file
changes once a second; a thread that found its processor up to date has that text among
those seen. The property's two exceptions are needed here: the version parsed must have
the time it was given, and `stat` must have found the file each time.

**The parser** (`ProcessorPool_proofs`): `EngineFits`, for every file: lines in any
order, `/convolver/new` missing, once or often, any numbers that an unsigned int can be,
any limits, and a library that refuses when it likes. That the numbers of channels are
no more than the engine's follows from the caller's look into the engine's tables alone.
The rest needs an invariant of a configuration being parsed: there is an engine only if
a line already read is a `/convolver/new`; and if the file has one such line at most,
there is either no engine, or engine and configuration have the same numbers and
fragment, whatever the other commands do (`CommandKeepsEngine`). A refused
`/convolver/new` leaves no engine, and an `ERR_OTHER` that counts as success; the
caller's look finds that out. Halving while the fragment is at least twice the impulse
response is shown, by induction, to end at the shortest length that holds it
(`FragmentIsShortest`), if the size is not negative and so is not changed by its
conversion and its double.

**The status page** (`CacheClients_proofs`): the page and its observer leave the cache
alone (`Spec => CacheSpec`, so the cache's theorems hold here, too), and
`PageMissesNoHandler` and `EveryHandlerAccounted`. The invariant follows a page: a file
open at its beginning is in the cache, or remembered, or so many were forgotten since
that the count has grown; nothing moves back from the list to the cache unseen,
because the cache is read first. Dropping from the list never drops below its limit,
and what is dropped is counted.

**The handler** (`ConvolveFileHandler_proofs`): `SequentialReaderGetsSound`, for any
number of frames, sizes of reads, and interference. The player's position never
exceeds what is written, whence its reads are no skips, whatever the reported size and
the width of the horizon; that the size never shrinks needs what libsndfile writes
only to be appended, for which the buffer's operators have lemmas. `MaximumRecorded`
follows the maximum through saving, resetting and closing; `SizeIsEnough` needs that a
`Stat` alone after completion sees all frames done, and estimates no less than there is.

`HeaderWellFormed` and `OneHeaderThenSound` rest on what the blocks kept of a header are
(`KeptLemma`, `FinishedLemma`): by induction, the last of them is a last block, and no
other, unless the table of seek points was the last, whose place the empty block takes.
The invariant `OInv` says that the output is a header, or nothing yet, followed by the
frames written so far, that `header_end` is where the constructor left it, and that the
library writes nothing but sound while its writes are on; once they are off, after the
seek, nothing is added.

**Only model-checked:** liveness, that of `HandlerLife` included, and whatever needs
ENABLED: both are out of the prover's reach.

## 5. What is not modelled

The convolution and the file formats (libsndfile, zita-convolver); the scanning of
numbers and quoted strings (`sscanf`, `sstring`), `/cd` and names of ports in
configurations; the rendering of the status page, its choice of a filter by name;
`SanitizeConfigSubdir`, which tests names of directories; option parsing; `readdir` and
`readlink`, which forward to the system, as does `PassThroughHandler`, one call of the
system each. Latency and options of the convolver, which folve leaves 0. Files without
a single readable frame. Undefined behaviour from data races is modelled where the
value matters: the selected filter, uninitialised times, pointers past a table.
`off_t` values are unbounded numbers, products of floats exact.

## 6. Plan

Done: the modules above, in this order: the cache and the filesystem over it, as
everything else lives and dies by them; the pre-buffer thread; the conversion
buffer; gapless playback; the composition of cache, mutexes and pre-buffer thread;
the pool with the parser of configurations; header, reads and attributes of a handler;
the status page.

What would come next: the observer as a part of `FolveThreads`.
