# Verification of gdash-vita

`gdash-vita` runs the Android build of Geometry Dash on the PlayStation Vita.
It maps the game's ARM library into memory, binds its imports to
re-implementations of the Android C library on top of vitasdk, patches a few of
its functions, and drives it from a frame loop. The game itself is closed; the
code verified here is the layer underneath it: a small operating system
personality, called from all of the game's threads at once.

The project models that layer in TLA+, checks small instances with TLC and
proves theorems with TLAPS.

## 1. The system

| Component | Code | State | Operations |
|---|---|---|---|
| once | `source/reimpl/pthr.c` 483-522 | the game's control words | `pthread_once` |
| mutexes | `pthr.c` 56-158, 302-337 | `initializedObjects`, the real mutex behind each object, the lazily made lock of that table | init, lock, trylock, unlock, destroy |
| conditions | `pthr.c` 161-182, 344-437 | as mutexes | wait, timedwait, signal, broadcast, init, destroy |
| semaphores, rwlocks, attributes | `pthr.c` 115-122, 205-280, 438-482, 542-596 | kernel semaphores, newlib's rwlocks, a marker word | the POSIX calls |
| socket hooks | `source/dynlib.c` 225-545, `reimpl/io.c` 235-367, `reimpl/ioctl.c` | `g_net_hook_mutex`, `g_tracked_fds`, the sockets' mode | socket, connect, getaddrinfo, close, fcntl, ioctl, transfers |
| errno | `reimpl/errno.c` | `errno_translation`, shared by all threads | `__errno`, strerror |
| files and paths | `reimpl/io.c`, `main.c` 61-90 | the seed file, open files | fopen, open, stat, ... |
| function hooks | `lib/so_util/so_util.c` 60-114, `so_util.h` 54-75, `source/patch.c` | the patched code, the instruction cache | hook, call through |
| ELF loader | `lib/so_util/so_util.c` 116-702 | the module list, memory blocks, the patch arena | load, relocate, resolve, look up, initialise |
| start-up | `source/utils/init.c`, `main.c` 600-1010 | which of the above is done, the digests, the save files | the order of all that |
| input | `main.c` 1013-1110 | last touch per slot, last pad | one frame |
| keyboard | `source/falso_jni_impl.c` 69-114, `utils/dialog.c` | the dialog, three text buffers | open, poll |
| music | `main.c` 95-262 | FMOD's channel | open, play, set position, pause, stop |
| graphics | `utils/glutil.c`, `dynlib.c` 182-218 | two globals, the cache of shaders on the card | source, compile |
| end of process | `reimpl/proc_stubs.c` | the record file, the stack | kill, raise, abort, assert, setjmp |
| translations | `reimpl/sockopt.c`, `sockaddr_abi.c`, `_struct_converters.c`, `dynlib.c` 391-405, 461-485, 606-660 | none | conversions |
| import table | `dynlib.c` 833-1757 | the bindings | one per import |
| logger, settings, system stubs, JNI tables | the rest | little | forwards |

How they meet. The loader runs alone, before any of the game's code; after
`so_initialize` every import is called by any thread of the game. The threads
share, inside this layer: the table of known pthread objects, the tracked
descriptors, the errno table, the hooked code, the seed file, and trace files.
The frame loop owns the input state alone. Locks are few: `pthr_mutex` around
each access of the object table, `g_tracked_fds_mutex` around the descriptor
table, `g_net_hook_mutex` around socket, connect and getaddrinfo. Two things
outlive the process and are read by the next: the seed file and the cache of
compiled shaders; so are the saves, of which start-up makes those that it cannot open.

What is hard: check-then-act on objects created on first use; an address that is
used again for another object; results that arrive after a time-out; tables that
are full; a shared table whose entries are handed out by address; code that is
rewritten while it is executed; numbers that mean something else on the other
side; and a frame loop that must emit paired events from samples. Where each of
these bites is listed in `PROJECT.json` under "hazards" with the properties
about it; section 9 lists those nothing here is about.

## 2. What makes each component correct

- **once**: no call returns before the initialiser of its word has ended; it
  runs once; a thread that waits is released. This is what C++ statics and
  OpenSSL's `RUN_ONCE` rely on.
- **mutexes**: two threads never hold one object; what a thread holds is what the
  real mutex says it holds; no real function is called through an initialiser
  taken for a pointer; the table of known objects tells the truth, and what the
  race for its own lock costs is bounded: only an address that was last changed while
  another change overlapped may be missing, until it is remembered again.
- **conditions**: a notification reaches a thread that sleeps.
- **semaphores, rwlocks, attributes**: no unit that the kernel gave is lost on the
  way to the caller, every wait with a limit ends; a lock serves as long as it lives;
  an attribute stands for a real one of its own, in memory that was used before too,
  unless its pointer was overwritten and the marker beside it was not.
- **socket hooks**: they exclude each other, return whatever the network does,
  report what the network decided, leave the mode of a socket as they found it,
  and never take a file or a closed number for a tracked socket. Addresses, flags,
  options and families mean on one side what they mean on the other, and a
  gathering write leaves no gap.
- **errno**: a thread reads the translation of its own last error.
- **files**: one name is one file by every call; what is drawn from `/dev/urandom`
  is drawn once, over restarts.
- **function hooks**: of calls that come one after the other, each runs the hook and
  then the original; no word is executed half-written or stale. Calls that overlap
  leave the hook in place when they are over.
- **loader**: what is freed was allocated; the program goes on only with an image
  that is in memory; a relocated word has the value the image asks for; a symbol
  is found where it is.
- **start-up**: TLS comes up whatever digests the image has; no save
  is lost but one the card refuses to read and lets main write.
- **input**: begin and end of each pointer alternate, and each pointer is where its
  finger is.
- **keyboard**: the field holds what was confirmed, whatever the width of its
  characters, and nothing new after a cancel.
- **music**: a song that is played is ready, and within its length.
- **graphics**: a shader runs its own source, from the cache or not; a cached file that
  was cut off costs the shaders of that source and no others.
- **end of process**: it ends, with a record of who asked if the card takes one; a
  jump lands.
- **import table**: an object is served by the library that made it.

## 3. The modules and the code

Every definition that models code is listed in `PROJECT.json` under "map" with its
lines. A `VARIABLE` marked *external* is the C library, the kernel, the CPU or the
game as the code uses it; one marked *history* records the past for a property
and is read by no guard of the program's own steps.

| Module | Models | State in the module -> state in the code |
|---|---|---|
| `OnceContract` | what POSIX promises of `pthread_once` | per word: not begun, running, done |
| `PthreadOnce` | `pthread_once_soloader` | the control word 0/1/2; a stack of nested calls per thread |
| `ProcessEnd` | `kill`, `raise`, `abort`, `assert`, `sigsetjmp` | `step`, `sig` = where each caller is; `record` = the trace file; the frames between a `sigsetjmp` and its jump |
| `PthrMutex` | `_mutex_t_static_init` and the mutex calls | `word` = the game's `pthread_mutex_t` (initialiser or `real_ptr`), `table` = `initializedObjects`, `block` = the heap blocks with the real mutexes |
| `TableLock` | `PTHR_LOCK`, `isObjectInitialized`, `rememberObject`, `forgetObject` | `lockInited` = `pthr_mutex_inited`; the lock in its work area; search and write of an entry are two steps; *history* `known` = what the answers say is in the table, `overlapped` = what the race may have cost |
| `RwLock` | the rwlock calls | `handle` = the game's word |
| `ThreadAttr` | `_attr_t_static_init`, the attribute calls, `pthread_create` | `magic`, `real_ptr` of each attribute object; `attrs` = the heap blocks; *history* `past` = what an earlier life left in the object |
| `PthrCond` | `_cond_t_static_init` and the condition calls | the same as mutexes for one condition, with the queue and mutex it guards |
| `PthrSem` | the semaphore calls | `count` = the kernel's; `call.got` = what the kernel gave a call that has not returned yet; `wide` = the width in which the deadline is computed |
| `Clocks` | `clockid_bionic_to_vita` and the clock calls | `clk_id`; what the game was shown |
| `NetSockets` | `socket_traced`, `connect_traced`, `getaddrinfo_traced`, `gdash_net_track_fd`, `close_soloader`, `fcntl_soloader` | `g_net_hook_mutex`, `g_tracked_fds`; `nonblock` = SO_NONBLOCK; `ret`, `err` = the hook's result and saved errno |
| `NetNames` | the conversions of `sockaddr_abi.c`, `sockopt.c`, `inet_pton`, message flags, `writev` | `buffer`, `list` = the game's addresses; `option` = the socket's, by the console's numbers; `sent` = a message's flags as meant and as the stack gets them |
| `ErrnoBridge` | `__errno_soloader`, the repair in `fopen_soloader` | `table` = `errno_translation`; `errno` per thread |
| `FileBridge` | `translate_path` in every call, FMOD's paths, the flags of `open`, `ensure_urandom_seed_file` | `card` = the files; `seed`, `pool` = the seed file and the buffer |
| `ImportTable` | `default_dynlib` | the rows: what a call takes, gives and ends, and whose it is |
| `HookTrampoline` | `hook_thumb`, `hook_arm`, `SO_CONTINUE` | the words (and the leading halfword) of the patched function, in memory and in the instruction cache |
| `SoLoader` | `soloader_init_all`, `so_file_load`, `_so_load`, `so_relocate`, `so_resolve`, `so_flush_caches`, `so_initialize` | `live` = kernel blocks; `placed` = segments; `value` = the relocated words |
| `SymbolTable` | `so_hash`, `so_symbol_index` | `dynsym`, `hash` |
| `MainStartup` | `main` up to the first frame, `__gnu_Unwind_Find_exidx_soloader` | `known` = `g_digest_names`, `g_digest_mds`; `check`, `cached` = the overwritten branches in memory and in the cache; `card` = the saves |
| `TouchInput` | one iteration of `main`'s loop, `handleTouchesMove` | `last` = `lastX`, `lastY`; `oldpad`, `pad`, `touch`; `held` = what the game believes |
| `Keyboard` | `openIMEKeyboard`, `init_ime_dialog`, `get_ime_dialog_result`, the UTF-8/UTF-16 conversions | `initial`, `ime_initial_text_utf16` (`shown`), `ime_input_text_utf16` (`typed`), `ime_input_text_utf8`; `field` = the game's text |
| `FrameLoop` | `main`'s loop with the keyboard inside a frame | both of the above |
| `Music` | the `gdash_FMOD_*` wrappers | the channel, the sound on it, its position |
| `Graphics` | `gl_preload`, `gl_init`, the shader hooks | `skip` = `skip_next_compile`, `fname` = `next_shader_fname`, `gxp` = the files of the cache |

`MC*` modules give the constants of one instance and put modules side by side;
`*Proofs` hold the theorems, each about one or several of the modules above:

| Module | Proves about |
|---|---|
| `PthreadOnceProofs` | `PthreadOnce`, `OnceContract`, `ProcessEnd` |
| `PthrMutexProofs` | `PthrMutex`, `TableLock`, `RwLock`, `ThreadAttr` |
| `PthrCondProofs` | `PthrCond`, `PthrSem`, `Clocks` |
| `NetSocketsProofs` | `NetSockets`, `NetNames` |
| `FileBridgeProofs` | `ErrnoBridge`, `FileBridge`, `ImportTable` |
| `FrameLoopProofs` | `TouchInput` and `Keyboard` within `FrameLoop`, `Graphics`, `Music` |
| `HookTrampolineProofs` | `HookTrampoline` |
| `StartupProofs` | `SoLoader`, `MainStartup`, `SymbolTable` |

Granularity. In a module with threads an action is the code between two points
where another thread can matter: each access to a shared word, each call into the
C library, each critical section. `PthrMutex` takes the three functions of the
table for one step each; `TableLock` takes them apart. In `SoLoader`,
`MainStartup`, `TouchInput`, `Music` and `Keyboard`, which one thread runs, an action
is a phase of the function and the nondeterminism is in the environment: the
image, what the kernel refuses, what the panel reports, what the user types.

Some modelling decisions a reader may want to check:

- `PthreadOnce` lets an initialiser call `pthread_once` on words of higher number
  only. Words may nest, a cycle would block in every implementation.
- `PthrMutex` and `PthrCond` follow the pointer *as the object holds it at that
  moment*: `InitReal` initialises whatever `real_ptr` is now, not what the thread
  stored two steps before.
- `PthrMutex.broken` and `PthrCond.lost` record that the wrapper lost track of an
  object, on the list of ways given at the properties. Both sets of properties are
  conditional on it: they delimit the failures of the wrapper, they do not claim
  there are none. The list is in section 8.
- `TableLock` is what justifies the one step each of `PthrMutex`, and says when it
  does not: `healed` becomes true when the lock was made and no thread is inside.
- `ThreadAttr.Forget` is memory used again without a destroy: the new use may write
  over the marker, over the pointer, over both or over neither.
- In `PthrSem` what the kernel answers and what the wrapper makes of it are two steps,
  between which the semaphore may be deleted and posted; the units it must have are
  counted by the answers the game got, not by the kernel's.
- In `PthrSem` the width of `tv_sec * 1000 * 1000` is a constant of the behaviour,
  `wide`: it depends on the toolchain's `time_t`. Both are checked.
- In `NetSockets` a socket is used by the thread that made it (the game uses curl,
  one handle per thread), but its *number* is free for everybody from the moment of
  the real `close()`. `ioctl_soloader` answers FIONBIO with success and does
  nothing; it has no action because it has no step.
- `NetNames` has the numbers of both sides: an option or a flag is set by the number
  Android's headers give it, translated, and looked up by the number the console's
  headers give it. The properties compare names.
- The card may refuse to open a file, cut a write off or give back less than there is,
  wherever the code does not look at the result: in `MainStartup`, `Graphics`,
  `FileBridge`, `ProcessEnd` and `SoLoader`. What is then in the file or the buffer is
  part of the state.
- `HookTrampoline` is about the hooks of `so_patch`, which `so_flush_caches` follows.
  Its original does not call itself.
- `HookTrampoline` lets the instruction cache read any word again at any time, and
  keep an old one until it is flushed. `MainStartup` leaves open, for each
  overwritten line, whether it was in the cache.
- A relocated word is a record of the terms that make it up (the image base, a
  symbol, an addend), not a number, so that "added twice" and "never added" differ
  from "added".
- `ImportTable` has a row for a sort of imports where the table has many lines of
  one kind; the rows of the two C libraries' streams are all there, as they are
  what differs between the builds.
- A path of `FileBridge` is a record: the directory it starts with, how many slashes
  too many follow it (the game appends one), and a name. Exact comparison of records
  is the card's exact comparison of texts; `Collapse` drops the slashes.
- `WritesPrefix` says "the start of what was given" by positions: whatever of a
  writer is on the wire was given to it, comes in order, and has everything given
  before it on the wire before it.
- `SymbolTable` writes the bit operations of the two hashes as arithmetic: a shift is
  a product, a mask a remainder, and the xor of two nibbles is computed bit by bit
  (`NibbleXor`). `HashSize` is how many hashes there are: 2^28 in the code, where a
  word of 32 bits loses its top nibble, 256 in the run. A character keeps its 8 bits,
  so that sums carry out of the word as in the code.

## 4. Composition and refinement

`PthreadOnce` implements `OnceContract`: `Contract` is an instance of it under the
mapping that reads a word 0, 1, 2 as not begun, running, done
(`INSTANCE OnceContract WITH ...`), and `ImplementsContract` is its specification.
It is checked by TLC on the instance and proved by TLAPS for all.

`TableLock` is what `PthrMutex` is built on: its three functions, of several steps
under a lock that may be made twice, are the one-step functions of `PthrMutex` once
that race has healed. `OneStep` in `PthrMutexProofs` is an instance of `PthrMutex`
over the table of `TableLock`, and the simulation is proved (`TableInOneStep`).

`PthrCond` composes the condition with the mutex and the queue it protects,
because a lost wakeup is a property of the three together. `NetSockets` composes
the hooks of two source files around the descriptor table they share. `SoLoader`
composes `init.c` with the loader and the import table it passes it, and
`MainStartup` goes on from its last state: the unwinder of the one reads what the
other has freed. `TouchInput` composes the frame loop with the hook in `patch.c`
that rewrites its moves, and `FrameLoop` composes that with `Keyboard`: the
keyboard runs a loop of its own inside a frame, during which nothing is sampled,
and what changed meanwhile is noticed in the frame after.

Where the `MC` modules put modules together that share no variable, each moves
only while the others are in their initial state. The behaviours of each are then
all there, from its own beginning, and the product of states is not; nothing is
lost, since no action of one reads a variable of another.

## 5. The runs

| Run | Instance | Shows |
|---|---|---|
| `once` | 3 threads, 2 nested words; 2 callers that end the process, 3 frames | no early return, one execution, refinement, everyone returns; an abort ends the process and leaves a record |
| `net` | 2 threads, 2 consecutive numbers, 2 slots; addresses of 4 sizes, 13 options, 2 writers of 3 vectors | settled answers, transient mode, no stale entry, every hook returns; what is translated arrives; writes leave no gap |
| `net_keeps_mode` | same | *violation*: connect leaves a non-blocking socket blocking |
| `longjmp` | as `once` | *violation*: a jump resumes in a frame that has returned |
| `mutex` | 2 threads, 2 objects, 2 table entries, 2 blocks, depth 2; 3 users of the table's lock over 2 entries; 2 threads on an rwlock; 2 attributes over 3 blocks | exclusion, agreement with the real mutex, no wild pointer, exact table; what the race for the table's lock may cost; locks last; attributes are real and each other's own |
| `cond` | 3 threads, 2 blocks, 2 items; a semaphore of 2 threads, 2 units, 4 ticks; 4 times of 2 clocks | no lost wakeup while one real condition exists; notifying under the mutex is enough to have one; no unit lost between the kernel's answer and the wrapper's, limited waits end; clocks keep time |
| `errno` | 2 threads, 4 codes; 2 files, 1 built-in song, 3 writes, 3 seeds; 2 objects | own error, failed open has an error, ENOENT if clean; one file by every path, refusals as on Android, fresh seeds; one library for each object |
| `errno_store` | same | *violation*: `errno = 0` empties the translation |
| `hook` | 3 threads, recursion 2 | clean serial calls; the hook is in place after overlapping ones |
| `unwind` | as `startup` | *violation*: the unwinder reads headers that were freed |
| `touch` | 3 buttons, 2 fingers, 2 spots; 9 texts, 4 typings, a copy of 3 bytes; 2 shaders, 2 sources; a song, a sound, offsets on both sides of 0 | pairing and positions at each render; fields as confirmed; shaders run their source, over cut files and lives; songs play |
| `startup` | images of 1 to 4 segments, 9 units, any refusal and a short read; 2 saves, 3 digests; 3 symbols, up to 3 buckets | error exits, placement, relocation; TLS starts; what the loop over the saves may cost; symbols found |

Type correctness is a conjunct of a property (`ErrnoServes`, `HookInv`, `InputInv`,
...) or a theorem or part of the inductive invariant of the proofs' module.

Why the bounds are enough. The code compares identities, never counts threads:
two threads reach each check-then-act race, a third is there where a race has
three parts (`once`: winner, loser before and loser after the store; `cond`: two
makers and a sleeper; `hook`: two writers and a fetch; the table's lock: one that
holds the replaced lock, one that replaces it, one that sleeps). Two descriptor
numbers are chosen consecutive because the table's arithmetic confuses only
neighbours; a number is reused as soon as it is closed. Two table entries are
filled by one object entered twice, so the full-table path of the mutex table is
taken. In `startup` a page is two units and every start, length and refusal
within nine units is enumerated, with one data segment more than there is room
for; what main does afterwards depends on nothing of the image but that it was
loaded, and is followed for one (`Followed`). `touch` has no bound on time: its
states are all frames. Its texts have the first and last characters of each
width, and against a copy of three bytes some fit, some are cut between
characters and some within one.

The other bounds, by their constants. `MaxWrites` = 3 and `MaxOpens` = 3: a file
made by one call, rewritten by a second and renamed by a third, with two names;
an open, an overlapping one, and one after a restart. `MaxBrought` = 2: the source
of the second shader between the source and the compilation of the first; lives
of the process are unbounded. `Half` = 8 stands for 2^31 with songs of two and
three units, so that an offset of -2 becomes 14. `Deep` = 3: the setter, the
wrapper's frame, and a call that reuses it. `Rooms` = {8, 16, 128, 200}: shorter
than an IPv4 address, just its size, the largest that is copied, and one that is
not. `MaxSet` = 2: an option set twice, and two crossed. `MaxClock` = 4 and `Wrap`
= 8: a deadline before, at and after now, and a wait that wraps and still ends.
`MaxSymbols` = 3 and `MaxBuckets` = 3: chains of every length in either order, and
buckets that are empty.

What the bounds leave out: the table of tracked sockets is never full with two
numbers and two slots (by design, a full table drops a line of trace); the once
nesting is two deep; recursive locking two deep.

Deadlock is checked in `once`, `net`, `errno`, `touch` and `startup`. It is not in
`mutex` (two threads may block on each other's normal mutex, which is the game's
doing), in `cond` (a thread whose wakeup was lost sleeps) and in `hook` (a wild
jump ends the process).

## 6. Fairness

- `once`: weak fairness of the wrapper's own steps (the scheduler runs each thread;
  the pollers sleep 100 µs, so they do not starve the winner), and strong fairness of
  the end of an initialiser, which is to say that initialisers end. For the ends of
  the process, weak fairness of each thread inside one of the four calls: nothing in
  them waits for another thread.
- `net`: weak fairness of a thread inside a hook (real calls return; `poll` after
  eight seconds at the latest) and strong fairness of taking `g_net_hook_mutex`
  (the kernel's mutex serves its waiters). The network is not fair: a connection may
  stay pending for ever, and every hook returns all the same.
- `cond`: for the semaphores, the clock goes on, the kernel ends a wait whose time is
  up, and a thread that the kernel has answered goes on (weak fairness of `Tick`,
  `Expired` and `Returns`). Nobody is obliged to post. For the conditions
  the game's own fairness
  would have to be assumed, so the lost wakeup is stated as safety: an item nobody
  is on the way to.

Nothing else is checked under fairness.

## 7. What is proved

`tlapm` proves these for every value of the constants, under the `ASSUME`s of the
modules, which say what the code's data gives: `NoThread`/`NoFd`/`Null` are not
members of the sets, descriptors are naturals, tables have a positive size, an
image has a first segment, the lists of digests and saves are sequences, no
save is listed twice, and no button has the number of a finger.
`PthrCond` and `PthrSem` alone assume finitely many threads, because their properties
count them.
Each invariant below was checked by TLC on the instance of its run before it was
proved.

**`PthreadOnceProofs`**: `TypeCorrect`, `OnceInvariant`, `ReturnsComplete`,
`Implements`, `EndsRecorded`. That no call returns early is not inductive: one must
know what the word means while someone is inside. The invariant `OnceInv` has three
parts: `WordMeaning` (the word is 1 exactly while a thread is inside its
initialiser), `OneInside` (one thread at most), `ReturnedMeansDone`. The refinement
theorem maps each action to a step of the contract or a stutter, by the same
invariant. For the ends of the process (`ProcessEnd`) it is `RecordKept`: from the
moment a thread goes on to `kill_soloader`, and not only at the exit, there is a
record in the file or somebody about to write one, unless the card refused one. Two
threads that open the file one after the other empty it, which is why "somebody" is
needed.

**`PthrMutexProofs`**: `MutexTyped`, `MutexExcludes`, `MutexAgrees`,
`MutexPointers`, `MutexTable` about `PthrMutex`; `Heals`, `TableInOneStep`,
`RwLockServes`, `AttrsHold` about what goes with it. None of the first five is
inductive. The invariant `MutexInv` is `Common` (a thread that is inside a call has
an object of its own business, blocks belong to one object or one creator) and
`Tracked`, which puts an object the wrapper did not lose in one of five phases:
before use, as initialised by the game, being made by one thread (step by step:
block taken, word written, real mutex initialised), known, and being destroyed. Each
phase says what the word, the block behind it, the table's entries and the depths of
all threads are. The theorems read off it. The length of the proof is in the two
ways an object changes phase while other threads look at it: between a look-up and a
creation, and between `forgetObject` and the real destroy.

In the same module, `Heals` about the table's lock. It compares the table with the
answers the game was given (`known`), through the race and after it: nothing is in the
table that was not answered for, and nothing that was is missing but an address whose
last change had another change between its search and its write (`overlapped`). A
lost entry stays lost, in the model as in the code, until it is remembered again. In
`LockInv`, no address is in two entries (`Distinct`), no two threads change the same
one (`Apart`), and what is to be remembered is not there yet (`Pending`). `Records`
follows a change from its search to its answer: two changes that meet are both marked
(`Met`); what a write puts out is its own address or a marked one (`Found`); what a
forgetting looked for and is there was found (`Sought`) and is gone after the write
(`Gone`); what a remembering wrote is there or marked (`Lasting`); hence what is there
was or will be answered for (`OnTable`), and what was answered for is there, marked, or
being changed (`Answered`). Once `healed`, nobody makes the lock again and whoever is
inside owns it (`Settled`), so that no two changes meet and nothing more is marked.

`RwLockServes` needs that nobody else than its users was told to hold the lock.
`AttrsHold` is about any number of attributes that share a heap: where a marker can be
believed, the pointer beside it is to a block in use, and to no other's (`Backed`); a
marker in an object that was forgotten with both words still is with its block, and in
clean memory the block says what was asked (`Lives`). The one excepted case,
a pointer overwritten under its marker, is what may give a real function a pointer to
nothing (`OnlyTorn`); it is not assumed away.

`TableInOneStep` justifies how `PthrMutex` looks at the table. `OneStep` is
`PthrMutex` over the table of `TableLock`; once healed, each write of `TableLock` is
a whole `rememberObject` or `forgetObject` of it, nothing else changes the table,
and what the search finds for `isObjectInitialized` is the answer of it
(`StepsAsOne`). It rests on `FoundHolds`: under the lock, the entry that was found
is still the first of its kind when it is written. While the lock may still be made
a second time nothing promises this, which is why `PthrMutex` is about a program
whose first calls have not met in `PTHR_LOCK`.

**`PthrCondProofs`**: `TypeCorrect`, `InsideOwnsInvariant`, `NeverRaces`,
`WakeupsNeverLost`, `SemUnits`, `ClocksHold`. If every call on a condition is made
with its mutex held, then two threads are never both between looking the object up
and remembering it, so there is one real condition. `DisciplinedNeverRaces` alone
says nothing of how the threads got there; the strengthening `InsideOwns` says that
a thread inside the wrapper, called with the mutex held, still owns that mutex.

`WakeupsNeverLost` is about every game, disciplined or not, as long as the wrapper
kept one real condition. Its invariant `WakeInv` follows each item of the queue to
a thread. `ItemsClaimed` is the count: items are at most the notifications owed
and the threads awake to take one. It is kept because a wait starts over an empty
queue and holds the mutex until the real wait gives it up (`WaitsHold`), because
whoever sleeps is entered with the one condition that the word points to
(`OneReal`), so that a signal takes a sleeper from the set it was sent to and puts
it among those awake, and because a sleeper is entered once (`SleepersSleep`).
`Phases` says which calls may be where in the object's life. The steps of the lazy
making leave all of that alone; `OneReal` names what they may change.

A semaphore's `NothingLost` compares the kernel's count with the answers the game
got. It is kept because a unit that the kernel has given is in the hands of a call
that has not returned (`UnitsAgree` counts those, which needs finitely many
threads), and no call that returned still has one (`NoneGot`); that every stage of
`sem_timedwait` which got a unit goes on to answer 0 is the work of the proof. A
clock only keeps time if every answer came from one source (`Came`), which no single
answer shows, and if the times shown have been; a wall clock the user set is the one
exception.

**`NetSocketsProofs`**: `TypeCorrect`, `Serialized`, `ModeTransient`,
`AnswerSettled`, `NeverStale`, `NamesAlwaysTranslated`, `WritesAreStarts`.
`HooksSerialized` is inductive as it stands because it says who holds the mutex.
The type of the table depends on which descriptor a hook uses (`Typed`). The answer
of connect needs two strengthenings: `Ownership` (a descriptor in use by a hook
belongs to that thread, and free numbers belong to nobody: otherwise another
thread could change the connection under it) and `Settled` (the answer holds from
the last question on, not only at the return). That the table is never stale needs
`Table`: a descriptor is marked at most once (else one removal would not remove
it), sockets only are marked, and, the point of the order in `close_soloader`, a
number between the untracking and the real close is not marked, and one between
`socket()` and the tracking is not yet. What `gdash_net_track_fd` does to the table
is stated once, in `TrackEffect` and `UntrackEffect`; that the first slot of a set
exists (`FirstExists`) is the well-foundedness of `<` on the naturals.

For the translations, the properties relate what one side gave to what the other
got, so the invariant is theirs with the whole type of each address (`NamesTyped`).
An option arrives because the code's table sends the game's number of each name to
the console's number of the same name, and no two names to one; a flag, because each
case of `msg_flags_bionic_to_vita` does the same, for every set of flags. For
addresses, the work is in what a conversion does to the two bytes it rewrites, for
any room (`ConversionsTyped`, `NativeConverts`). For the gathering write, that the
wire holds a start of what was given is not inductive: `WriterInv` adds where the
call is, that all of the pieces before that one are on the wire and none of it or
behind it, and that the running total is the number of units that are. A write may
be interleaved with others' at any unit; the invariant is per writer, over the
positions of the wire that are its own (`Mine`).

**`FileBridgeProofs`**: `ErrnoHolds`, `FilesHold`, `SeedsAlwaysFresh`,
`ObjectsAlwaysServed`. The errno bridge needs `EntriesKept`: an entry nobody stored
into is as the table was made, so that the entry of a thread's own error still
translates it. The files need `CardAsMeant`: what each name holds on the card is
what the same calls leave on Android, and the songs of the game stay there, which
lies in the fact that all translations send both spellings of a name to one path
(`PathsMeet`). The seed needs three: `Alone` (an open that is not excused is the
only one), `PoolFresh` (from the making of a pool to its reading, in the buffer and
then in the file, it is one that nobody drew) and `DrawnOnce`. An open that the card
failed, by refusing the seed file or by cutting its write off, is excused: it reads
nothing, or what is left. A restart drops the pools that threads have in their
buffers and leaves the file; the next open makes a pool of its own before it reads.

`ObjectsAlwaysServed`, about the import table, for any number of objects and any calls
of the game, in both builds. Each kind of object but the streams has one owner
(`Owned`); `SectionsKeepOwners` goes through the 25 sections: no row takes or gives an
object of a library other than its owner's, with the three exceptions the property
names. That an object can be ended is about what an import is *bound* to, the first
row of its name: `EndersAtHome` shows that no section in front of the one an ending
call is meant from has a row of that name, so that nothing shadows it (`Firsts`).
The invariant is then the type of an object, `Things`: its maker is its kind's owner,
or one of the two C libraries.

**`FrameLoopProofs`**: `PointersHold`, `PointersAlwaysPaired`,
`PointersAlwaysFresh`, `FieldAlwaysConfirmed`, `GraphicsHold`, `MusicHolds`.
`PointersInv` says at each point of the loop, also between two buttons of a frame,
what the game believes of each pointer: of a button what `pad` says if it was looked
at in this frame and what `oldpad` says if not (`ButtonsHeld`); of a finger whether
its slot has a last place, and where it is once its slot was looked at
(`SlotsHeld`). The loop looks at pointers in order, so that "looked at" is a
comparison with the first that is left (`FirstButton`). A keyboard inside the frame
changes what the panel reports and nothing of this.

`FieldAlwaysConfirmed`: the keyboard's own invariant (`KeyboardInv`) is plain; the
work is in the two conversions, which are recursive functions over a text's
positions. That such a function exists at all is `Pieces`; what holds behind a
position passes to it by `FromTheEnd`, an induction from a text's end that is no
more than the least counterexample of `WFMin`, so that it needs no operator
parameter. On these rest the types of both conversions (`Encoded`, `ShownUnits`:
what is shown of a text cut anywhere is made of units, or the conversion ran past
the end) and `RoundTrip`: from the first byte of every character on, encoding what
was decoded gives back the bytes. `CharacterKept` is the step, with its arithmetic
in `ThreeKept` and `TwoKept`. That a field holds UTF-8 is `ContentsAssumption`,
about the game. `DeletedWhole` counts: as many deletions as bytes leave nothing,
because there are no more first bytes than bytes.

`GraphicsHold`: the two globals of the shader cache are about the shader that was
brought last, and the game's habit (one source, one compilation) leaves at most one
pending: `OneAtATime` says that there is at most one, that the globals are its own
(`Ready`), and that what is being written is what was compiled. Nothing looks at
`fwrite` or at what a read returns, so a full card or a restart leaves half a binary,
which every later life gives to the shaders of that source. `torn` has the files this
happened to and `spoiled` the shaders brought from one (or from a short read): the
theorem is that they are the only ones that run something else, and that the files of
all other sources hold their own. `MusicHolds` needs `SongsOpenAtOnce`: no
song is ever in the state in which `playSound` refuses it; that the songs and the
game's own sounds are different files is an assumption (`LengthAssumption`).

**`HookTrampolineProofs`**: `HookLasts`, `SerialCallsAreClean`. When nobody is
inside, the hook is there; while somebody is, a word may be anything. The invariant
that carries the first through every overlap is `Owed`: a word that is not the
jump's is owed by a thread that has yet to write it, and one the cache has not
got, by a thread that has yet to flush. `Nesting` says that only calls which
reached the jump owe anything. For calls that come one after the other, `Alone` says
line by line of `SO_CONTINUE` what memory and cache hold; `Headless`, that a
function at 0 mod 4 has no halfword to skip.

**`StartupProofs`**: `LoadHolds`, `LoaderFreesBlocks`, `LoaderPlacesImage`,
`LoaderReadiesWords`, `StartKeepsImage`, `TlsAlwaysStarts`, `StartKeepsSaves`,
`SymbolsAreFound`. The
loader's invariant `LoadInv` is by line of the code: `LiveWhere` (which blocks are
held where, so that each label frees blocks that are), `WholeOrNegative` (a regular
image is whole or the answer is negative), `TextThenData` and `Layout` (each block
begins where the one before ends, on a page, which is what keeps all segments at
one distance from their addresses), `WordsWhere` (what a relocated word holds
before, between and after the two passes). `StartKeepsImage` shows that
`MainStartup`'s behaviours are behaviours of `SoLoader`, step by step, so the three
theorems hold of the composition. `TlsStarts` needs that the checks are NOPs from
the moment main has patched them. `StartKeepsSaves` says what the loop over the saves
costs: it opens for writing whatever it could not open for reading, so a save that is
there and unreadable is emptied, and no other is. `SavesWhere` says it per turn of the
loop (no turn touches a file of another one, since the names are distinct: `SavePlaces`)
and that a file behind the loop is there, or could not be made.

`SymbolsAreFound`: the invariant is the property with the shape of what the linker
wrote (`IsImage`, `HashTable`); all the work is in one lookup. `so_hash` has to be
the linker's hash, though it computes in 64 bits and cuts what carries out of the
top with its mask, where the linker's loses it and takes the folded nibble away:
`StepsAgree` shows that a step of each leaves the same word (`FoldIn`, `FoldAbove`,
`FoldBelow`), and `HashesAgree` takes that along a name with `FromTheStart`, the
induction that `WFMin` gives. `Words` says where in the section each bucket and each
chain is. The walk of the chain is a recursive function with a budget of turns:
`ChainReaches` says that no symbol of a bucket lies between one and the next of its
chain, and `WalkFinds` that the walk from the bucket's head ends within its turns at
a symbol that defines the name or, none doing so, at the chain's end: the rank of
the place it is at grows with every turn, in either order of the chain. `ScanFinds`
is the same of the linear search of an image without `.hash`.

Only model-checked:

- liveness (`EveryCallReturns`, `EveryHookReturns`, `AbortEnds`,
  `LimitedWaitsEnd`), which needs ENABLED, out of reach of tlapm's backends;
- what a recursive function computes for a given input, where no theorem needs it: the
  provers know of the two hashes and of the two conversions of text only what is shown
  of one step, carried along a name or a text.

## 8. What the code does that its comments do not say

Four disagreements, each a run that TLC finds violated:

1. `connect_traced` ends with `SO_NONBLOCK = 0` whatever the mode was before
   (`ConnectKeepsMode`). A caller that used `fcntl(O_NONBLOCK)` before
   `connect` has a blocking socket after.
2. `__errno_soloader` hands out the address of the shared translation table
   (`ReadsTranslation`). The first `errno = 0` makes error 0 of whatever the
   thread's last error was, for all threads, for good.
3. `sigsetjmp_soloader` calls `setjmp` in a frame of its own and returns from it
   (`JumpReturns`). `siglongjmp` resumes in that frame, whose return address has
   been overwritten by whatever was called since.
4. `__gnu_Unwind_Find_exidx_soloader` reads the program headers through a pointer
   into the copy of the file, which the loader has freed (`UnwindReadsImage`).

Smaller ones, without a run:

- `gdash_net_track_fd` compares the entries, which hold `fd + 1`, with `fd`: a
  socket just above a tracked one is never traced.
- `hook_thumb` saves the window after it wrote the leading NOP, so that
  `SO_CONTINUE` runs an original at 2 mod 4 without its first halfword.
  `CallsAreClean` excepts such functions.
- `openIMEKeyboard` deletes the field's text on a cancel too, where its comment
  speaks of replacing it "on confirmation" (`CancelInsertsNothing` says the part
  that holds). Beyond U+FFFF the two conversions do not undo each other, which
  `UneditedIsKept` excepts.
- The two branches of the TLS start-up are overwritten after the constructors have
  run, where `main.c:714` says "before any code runs", and the cache is not flushed
  after it (`DiesOnlyOfStaleCode` names the consequence).
- The loop of `main.c:671-678` opens a save for writing after any failed open for
  reading, where its comment and its log speak of a file that "doesn't exist": a save
  that the card refuses to read once is emptied. `SavesKept` excepts exactly that.
- `eglChooseConfig` without `num_config` returns `EGL_BAD_PARAMETER`, which is not zero
  and reads as a yes, and writes nothing (`glutil.c:356-358`).
- The traces that main of a traced build hooks in after the loader's flush
  (`main.c:763-782`, 924) are not followed by a flush of their own.
- The hook that finds digests by name is installed in a traced build only, though
  traces are said to be diagnostics.
- `falso_jni_impl.c:28` says that a native Vita path is returned; it is the
  Android one, which `translate_path` turns.

The wrapper of `pthr.c` is in addition known to lose an object, in the ways
`broken` and `lost` list: two first users at once; memory used again without a
destroy; a full table; a real initialisation that fails; an `init` without
attribute on memory that holds an initialiser's value. None is documented as
impossible, so they are the conditions of the properties rather than findings.

## 9. Limits

What the models abstract:

- Sequential consistency: the loads and stores of the once word and of the tables
  are atomic steps in program order. The once word is accessed with `__atomic`
  operations or under a lock in the code; `real_ptr` is not, and is treated so.
- Memory: `malloc` does not fail in `PthrMutex` and `PthrCond` except by having no
  block left, which ends the path. A path is never longer than the 512 bytes of the
  buffers it is translated in.
- Builds: `USE_SCELIBC_IO` is on and `USE_CG_SHADERS` and `GDASH_TRACE` are off by
  default. Where they matter (`ImportTable`, `Graphics`, `MainStartup`,
  `ProcessEnd`) both are followed.
- `SoLoader`: with data before the text, or more data segments than
  `MAX_DATA_SEG`, the program goes on with nothing loaded; `GoesOnLoaded` is about
  images of the game's shape. The addend of an ABS32 import is lost, which
  `ConstructorsReady` excepts. The patch arena and earlier
  data blocks remain allocated when loading fails.
- `TableLock`: the threads that slept on a replaced lock may sleep for ever, and an
  address whose change met another one may be lost from the table, for good if nobody
  remembers it again. `PthrMutex` is about
  a program in which that has not happened.
- `FileBridge`: opens of `/dev/urandom` that overlap may read the same bytes, or
  none; so may one whose seed file the card did not take.
- `Graphics`: a file that was cut off is not written again as long as it opens, in any
  life. The EGL queries are not modelled, nor are the stubs of `proc_stubs.c` that
  only answer.
- `Music`: fade points, volume, pitch and delays are left out: nothing the wrappers
  decide depends on them.

Known places nothing here is about:

- `accept`, `recvfrom`, `getsockname` and `getpeername` convert as many bytes as the
  stack says the address has, not as many as the game's buffer has room for.
- `getsockopt(SO_ERROR)` hands the game newlib's number; the traced transfers do not
  save `errno` around their traces.
- `lstat`, `truncate`, `realpath`, `freopen`, `gzopen` translate no path; `readdir`
  returns newlib's entry, unlike `readdir_r`.
- `mmap` is `malloc` whatever file it is given, and `munmap` of a part frees a pointer
  `malloc` never returned; `sem_getvalue(NULL)` and a `stat` without a buffer
  allocate and forget.
- `glShaderSource` is rewritten by its second piece, whatever the number of pieces.
- A hook of a symbol that does not exist is uninitialised (and never called).
- The panel's own finger identifiers are read nowhere, so that lifting the first of
  two fingers renames the second cannot be stated.
- The room of the keyboard's UTF-8 buffer, and a dialog the system refuses to open
  (the loop would poll for ever).
- `LOG_LOCK` is the macro of `pthr.c` again, in debug builds.

Not modelled: the plain transfer calls of the socket hooks (they forward and log),
`so_resolve_link` of a single module, the LDM trampolines and
`so_resolve_with_dummy` (never called), drawing, the logger and the settings file,
the field-by-field copies of `stat` and `dirent`, the character class table, the
JNI method tables (data matched by name), the diagnostics of `openssl_patch.c`,
and vendored code.

## 10. Plan

Done, in this order: once, sockets, mutexes, errno, hooks, touch, conditions, the
loader, the keyboard; then semaphores, attributes, rwlocks and the table's lock;
files and the seed; the translations of the network and the clocks; main's
start-up and the symbol search; graphics and music; the ends of the process; the
import table; the proofs of the mutex bridge, of its table's lock, of the
semaphores, of attributes and rwlocks, and of errno, clocks and music; then the
proofs of the hooks, of the loader and main's start-up, of the pointers, of the
shader cache, of the keyboard with both its conversions, of the ends of the
process, of the seed and the files, of the wakeups, and of what the network calls
translate; at last the proofs of the symbol search at any width of its hash, of the
import table, and of the table's lock as one step of the mutex bridge. Every invariant
the runs check is a theorem. Left: the transfer calls with their trace files, where a
traced build may change `errno` between the call and the game's look at it.
