# Heaptrack: formal models

Heaptrack records every allocation of a running program, turns the recorded
instruction addresses into symbols and analyses the result. This directory holds
TLA+ models of that pipeline, the TLC configurations that check them on small
instances, and TLAPS proofs of the results that hold for every instance.

    launcher            starts and ends everything below
    traced process                                   heaptrack                analysis
    hooks -> libheaptrack -> LineWriter -> pipe -> heaptrack_interpret -> file -> AccumulatedTraceData
    (preload, inject,  (lock, timer,   (buffer)    (ids, modules, symbols,    (heaptrack_print, GUI parser,
     interpose)         trace tree)                 pointer map)               peak tracker, diff, trees)

Sections: 1 inventory, 2 the modules and the code, 3 what the runs show, 4 what
is proved, 5 assumptions and abstractions, 6 what is not modelled, 7 what comes
next. To repeat a check, in this directory:

    tlc -workers 2 -config HeapTrack_session.cfg HeapTrack
    tlapm HeapTrackProofs.tla

`PROJECT.json` has every run with its properties, the source lines of every
definition ("map"), the hazards with the properties that watch them, and for
each property a plausible bug ("mutants") that breaks it. A definition whose
comment calls it a mutation is such a bug; nothing but its mutant uses it.

## 1. Inventory

Sources are under `src/src/`; the names are those of "components" in PROJECT.json.

| component | source | state | operations | interacts through |
|---|---|---|---|---|
| launcher | `track/heaptrack.sh.cmake` | runtime directory, FIFOs, background pids, trap | start, debug, attach, wait, cleanup | processes and signals |
| recorder lifecycle and lock | `track/libheaptrack.cpp` | lock, `s_data`, flags, timer thread, recursion guard | init, stop, pause, malloc/free/realloc, module invalidation, fork and exit handlers | called by hooks, debugger, `exit()`, `fork()`; writes lines |
| allocator hooks | `track/heaptrack_preload.cpp`, `heaptrack_inject.cpp`, `heaptrack_interpose.cpp` | resolved originals, patched symbol tables, tracking flags | malloc/free/realloc/dlopen wrappers, initialisation, patching and restoring | call the allocator and `heaptrack_*` |
| Mach-O module cache | `track/machmodulecache.cpp` | fixed table of images | `addImage`, `removeImage`, `forEach` | dyld callbacks, recorder |
| unwinding | `track/trace*.{h,cpp}` | none kept | `Trace::fill` | called by the recorder |
| trace tree | `track/tracetree.h` | tree of instruction pointers, running index | `index` | called under the recorder's lock; emits `t` lines |
| line writer | `util/linewriter.h` | buffer, fill, descriptor | `write`, `writeHexLine`, `flush`, `close` | file or pipe |
| API for custom allocators | `track/heaptrack_api.h` | none | macros | call the recorder |
| interpreter | `interpret/heaptrack_interpret.cpp` | interned strings, ip ids, modules, last pointer | one handler per input line | raw stream in, data file out |
| symbolication | `interpret/dwarfdiecache.cpp`, `symbolcache.cpp`, `demangler.cpp`, `machsymbolizer.cpp` | symbols, trees of debugging information, names | look-ups | called by the interpreter |
| pointer map | `util/pointermap.h` | pages of sorted addresses, infos beside them; set of infos | add, take; add | called by the interpreter |
| trace data reader | `analyze/accumulatedtracedata.cpp` | strings, ips, traces, allocations, infos, totals | one handler per line, passes, reparse, suppressions | file in; used by text output and GUI |
| peak tracker | `analyze/peaktracker.h` | two snippets of allocation events | `recordEvent`, `finalize`, `peakAllocations` | driven by the reader |
| leak suppressions | `analyze/suppressions.cpp` | patterns | parse, match | used by the reader |
| comparison of files | `accumulatedtracedata.cpp`, `diff` | sorted allocations of one file | search, subtract, insert | two readers |
| GUI parser | `analyze/gui/parser.cpp` | shared `m_data`, jobs, counters, chart rows | `parse`, `reparse`, `parseImpl` | background jobs, Qt signals |
| call trees and caller/callee table | `parser.cpp` | bottom-up and top-down tree, table | merge, build | results of the jobs |
| flame graph | `gui/flamegraph.cpp` | items, history, settings, jobs | build items, search, navigate | jobs, widgets |
| GUI main window | `gui/mainwindow.cpp` | page, enabled actions, last filter, selection | load, reparse, close, slots | signals of the parser |
| GUI models and widgets | `gui/*` | views of the result | Qt model interface | signals and slots |
| text output | `analyze/print/heaptrack_print.cpp` | merged allocations, histogram, massif state, options | filter, merge, print, massif | trace data reader |
| line reader | `util/linereader.h` | current line | parse numbers | interpreter, reader |
| build, tests, tools, third party | CMake files, `tests/`, `tools/` | | | |

What is hard in it. The recorder runs inside a foreign program, in its threads,
its debugger's calls, its `fork()` and its `exit()`, re-entered by its own
allocations. Its hooks are put into modules that the program loads and unloads
meanwhile. The order of the records decides what an address means, and other
threads reuse addresses at once. The streams are differential: whoever writes a
line and whoever reads it count up separately and must agree. Several passes over
one file must arrive at the same totals. The GUI hands one data structure from job
to job while the user goes on clicking, and graphs come back in any order. Trees and
tables are derived from each other, with recursion, inlined frames and, in
comparisons, negative costs. A shell script has to end four processes in an order
that loses nothing, with traps that run between any two commands.

What makes each component correct:

* launcher: exit status 0 means a complete file, nothing is left behind, it ends;
* recorder: sessions are complete (header first, every callback paired, closed
  once), nothing freed is used, every holder releases the lock, a child writes
  nothing into the parent's file;
* hooks: between a `+` and the matching `-` of an address no other `+` of that
  address is recorded; when nothing is in flight the stream's live set is the heap;
  every loaded module leads to the hooks while heaptrack records and none after;
* module cache: a list that counts as current is that of the loaded images;
* unwinding, trace tree and writer: the id of a trace on a `+` line is the number of
  the `t` line that describes it, and it has the callers that fit; a line lost by a
  failing output does no harm to others;
* interpreter, symbolication: ids on its output refer to lines already written; the
  functions of an address are those the debugging information has there, whatever
  was looked up before; the pointer map behaves like a map;
* reader: the costs are those of the lines within the filter, in every pass; the
  costs at the peak are those of the moment of the highest total; histogram and
  charts have the costs of the same lines;
* GUI: a result shown belongs to the last request, and every request ends;
* results: tree, table, flame graph, text output and massif file, computed along
  different ways, agree with the backtraces and with each other.

## 2. The modules and the code

Groups of modules, each a state machine with its own runs:

    Launcher                       the script and its processes
    Recorder <- Inject, Preload, MachModuleCache <- Interpose
                                   <- Interception     getting the calls of a program
    HeapTrack                      the recorder's life (threads, lock, sessions)
    AllocStream                    allocator + hooks + order of the lines
    Unwind     <- TraceWriter \
    RawStream  <- TraceWriter  \
    RawStream  <- Interpreter   >- Pipeline      backtraces through both streams
    Symbolizer <- Interpreter  /
    PointerMap <- Interpreter /
    PeakTracker <- TraceData (=> PeakSnapshot) <- ParserData <- PrinterData <- Readers
                                   analysis of the data file by GUI and text output
    Parser <- MainWindow           requests and jobs of the GUI
    FlameGraph                     jobs, scene and history of the flame graph
    TraceDiff <- CallTrees, Printer <- Results   what is computed from the allocations

An arrow is an EXTENDS, or for PeakTracker and PeakSnapshot an INSTANCE. The
interfaces between the groups are checked where one meets the other: what `TraceData`
assumes of its file is the invariant `FileForTraceData` of `Pipeline`, what `Parser`
calls a result is what `Readers` and `Results` compute, what `Recorder` has of the
recorder is the lock and the flags of `HeapTrack`.

**Launcher** (`heaptrack.sh.cmake`). `pc` is the next command of the script, with an
action for every command or test that matters; `sh` has its variables and the trap
that is installed. `HandleSignal` runs a trap between two commands or in the
middle of a `wait` and goes on where the shell was, as bash does. The application
(`Load`, `OpenData`, `Write`, `ApplicationEnds`), the interpreter and the compressor
are processes of their own that meet in the FIFOs; opening one blocks until the
other side is there.

**Recorder, Preload, Inject, MachModuleCache, Interpose, Interception**. `Recorder`
is the recorder as its libraries see it. `Preload` is the look-up of the wrapped
functions: `todo` is the stack of what a thread still has to do, because `dlsym`
allocates through the wrappers while it looks a function up; `pool` is the memory
`calloc` hands out meanwhile. `Inject` has the relocation tables: a module is
loaded with a number of symbols, `hooked` says which lead to a hook,
`symtabCache` is `cachedSymtabSize`, filled once for each path. `MachModuleCache` is
the table with its mutex, `Interpose` the start and stop around it. A run of
`Interception` is a process with one of the three libraries.

**HeapTrack** (`libheaptrack.cpp`). `lock` is the static lock of `HeapTrack::op`,
taken by spinning on `try_lock`: `TryLock`, or `GiveUp` when the stop check sees
`s_forceCleanup`. `guard`/`wasLocked` are `RecursionGuard`; `Record` may happen
from the application or inside an operation, where the guard has to turn it
away. `heaptrack_init` is `InitEnter`, then `InitAlready`, `InitFails` or
`InitOpens` and `InitHeader`, apart because the timer thread starts between them.
`heaptrack_stop` is `StopEnter`, `StopMark`, `ShutdownNothing` or
`ShutdownClose`, then `ShutdownLeak` or `ShutdownDelete`, `JoinTimer` and
`FreeData`: one step between any two accesses to a variable that is read without
the lock. `Timer*` is the timer thread, `Exit`, `AtExit`, `ProcessExit` is
`exit()` with the registered handler, `Fork*` are the atfork handlers
(`ForkParent` goes on in the parent, `ForkChild` in the child, whose lock is an
orphan if another thread held it). `listed` is a history of the streams whose
module list is up to date, `writers` of who wrote to each stream.

**AllocStream** (hooks of the three libraries). Each hook is two steps, the call
of the allocator and the recording, in the order of the code: allocation first
and `+` after it, `-` first and release after it, realloc inside the recorder's
lock (`heaptrack_realloc_locked`) or before it (`heaptrack_inject.cpp`).
`allocated` is the allocator's view, `held` the application's, `live` what a
reader of the stream believes. `before` is memory that was handed out before
tracking began.

**Unwind, RawStream, TraceWriter, Symbolizer, Interpreter, PointerMap, Pipeline**.
`Unwind` is `Trace::fill` for the four ways to unwind; a build has one, `unwinder`.
`TraceWriter` is `handleMalloc`: module list if dirty, one step for each frame walked
in `TraceTree::index` (`Descend` or `Insert`, whose `t` line may fail), the `+`
line; and `handleFree`. `Written` and `Failed` are `LineWriter::write` with its
buffer; a flush can fail or be short. `Interpreter` has an action for each line:
`ReadModules` (m), `ReadTrace` (t, with interning and resolution), `ReadAllocation`
(+), `ReadFree`/`SkipFree` (-). For a new address `AddIp` asks `Symbolizer`:
`FindSymbol` in the sorted symbols of the module, `FindInlineScopes` in its tree of
debugging information, `PrependScopeNames` for the qualified name, with the cache
that outlives the look-up. `PointerMap` is the paged map. `Pipeline` joins
them by the raw stream, and rebuilds from the data file what
`AccumulatedTraceData::read` would: strings, ips, traces without `operator new`.

**PeakTracker, TraceData, PeakSnapshot**. `TraceData` reads one line a step
(`ReadInfo`, `ReadAllocation`, `ReadDeallocation`, `SkipEvent`, `ReadTimeStamp`),
in passes: `Parse`, `EndFirstPass`, `ApplyLeakSuppressions`, `StartSecondPass`,
`EndSecondPass`, `Reparse`, as `Parser::parseImpl` drives them. The file is
chosen while the first pass reads it and fixed from then on. `PeakSnapshot` is the
abstract specification, a copy of all leaks at every new peak; `TraceData`
refines it (`ImplementsSnapshot`) during the first pass over a new file.

**ParserData, PrinterData, Readers**. The two subclasses of `AccumulatedTraceData`.
`ParserData` adds to each line what `handleAllocation` and `handleTimeStamp` of the
GUI do: counters of infos, sorted for the histogram (`BuildSizeHistogram`) and
back for a reparse (`ClearForReparse`), and the rows of the charts, sampled in the
second pass; `TotalCostAt` is what a chart tells about a time. `PrinterData` is
`main()` of `heaptrack_print` with the massif snapshots written while the file is
read. `Readers` chooses the program.

**Parser, MainWindow**. A job goes through the stages queued, read, merge,
histogram (not for a comparison), parallel (views in any order), finishing, ended;
`SetData` is delivered to the GUI thread as a queued call like all its signals.
`parseImpl` moves `m_data` into the job. `MainWindow` has the pages, the actions
enabled on them, the user's `LoadFile`, `Reparse` and `CloseFile`, the selection on
the charts with its menu, and the slots. `overtaken` records that File > Open was used
while a job ran; the properties that say so hold only until then.

**FlameGraph** (`gui/flamegraph.cpp`). A graph is the request it was computed for;
jobs end in any order and queue their graph. `SetData` deletes the scene, which
the history, the root and the tooltip point into. The user changes settings, clicks,
hovers, goes back and forth and hides the tab.

**TraceDiff, CallTrees, Printer, Results**. `TraceDiff` is `diff()` with its
sorted vectors, `lower_bound` and `copyTrace`. `CallTrees` has `mergeAllocations`
(bottom-up tree and source map), `buildTopDown`, `buildCallerCallee`, the items of
the flame graph and its search. `Printer` is filtering, merging by place, the sorted
lists with their limits, the stacks for flamegraph.pl and the massif tree of
`heaptrack_print`. `Results` composes them in the order of the jobs:
`DiffBase`, `BuildBottomUp`, then `BuildTopDown` and `BuildCallerCallee` in any
order, then one view; or a massif tree, descended along any path.

## 3. What the runs show

| run | states | question |
|---|---|---|
| `launcher` | 344 265 | exit status 0 means a complete file, nothing stays behind, the script ends |
| `interception` | 317 037 | hooks are where they should be, in every module and at every start |
| `session` | 539 905 | sessions of the recorder are complete, the lock is always given back |
| `hooks` | 16 623 | when the stream describes the heap |
| `rebuild` | 1 060 478 | backtraces, functions and modules are found again |
| `analysis` | 1 174 486 | costs, suppressions, peak, histograms and timelines of a file, over any number of reparses |
| `reparse_peaks` | violation | peaks add up after a reparse |
| `reparse_histogram` | violation | counters keep their infos over a reparse |
| `requests` | 971 742 | requests of the GUI do not mix and all end |
| `ignored_reparse` | violation | the loading page goes away |
| `flame_graph` | 213 892 | navigation stays in the scene, the graph shown was asked for last |
| `trees` | 273 098 | all results agree |

**launcher** (`MCLauncher`). Every command line on both platforms, with a recorder
that is loaded or not and a gdb that is there or not; one application that writes
up to three records, two polls of the ready file, two signals, one background process
that fails. Two signals let the second trap interrupt what the first has left;
three records can be in the two pipes and the file at once.

**interception** (`Interception`). Two threads, one of which starts and stops
heaptrack. Injected: two plugins, each in two builds with different symbol
tables, three calls of `heaptrack_init`, so that a module can be met by a first
session, rebuilt, and met by a second. Preloaded: one optional function that comes
with a library loaded later, a pool of two. On macOS: two addresses, two readable
images and one that is not, a table with one entry, so that it is full.

**session** (`HeapTrack`, FairSpec). Two threads, one of which calls
`heaptrack_init` and `heaptrack_stop`, two sessions, pausing, `exit()` and `fork()`
in any thread, followed on both sides. Two sessions are what it takes for a stale
timer thread or flag of the first to meet the second, and for a child to open its
own. `SessionsTornDown` and `ModuleListCurrent` are statements about one controller:
with two, `heaptrack_init` can clear `s_forceCleanup` before a concurrent
`heaptrack_stop` sets it, and the new session then skips operations.
`LockReleased` is the join of the timer thread under the lock; `StopReleasesWaiters`
the stop check.

**hooks** (`MCAllocStream`). Three threads and three addresses, every subset of
which may be allocated before tracking begins, and all four setups (realloc
under the lock or not, `realloc(p, 0)` or not). An address has to move from one
thread to a second while a third is in a hook for the confusions that matter, so
smaller instances miss some. `StreamIsFaithful` and `LeaksReported` are about a
locked realloc, `OnlyLeaksReported` is what is left for the other.

**rebuild** (`MCPipeline`). Three events out of allocations on two stacks (recursion
between a plugin and the application that is deeper than a trace; `operator new`
called by the last instruction of a module, with a null pointer in the middle),
releases and module changes; four unwinders, two layouts, the second with another
plugin at the same place; three addresses on two pages, a buffer of two lines and one
failure of the output at any moment. The debugging information has inlined
functions in blocks and in each other, functions of a class declared elsewhere, a
class defined outside of its namespace, symbols with the same offset and without a
size. `TracesRebuilt` is about a healthy output; `EventsFollowed` and
`FileForTraceData` hold with the failure, too.

**analysis** (`MCTraceData`). All files of up to six lines over two traces, two
sizes, two time stamps, snippets of two events, and three filters with different
suppressions for any number of reparses, the first parse also with the filter of
another file; and `heaptrack_print` on the same files, with all its outputs or none.
Six lines hold two infos with their allocations and two more events:
one snippet fills, is replaced, and the second one fills. `SizesCounted` is silent
after `overrun` (a counter written outside of its vector, see below) and looks at
single rows only in the first parse. In `TipsAgree` time stamps that go backwards
or lie outside of the filter are exempt.

**requests** (`MainWindow`, FairSpec). Three requests over two files, each a load,
a comparison, a reparse with a filter from the charts, or a failure, one signal in
flight. Three are needed for a job to start with data that two others made.

**flame_graph** (`FlameGraph`). Data that comes and is cleared three times, two graphs
at once for two settings, a root and one more item, a history of three. Three times
data lets a graph of the first come after the second is gone and the third there.

**trees** (`MCResults`). Files with up to three of nine backtraces in every order
(main called by start-up code, recursion, inlined frames, one function at two
addresses and two lines, a thread without main, an unresolved frame, no frame),
comparisons of up to two with up to two, thresholds 0 and 70 %, the latter so that
something is cut, and print limits of one place with one backtrace, and the default.

Deadlock is not checked where the system may stop: a forked child with an orphan
lock, a closed recording, a script that has ended, a process whose look-up has
failed, a GUI whose last request is over, a shown result.

### Disagreements found

* `reparse_peaks`: on a reparse `read()` makes the `PeakTracker` before it clears
  the costs, so that the snippets start from the leaks of the previous parse.
* `reparse_histogram`: `clearForReparse` wants to restore the order of the counters
  (`parser.cpp:248`), but sorts them by allocation. Infos of one allocation keep
  another order than their indices, and are counted for each other.
* `ignored_reparse`: `MainWindow::reparse` shows the loading page, and
  `Parser::reparse` may return without doing anything.

Seen while modelling, without a run of its own. In the traced process:

* `child_fork` "cleans up itself" (`libheaptrack.cpp:769`) but leaves the lock as it
  was at `fork()`. If another thread held it, the atexit handler of the child spins
  for ever. With `AllowFork` the model reaches this state.
* The hook of `heaptrack_inject.cpp:145` calls realloc before it takes the recorder's
  lock; another thread can get the old address and record it first. The preload
  library avoids this, and `tst_libheaptrack.cpp:116` tests it for
  `heaptrack_realloc_locked`. `StreamIsFaithful` excludes this setup.
* `realloc(p, 0)` that releases `p` leaves it live in the stream
  (`libheaptrack.cpp:1088`): `StreamIsFaithful` excludes it, `LeaksReported` does not.
* With two threads that call `heaptrack_init` and `heaptrack_stop`, see `session`.
* An optional function that a library brings along later (`mi_malloc`) makes the
  preload library look everything up again, and other threads' `calloc` goes to the
  pool meanwhile (`heaptrack_preload.cpp:132`); only `free` knows memory of the pool.
  `CallsResolved` excludes late functions.
* A `dlopen` that overlaps `heaptrack_stop` patches its module after the stop;
  `StopRestores` is about the moment of the stop.
* With unwind tables a trace has one frame less than `MAX_SIZE`.
* When a `t` line cannot be written its edge keeps its number, and later traces are
  rebuilt wrongly; the file stays readable (`FileForTraceData`).

In the launcher:

* The first trap does not exit (`heaptrack.sh.cmake:384`): a signal between the two
  removes the directory and the script goes on. `NothingLeftBehind` excludes it.
* A signal between a `&` and the assignment of `background_pids` leaves that process.
* ^C or TERM kills interpreter and compressor before they are drained, though
  "finished" is printed; the exit status tells (`ExitZeroIsComplete`).
* On Linux a program that never opens the FIFO leaves the `wait` for the interpreter
  without an end, so `LauncherEnds` requires that it was opened.

In the interpreter:

* `prependScopeNames` caches, for a scope with a specification, a name without its
  own part (`dwarfdiecache.cpp:176` after 169), so that the second function found in
  it is named differently; names within such scopes are left out of `FramesNamed`.
* An inlined function without linkage name and specification is qualified by the
  function it is inlined into. Inlined frames are dropped when no source file is known.
* Among symbols with one offset and different sizes `findSymbol` takes the last one.
* Modules are known by their file name alone.

In the readers:

* The index 0 of an allocation info also means "no last allocation", so that some
  deallocations of info 0 count as temporary; `CostsOfFile` allows exactly these.
* The time filter of the previous file is used for the first parse of the next one
  (`mainwindow.cpp:671`); the second pass then counts beyond the counters of the
  first (`overrun`).
* Disabling the built-in suppressions has no effect on a reparse
  (`accumulatedtracedata.cpp:205`), for what was read before is kept.
* The histogram skips at most one empty bucket between two sizes (`parser.cpp:587`)
  and takes columns along from the row before; the rows claimed are those without gaps.
* A chart misses a peak that the next line releases, ends with the end of the
  recording even if the filter ends earlier, and may have more rows than
  `MAX_CHART_DATAPOINTS`.
* A massif snapshot has the total before the allocation that made it the peak, while
  its tree has the one after (`accumulatedtracedata.cpp:343`), so that they differ by
  one allocation, and a peak made by the last allocation is missed.
* `writeMassifBacktrace` has no end for a backtrace without `main`
  (`heaptrack_print.cpp:450`, 489).
* `printFlamegraph` prints inlined frames behind the frame they are inlined into.
* `heaptrack_print` returns 0 when the histogram or flame graph file cannot be opened.
* A comparison ignores inlined frames, and finds functions to stop at only among
  the strings of the open file. `--filter-bt-function` with a stop function finds
  nothing, since the walk ends before it is looked at.
* Rows of the caller/callee table without cost are erased in a comparison although
  callers and callees of other rows still mention them.
* A reparse that fails leaves the views and the selection as they were.
* The flame graph shows an earlier graph that comes late, or after the tab was
  hidden; `ShowsLastRequest` excludes that order. The text shown meanwhile is an item
  that is treated as a frame.

### Fairness

The recorder: weak fairness for each thread inside an operation and for each timer
thread, since the scheduler runs a thread that can go on. Nothing is assumed of
the application, which may never call anything again, and nothing of who wins the
race for the lock: `LockReleased` is about the holder, not about a waiter. The GUI
and the flame graph: weak fairness for each job (the pool runs what it was given)
and for the event loop, none for the user. The launcher: weak fairness for the
shell, for the opening of the FIFOs and for the two background processes; none for the
application, for signals or for failures, so that `LauncherEnds` starts from an
application that has ended. The other modules have no liveness property.

## 4. What is proved

Every theorem is about all values of the constants that satisfy the named
assumptions, with an inductive invariant for each component that TLC has checked
as an invariant of the component's run.

**HeapTrackProofs**, for any number of threads, controllers and sessions, with
and without fork. The invariants alone are not inductive: that a timer thread does
not use a deleted object depends on who can be between `JoinTimer` and
`FreeData`, which depends on the lock. `IInv` is

* `LockInv`: the lock is held by whoever's program counter says so,
* `GuardInv`: the recursion guard is set inside every operation,
* `DataInv`: a timer thread belongs to `s_data`; steps of shutdown have `s_data`,
* `HeaderInv`: only the lock holder that is writing the header finds none,
* `ProcessInv`: the child only writes to streams it opened.

Theorems: `TypeCorrect`, `SelfDeadlockFree` (from GuardInv and LockInv),
`MemorySafe` (DataInv), `HeaderFirst` (HeaderInv), `ForkSafe` (ProcessInv).
With a single controller (the hypothesis `SingleController`) and in the parent,
`SessionInv` adds three parts: `s_forceCleanup` is reset throughout `heaptrack_init`
(`OpInv`); a session that is there under `s_forceCleanup` is being stopped by the
controller, and `~LockedData` runs only under that flag, so that an `exit()` meanwhile
does not keep the hooks (`CleanupInv`); a stale module list is marked so unless its
session is ending (`ListInv`). Theorems: `SessionsEnd`, `ListNeverStale`.

**AllocStreamProofs**, for any threads and addresses. `OwnerInv` says that an
allocated address is with the application or with exactly one hook; `BeforeInv`
follows the memory of unknown origin; `BusyInv`, `LiveInv` and `OnlyLiveInv`
compare the stream with the heap while realloc runs under the lock; `PendingInv` is
what is left of that for the unlocked realloc. Theorems: `TypeCorrect`,
`Consistent`, `NoFalseLeaks`, `Faithful`, `StreamFaithful` (the three together),
`AllLeaksReported`, `NoInventedLeaks`.

**TraceDataProofs**, for files of any length, any capacity and any filters.
`IndexInv`: `allocations` and `allocationIndex` are inverse and the cached newest
trace is the greatest, without which `mapToAllocationIndex` could make a second
allocation for a known trace. `PeakInv`: the peak of the totals is the higher peak
of the two snippets, and the current snippet has seen the present total. `CostInv` ties
the costs to the file. It needs all its parts at once:

* `FileInv`, `SuppressionsInv`: lines + and - name infos of the file, a pass other than
  the first reading reads the file to its end or up to its filter;
* `ClockInv`: `timeStamp` is the greatest stamp before the present line and
  `inFilteredTime` compares it with the filter, so that the lines a pass takes are the
  lines whose time is in the filter, and those after an early end are not;
* `ChargedInv`: the costs of an allocation are the sums and numbers of the lines taken
  with its info, and the totals are the sums over the allocations;
* `LastInv`: while `lastAllocationPtr` is not 0 it is the info of the last line + taken and
  no other event came since, and the converse; before the filter begins it is 0. Without
  the last part a + before the filter could make a - after its beginning temporary;
* `TemporaryInv`: the lines counted as temporary, but for lines of info 0;
* `SuppressedInv`: suppressing moves the leaks of whole traces out of the total.

The sums are `SumFunctionOnSet` of the community modules; that a sum over a finite set
exists and does not depend on the order in which it is taken is proved at the head of
that part by induction over finite sets, stated for a set of sets because the library's
own induction theorems cannot be instantiated.

The refinement needs one more invariant, `ReplayInv`: replaying all events of the current
snippet from its snapshot gives the present leaks of the allocations. At a new peak the
snippet that is kept is the current one, replayed up to its last event, which is therefore
the copy `PeakSnapshot` takes; between peaks a replay stops before the events that were
added since. An action of `TraceData` is a restart, a change or a stutter of
`PeakSnapshot` (`SnapshotStep`). `PeaksInv`, that the copy adds up to the peak, then
follows for the abstract state: a change keeps it, since the totals are the sum of the
costs whenever they make a new peak. Theorems: `TypeCorrect`, `UniqueAllocations`,
`PeakFound`, `CostsFollow`, `SuppressionsHide`, `PeakRefinement`, and `FirstPeaksAddUp`:
what the run `reparse_peaks` refutes holds as long as nothing was reparsed.

The second half is about `Readers`. Both programs implement the analysis
(`ProgramsAnalyze`), so that the theorems above hold of both. `PrintInv` is what
`heaptrack_print` adds: it reads the file once and without a lower limit, so that the lines
it has taken are all lines within the filter that it has read (`Printing`); later lines do
not change what was leaked before an earlier one (`LeakedKept`), and what the reader's
totals and allocations say is what was leaked up to now (`Present`); `MassifInv` then says
of every snapshot and of `lastMassifPeak` what they were made of. Theorems:
`PrintedHistogram`, `PrintedTimeline`, the halves of `HistogramsAgree` and `TimelinesAgree`
that are about `heaptrack_print`. The halves about the GUI stay with TLC: a row of its
histogram has a column for every symbol only if there are at least as many columns as
symbols, so that `SizesCounted` is no theorem for every value of the constants.

**MainWindowProofs**, for any files and any numbers of requests and of signals
under way. `Owned`: an object has the number of a job that has begun, and one owner,
the parser or a job; a queued job's number is free, so that the object it makes is
new. This holds whatever the user does. `SequenceInv` and `PathInv` hold unless
File > Open overtook a job: while the parser has data, or shows the open
page, nobody runs and no signal waits, so that a request meets neither; `setData`
and `failedToOpen` are the last signals of their job, which is why the path and the
data of the parser change together. Without the order of the signals the path is not
inductive: a late `setData` would change `m_path` under a queued job. `ViewInv` adds
the views: the running job and the waiting signals are those of the last request,
what a job has emitted is shown or on the way (`ShownInv`), and filter and selection
belong to a request since the file was opened (`FreshInv`, `FilterInv`). Theorems:
`Invariance`, `DataHasOneOwner`, `ReparsesRightFile`, `ShowsLastResults`.

**FlameGraphProofs**, for any frames, settings and numbers of jobs. `NavigationInv`:
the enabled actions are those of the present history, so that back and forward stay
in the scene, also when the scene is replaced between two clicks. `RequestInv`: the
request that counts is always for the data and controls of the moment, and its graph
is being computed or in the queue while the tab has none. Theorems: `Invariance`,
`NavigationSafe`, `LastRequestShown`.

**InterceptionProofs**, for any threads, modules, images and table sizes. The injected
library: a module has all the hooks that the cached size of its symbol table makes
visible, or none (`HooksInv`); this holds with any number of controllers and gives
`StopPutsBack`. `CompleteInv`, which gives `HooksInPlace`, needs a single controller:
with two, one can stop heaptrack while the other, which was told that it runs,
goes on. The interposed library: the table is what dyld has loaded, up to the callback
of each thread (`TableInv`), and the list is dirty, being written or equal to the table
(`ListInv`); the lock and the mutex of the table together keep the list of a writer
within the table. It gives `ListIsCurrent`. The other theorems are the invariants,
`HooksInvariance` and `ImagesInvariance`.

The preloaded library, with any functions that come later: the first call of a wrapper
is a script of known steps that dlsym holds up by one call at a time, and the
invariant is how far it has come (`FirstCall`). A call that dlsym makes has its
original since `calloc` is found before the script, and `malloc` and `free` before the
first function that may be missing. With a pool that serves one call, as the 1024
bytes of the code do (`PoolSize >= 2`). Theorems: `PreloadInvariance`,
`LookupSucceeds`.

**PipelineProofs**, for any program, way to unwind, modules, binaries, buffer, size of
the pages and moment at which the output fails. From the bottom up: a lower bound in a
sorted vector is where the place is or belongs, the two vectors of a page stay in step,
no page is empty; `addPointer` and `takePointer` then change the map at their address and
nowhere else (`PointerAdded`, `PointerTaken`). The inductive invariant `PipelineOK` has
two halves. `WriterOK`: whatever of the raw stream got to the file, its lines are well
formed, which is all that the interpreter needs to know of the recorder: the theorems
hold for damaged streams because nothing is assumed of the order of lines. `ReaderOK`
compares the interpreter with the part of `raw` before `pos`:

* `TablesOK`: the module list is one that the recorder sent, and the table of strings and
  the data file are sequences;
* `MapInv`: the map is well formed and has exactly the addresses whose last line is a
  `+`, each with an id of an info that has size and trace of that line;
* `CountersInv`: the statistics count lines, and `lastPtr` is the address that the
  line just read allocated, if it did;
* `FileInv`: an info line is new and comes with its `+`, and for each info there are at
  least as many `+` as there are `-` and live addresses with that info (`LiveIn`) together. This
  link between file and map is what makes "never more released than allocated"
  inductive: a `-` is written only for an address that the map has, which it loses.
  With `=` it would be wrong: a second `+` of a live address hides the first.

Theorems: `EventsAreFollowed`, `FileIsForTraceData`. The recursive functions of the
model (interning, inlined functions, names) are shown to exist place by place, by
induction over a set of numbers, so that a step that reads a module list, or an address
not seen before, leaves sequences behind and writes no event, whatever the binaries are.

**LauncherProofs**, for any command line and any numbers of records, signals and faults.
The invariant gives for each command of the script the trap that is installed
(`ScriptInv`), the processes there are (`WorkerInv`, `AppInv`), where the records are
(`FlowInv`), what a status of 0 says so far (`StatusInv`) and what a trap has left
(`CleanInv`). The conclusions need `FlowInv` most: a reader that ended has emptied its
pipe, and the interpreter ends before the compressor can. Theorems: `Invariance`,
`StatusCanBeTrusted`, `CleansUp`, `ReportIsSeen` (an action property).

Assumptions: `HeapTrackAssumption` (thread names are not the numbers of
`LockedData` objects), `AllocStreamAssumption`, `CapacityAssumption`,
`TraceDataAssumption`, `TracesAssumption` (finitely many
traces: an index has 32 bits), `ParserAssumption`, `CommandsAssumption`, `ThreadsAssumption`,
`InjectAssumption`, `PointerMapAssumption`, `PreloadAssumption`, `TraceWriterAssumption`,
`SymbolizerAssumption` (a parent comes before its children, as in DWARF), `PipelineAssumption`
(a binary for every module): kinds
of the constants only, checked by TLC in the runs. Hypotheses of single theorems: one
controller (`SessionsEnd`, `ListNeverStale`, `HooksInPlace`), a pool that serves one
call (`LookupSucceeds`).

Only model-checked: liveness; the charts and the histogram of the GUI (`ParserData`).
`TracesRebuilt` stays
with TLC: it needs binaries whose debugging information nests as compilers write it,
and it is stated with `SelectSeq`, of which the provers have no definition. `TraceDiff`,
`CallTrees` and `Printer` use recursive operators, which the proof system does not take,
so that `Results` stays with TLC as well.

## 5. Assumptions and abstractions

* Assertions are compiled out. A failed `assert` is not an outcome.
* Lines are records. Spelling, hexadecimal numbers and the parsing of text are left
  out; a module list is one line; a buffer holds whole lines and a short write ends
  between two of them.
* The launcher: one application, which is killed or ends as a whole; a record is a
  buffer of the recorder; removing the directory is one step, since nothing that it
  kills looks at a path again.
* `Recorder` has the lock without spinning. In `Inject` the three relocation tables
  of a module count as one, one pass over the modules is one step (`dl_iterate_phdr`
  holds the loader's lock), only the program itself calls `dlopen`, and the exit
  handler is left to `HeapTrack`. In `Preload` the first call of a wrapper comes from
  the only thread, as before `main`. In `MachModuleCache` callbacks of different
  images overlap, those of one address do not.
* The recorder: the accesses to `s_data` between taking and releasing the lock are
  one step; what a record says is `TraceWriter`'s. `s_paused` and pausing are in
  `HeapTrack` only. Threads of a child are those of the parent under the same names.
* `AllocStream`: `realloc(p, 0)` is a setting of the program; recording never fails.
* `Unwind`: a stack is its return addresses, the places of its frame records and its
  end. A walk along frame pointers may end early where a record is broken, so
  `LeastFound` asks for no caller then.
* `Symbolizer`: a binary is a constant with its symbols and the tree of its debugging
  information, as libdw and libelf give them; names are sequences of parts.
* `TraceData`: the order of passes of the two programs. Damaged files are not an
  input; that the interpreter writes only sound ones is `FileForTraceData`. The
  symbol and the address of a trace are the trace itself, and `std::sort` may leave
  equal elements in any order. Which traces a suppression matches is a constant.
* `Parser`: `m_path` is read by jobs while the GUI thread may assign it; the read is
  taken to be atomic. Signals of the same kind from different jobs keep their
  order. Progress signals and `StopAfter` (used by tests only) are left out.
* `FlameGraph`: what a graph shows is `CallTrees`'; treating the text item as a frame
  is undefined, and the outcome modelled is the one in which the program goes on.
* `Results`: one number stands for the four costs of an allocation, which are always
  added and subtracted together. Strings are taken as remapped in a comparison. A
  search matches one symbol. The items of the flame graph are made in one order.

## 6. What is not modelled, and why

* Source files and lines of frames, demangling, and the symbolizer for macOS, which
  asks `atos`; reading ELF and DWARF and the unwinding libraries are external.
* The spelling of lines and numbers: line reader, `writeHexLine`, lines longer than
  the buffer. The models exchange records.
* Lines v, x, X, A, R, I and S and files of old versions: they set values that no other
  line depends on, or refuse the file.
* Parsing and wildcard matching of suppressions: a pure function of two strings.
* `--interpret` and `--analyze` of the launcher, which run another program and exit.
* The API header: macros without state. GUI models and widgets: presentation.
* Build files, tests and tools: no behaviour of the program.

## 7. The plan

Done, in this order: recorder, hooks, analysis with the peak, the way of a backtrace
through both streams, GUI requests, results; launcher, flame graph, histograms and
charts, getting the calls of a program, unwinding, symbolication. To come:

1. The matching of suppression patterns against a reference definition, and the
   remaining lines of interpreter and reader.
2. The longest lines: a buffer of characters in `TraceWriter`, and the reader's numbers.
3. Proofs: the trace tree of `TraceWriter` (the line of an edge is in the stream before
   its index is used, also when a write has failed), for any program and buffer.
