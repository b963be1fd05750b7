# Raphael (memory-leak-detector): a TLA+ verification project

Raphael finds native memory leaks on Android. It replaces the allocation
functions of a process by proxies, keeps one record per live allocation, and
writes the records with their backtraces to a report. This directory models its
concurrent core and the engines around it (hooking, symbol lookup, unwinding),
checks the models with TLC on small instances, and proves with TLAPS the safety of
the pool, the cache, the proxies, the session, the hook engine's core and its ELF
images, both inline hook engines, the symbol lookup, the unwinders and the loaders'
hooks, for every number of threads, records, images, libraries and calls.

Paths below are relative to `src/library/src/main/`.

## 1. The system

| component | state | operations | interacts with |
|---|---|---|---|
| **AllocPool** (`cpp/AllocPool.hpp`) | array of records, bump index `mIndex`, Treiber stack `mStack` linked through `AllocNode::next` | `apply`, `recycle`, `reset`, all without locks | called by MemoryCache; the records' `next` is also the link of its hash chains |
| **MemoryCache** (`cpp/MemoryCache.cpp`) | `alloc_table` of chains, `alloc_mutex` | `insert`, `remove`, `print`, `reset` | called by the proxies on every thread, by `Raphael::print` |
| **HookProxy** (`cpp/HookProxy.h`) | configuration (`isPss`, `isVss`, `limit`), the per-thread `guard`, the `cache` pointer | nine proxies, `update_configs` | original functions, MemoryCache |
| **Raphael** (`cpp/Raphael.cpp`, `java/.../Raphael.java`, `cpp/xloader.cpp`) | `sIsRunning`, `mCache`, `mSpace`, the key of `guard` | `start`, `stop`, `print` | creates and deletes the cache under the proxies' feet |
| **RaphaelReceiver** (`java/.../RaphaelReceiver.java`) | none | a broadcast is one of the three calls, on the main thread | Raphael |
| **xHook core** (`xHook/xh_core.c`) | hooks, ignores, map info, two mutexes, a condition variable, flags, the SIGSEGV handler | `register`, `ignore`, `refresh` (both forms), `clear`, the worker | xh_elf; `/proc/self/maps`; `Raphael::stop` calls `clear` |
| **PltGotHookProxy** (`cpp/PltGotHookProxy.h`) | origins of `dlopen`, the focus expression | proxies of the loaders, hooks on load | xh_elf, xDL |
| **xHook ELF** (`xHook/xh_elf.c`) | a parsed ELF image | lookup, relocation iterators, replacement of a slot | memory of the process |
| **xDL** (`xDL/`) | handles, an address cache | open, symbol and address lookup, iteration under the linker's lock | linker; called from `print` with `alloc_mutex` held |
| **inline32**, **inline64** | table of hook items, trampolines | register, hook, unhook; instruction relocation | code of the process |
| **unwind32**, **unwind64** | frame state, map info | backtrace | called by the proxies |
| **python** (`python/`) | parsed report | grouping, totals | the report |

**What is hard.** Every thread of the process runs the proxies at once, at any
moment, and the tool's own allocations come back through them. The pool is
lock-free and shares a field with structures under a lock. Memory is released
before its record is removed. Sessions end while proxies are under way, and the
hooks stay. The hook engine reads libraries that other threads unload.

**What correctness means**, per component:
AllocPool: a record has one owner and none is lost; MemoryCache: its operations
are atomic, the most recent record of an address is removed and none missed,
and `print` shows one instant; HookProxy: the report is what was intercepted and
not released; Raphael: proxies and `print` only meet a cache that exists and has
been reset, and nothing is left after `stop`; xHook core: every touch of a
library is protected, hooks are where they should be after a refresh, and every
call returns; xHook ELF: a call changes the pointers of its symbol, all of them
and nothing else, and never hands out a proxy as the original; inline64: what is
moved does what it did; inline32: whoever meets a jump finds an origin; xDL: an
answer belongs to its address whatever was asked before, and no memory or file is
left behind; the unwinders: the record is the chain of calls, found without
leaving the stack; PltGotHookProxy: a focused library is monitored when its load
has returned, and a loader's proxy has an original to call.

The list of hazards, each at its line and with the properties aimed at it, is in
`PROJECT.json`.

## 2. The modules

**`AllocPool`** has one action per shared-memory access of `apply` and
`recycle`. Line 43, `compare_exchange_weak(p, p->next, ...)`, is two: `ApplyNext`
reads `p->next` into `nx`, `ApplyPop` compares and exchanges. The weak
compare-exchange may fail at any time (`ApplyRetry`, `IndexRetry`,
`RecycleRetry` have no guard on the value found); the failing one in `recycle`
rewrites `p->next` itself, as the code does. The client is part of the
specification, as permissive as possible: it may store into `next` of any record
it owns (`owners`) a record it owns or a copy of such a record's `next`
(`Linkable`). `UNINIT` is memory from `malloc` nobody has written.

**`AllocTable`** is the abstract specification of the interface `Cache`
(`cpp/Cache.h`): a table with atomic `insert`, `remove` and `print`, in which an
insert is refused only when all records are in use.

**`MemoryCache`** extends `AllocPool` by the chains and the mutex. A thread is
both in an operation (`cpc`) and, within it, in a pool call (`pc`).
`RemoveCheck` is the look at the chain's head without the lock (line 148);
`RemoveUnlock` unlocks and enters `recycle`. Size and backtrace are one opaque
value (`Infos`); `write_trace` is the emission of one record.
`ImplementsPool` states that the cache implies `PoolSpec`, that is: it is a client
the pool's theorems are about. **`MCMemoryCache`** holds the refinement mapping to
`AllocTable`.

**`TrackedApp`** runs `MemoryCache` under an application that never misuses an
address, so that "one record per live allocation" can be stated.

**`HookProxy`** models the nine proxies as sequences of up to five steps (test
and guard, original function, `remove`, `insert`, return), over an allocator that
may reuse an address at once or withhold it until the releasing call has
returned (`withheld`), and that may map memory for itself inside `malloc`, which
re-enters `mmap_proxy` on the same thread (`OriginMaps`). `memalign` is `malloc`
and `mmap64` is `mmap`, their proxies being identical. The cache is atomic here,
which the refinement of `AllocTable` justifies. Sizes are kept modulo
`UintRange`, 2^32 in the code. `pthread_getattr_np` is taken to succeed.

**`Raphael`** models `start`, `stop` and `print` statement by statement where
another thread can tell the difference, with the proxies of application threads
reduced to entering, using the cache, and leaving. Each session's cache and
pthread key are numbered, so that a stale pointer or guard is visible.

**`XhCore`** models the hook engine's core: flags, both mutexes, the condition
variable (`woken`: a signal reaches only a worker that waits), the worker, and
the scan of `/proc/self/maps` line by line while libraries are loaded and
unloaded. Reading a line, checking the header and hooking are separate steps. A
regular expression is the set of paths it matches. `seen` marks the mapping a
refresh has hooked; a library that is unloaded and loaded again at the same
address is a new mapping. Allocation failures inside the engine, and the
switches for debug output and for the handler, are left out.

**`ElfHash`** is the lookup in `.gnu.hash` (Bloom filter, buckets, chains ended by
a bit) and in `.hash`, and, as the static linker's part, the construction of both
tables from a list of names. Hash values are given (`HashValues`) so that names
collide in buckets and in the filter.

**`XhElf`** models one image: `xh_elf_init` is one step over program headers and
dynamic section (`ParseDynamic` takes its entries in their order);
`xh_elf_hook` finds the index and then visits one relocation per step, in
`.rel.plt`, `.rel.dyn` and the packed table, whose bytes are decoded (`SlebNext`,
`PackedNext`). Replacing a pointer may fail before the write, which ends the call
in the middle, or in putting the protection back, which the code ignores.
Memory is a function from offsets to "orig", "new_func" or other data, two offsets
to a page. The dump functions of debug builds are left out.

**`Inline64`** models `A64HookFunction`: a row is taken from the pool, the
overwritten words are fixed one per step with the context's map of fixes, the
jump back is appended, the function's start is overwritten or that fails. An
instruction is a record of its operation and operands. The ranges of branches
and loads are constants, small in the run. **`Inline64Runs`** decides whether the row
does what the words did by running both (`Run`) up to where they leave; it is apart
because `Run` is a RECURSIVE operator, and the prover cannot use a module with one.

**`InlineHook32`** models the table of inline32: register, hook, hook all, unhook,
unhook all. The origin's pointer, the jump and the status are written in steps
of their own, as another thread that calls the function sees them; deletion
moves the last item.

**`Xdl`** models `xdl_open`, `xdl_sym`, `xdl_dsym`, `xdl_close`, `xdl_addr` and
`xdl_addr_clean`, each as one step (callers are sequential), over a process of
several ELFs and an API level: Android 4 reads `/proc/self/maps`, 5 takes the
linker's mutex (found by xDL itself), before 8.1 the linker is looked for in the maps.
Memory is the set `blocks` of what a handle owns; one call may have an allocation,
a read or the decompression fail (`Faults`). The iterators' callbacks are the set
of ELFs they accept.

**`Unwind`** models one backtrace, one frame per step: on ARM the binary search of
the exception index, the personality routines' instructions (`Execute`), the
return address turned into a call, the end at a function without
instructions; on ARM64 the walk over frame pointers; then the copy into the
record by `MemoryCache::insert`. `MCUnwind` builds stack and tables from a chain of
calls, which is what the trace is compared with.

**`SoLoad`** models `registerSoLoadProxy` and the five loader proxies
(`dlopen`, `android_dlopen_ext` and the forms of Android 7 and later) against the
linker: its list, its lock, constructors that allocate, dependencies, unloading.
`start` goes through the list one library per step; a proxy's search after the
load is a step of its own. Names and regular expressions are relations between
libraries (`SameName`, `Focuses`). A library that is unloaded leaves a gap
(`NOBODY`) in the list, which everyone skips. `Needs` has one level: what a library
brings along has no further needs but the platform's libraries. `print` is there
with its two locks.

**`MCNative`** puts these six parts into one specification. They share no state, so
one of them is at work in a behaviour (`part`) and the others keep an initial
state; every reachable state of each part is reached.

The inductive invariants and the theorems of section 4 are in **`AllocPoolProofs`**,
**`MemoryCacheProofs`** (`MemoryCache` and `TrackedApp`), **`RaphaelProofs`**,
**`XhCoreProofs`**, **`HookProxyProofs`**, **`SoLoadProofs`**, **`MachineProofs`**
(`InlineHook32`, `Inline64`, `Unwind`) and **`ElfProofs`** (`ElfHash`, `XhElf`, `Xdl`).

Definitions whose comment begins with "Mutant" are variants of the definition
that follows them, with one plausible mistake. They are used by no
specification; each shows that the property it is paired with in
`PROJECT.json` fails when the code is wrong.

## 3. The runs

| run | what it shows |
|---|---|
| `AllocPoolCalls` | Three threads, of which one applies, three records: `TypeOK`, `NoUninitRead`, `RefusedOnlyAtLimit`, `Exclusive` (one owner), `Conserved` (none lost), `CallsReturn`. |
| `MemoryCacheThreads` | Three threads (insert and remove; remove; remove and print), two records, two addresses in one chain: `MutexOwner`, `ChainsSound`, `ImplementsPool`, `ImplementsTable`. |
| `MemoryCacheLive` | Two threads and two distinguishable contents, so that removing or printing the wrong record shows: `ImplementsTable`, and `OperationsReturn`. |
| `TrackedAppTwoAppliers` | **Violation** of `ReportExact`: with two threads in `apply` the stack suffers ABA (see 6). |
| `HookProxyCalls` | Two threads, two addresses, sizes below and at the limit, both allocators: `FreedNotReported` (a released address is never reported once calls have returned) and, if addresses are withheld, `TotalsExact`. |
| `HookProxyRace` | **Violation** of `TotalsExactAlways`: release before remove loses another thread's record. |
| `RaphaelOneCaller` | One caller, two application threads, three sessions: `SessionReady`, `PrintSafe`, `StopReleases`, `GuardReleased`. |
| `RaphaelInFlight` | **Violation** of `StopMeansStopped`: `stop` deletes the cache under a proxy in flight. |
| `RaphaelTwoCallers` | **Violation** of `PrintSafe`: `print` during another thread's `start`. |
| `XhCoreEngine` | One library at two addresses, two hooks, one ignore: `Protected`, `ClearRestores`, `HooksInPlace`, `RefreshComplete`, `RequestServed`, `XhReturns`. |
| `XhCoreIgnore` | **Violation** of `IgnorePerSymbol`: an ignore for one symbol drops the library. |
| `NativeSide` | The six parts of `MCNative`. xHook ELF: `LookupExact` (either table, in either order), `MemoryExact` (all pointers of the symbol but a plain table's first, no others, protections put back), `OldIsOriginal`. inline64: `RelocatedSame`, `HookedHasOrigin`. xDL: `AnswerExact`, `HeapReleased`, `MapsClosed`. Unwinders: `TraceIsCallChain`, `UnwindInBounds`. inline32: `OriginMapped`, `TableExact`. Loaders: `FocusedHooked`, `OriginSaved`. |

Three more configurations reproduce what section 6 says of the code; each is
expected to report its property violated:

| configuration | module | property | cause |
|---|---|---|---|
| `XhElfFirstEntry.cfg` | `MCXhElf` | `AllPointersHooked` | the first entry of a plain table is skipped |
| `Inline64Restart.cfg` | `MCInline64` | `OriginIsNotProxy` | a second start moves the first one's jump |
| `SoLoadLockCycle.cfg` | `MCSoLoad` | `NoLockCycle` | `print` and a constructor that allocates wait for each other |

`LifeTypeOK` in `Raphael` and `XhTypeOK` in `XhCore` say what the types of the
variables are; no run checks them because they are proved (`RaphaelTypeOK`,
`XhTypes`).

**Bounds.** Three records and three threads are what a stack needs for a pop to be
overtaken by a pop and two pushes; two records in one chain make the record to remove
the head or not, and fill the pool. `MaxOwners` only bounds the client, it would be
exceeded only after `Exclusive` had failed. Two threads and two addresses give every
overlap of a release with a reuse. `MaxStarts = 3` lets a proxy outlive a session and
meet the next one. `NativeSide`: images with one or both hash tables in both orders,
both entry sizes, plain and packed relocations with and without each of the four group
flags, and two calls, so that a call follows a failed one; every instruction form with
targets before, among and behind the moved words and at either side of the edge of its
reach, and a pool with room for two, one and no row; API levels 19, 21, 24 and 28, one
for each way of iterating, and three xDL calls of which one fails; call chains of up
to six frames with depths 2 and 4 against arrays of 5, so that a trace is cut, fits,
or ends early; three functions and six calls on the table of hooks, which is then
full; two loading threads, a library that brings another, one that cannot be parsed,
four calls of `start`, `print`, `dlopen` and `dlclose`, at the three kinds of API
level. Its behaviours end when the calls are used up or the one call is done, so
deadlock is not checked there. Symmetry is used in `HookProxy` only, where threads and
addresses are interchangeable and no property is temporal.

**Fairness.** `AllocPool` and `MemoryCache`: every thread keeps running (WF of
its steps), and a compare-exchange or a mutex that is available again and again
is obtained eventually (SF): `compare_exchange_weak` does not fail spuriously for
ever on real hardware, and a pthread mutex is handed on by the kernel's queue. A
lock-free loop promises system-wide progress only; the SF on it is the usual
assumption that a thread is not overtaken for ever. `XhCore`: the same for
callers and the worker; none for the loading of libraries. Safety properties
assume no fairness.

## 4. What is proved

Every theorem holds for all values of the constants that the named assumptions
of its module allow (`ASSUME` in the module that declares the constants; TLC evaluates
each on the runs): the sets of threads, addresses, libraries, images, functions and
records may be of any size, and the bounds on calls any number.

| theorem | hypothesis | statement |
|---|---|---|
| `PoolTypeOK`, `PoolNoUninitRead`, `PoolRefusedOnlyAtLimit` | | `TypeOK`, `NoUninitRead`, `RefusedOnlyAtLimit` |
| `PoolExclusive`, `PoolConserved` | `OneApplier` | `Exclusive`, `Conserved` |
| `CacheMutexOwner` | | `MutexOwner` |
| `CacheTypes`, `CacheChainsSound` | `OneApplier` | `CacheTypeOK`, `ChainsSound` |
| `CacheImplementsPool` | `OneApplier` | `ImplementsPool`: the cache is a client of the pool |
| `CacheKeepsPool` | `OneApplier` | `Exclusive` and `Conserved` inside the cache |
| `AppReportExact` | `OneApplier` | `ReportExact`, which is violated with two appliers (finding 1) |
| `RaphaelTypeOK` | | `LifeTypeOK` |
| `RaphaelSessionReady`, `RaphaelPrintSafe`, `RaphaelStopReleases`, `RaphaelGuardReleased` | `OneCaller` | `SessionReady`, `PrintSafe`, `StopReleases`, `GuardReleased` |
| `XhTypes`, `XhProtected`, `XhClearRestores`, `XhHooksInPlace`, `XhRefreshComplete` | `OneDriver` | `XhTypeOK`, `Protected`, `ClearRestores`, `HooksInPlace`, `RefreshComplete` |
| `ProxyTypes`, `ProxyFreedNotReported` | | `ProxyTypeOK`, `FreedNotReported` |
| `ProxyTotalsExact` | `SizesFit` | `TotalsExact` |
| `HookOriginMapped`, `HookTableExact` | | `OriginMapped`, `TableExact` |
| `Inline64HookedHasOrigin` | | `HookedHasOrigin` |
| `UnwindStaysInBounds` | | `UnwindInBounds` |
| `Unwind64CallChain` | ARM64, `FrameRecords(thread)` | `TraceIsCallChain` |
| `XhElfLookupExact`, `XhElfOldIsOriginal` | | `LookupExact`, `OldIsOriginal` |
| `XhElfMemoryExact` | `PackedWritten(lib)` | `MemoryExact` |
| `XdlHeapReleased`, `XdlMapsClosed`, `XdlAnswerExact` | | `HeapReleased`, `MapsClosed`, `AnswerExact` |
| `SoOriginSaved`, `SoFocusedHooked` | | `OriginSaved`, `FocusedHooked` |

**The hypotheses.** `OneApplier`: at most one thread calls `apply`. The code
does not guarantee it (every allocating thread inserts), and without it the
theorems are false: finding 1. What they say is that nothing but a second applier
breaks these invariants; any number of threads may remove and recycle. `OneCaller`
and `OneDriver`: one thread calls `start`, `stop` and `print`, as
`RaphaelReceiver` does on the main thread; `Raphael.cpp` is the only user of
xHook's core. With two callers `PrintSafe` is false: finding 4. `SizesFit`:
sizes below 2^32, which is what `AllocNode::size` holds. `ProcessAssumption` of
`SoLoad`: the platform's libraries (the list when the process begins) are never
unloaded and need only each other; each loader function is imported by one of
them that xHook can parse, and on Android 8 every call ends in libdl.so.
`OriginSaved` is false in a process in which a loader function is imported by
no library before `start`.

`FrameRecords`: the stack is a chain of frame records, each above the last and
aligned, that ends where something else begins, and the thread's calls are their
return addresses. It holds of all 2184 ARM64 stacks of the run. On a stack that is not
one, only `UnwindStaysInBounds` says something. `PackedWritten`: an image without
`DT_ANDROID_REL` satisfies it, so that the theorem says for plain tables all that the
run checks. For one with packed relocations it says that its bytes, read by the code's
own iterator with the image's entry size, are the entries of its table and then the
end, and that `DT_PLTREL` is there if the entries have addends; what remains to be
proved, and is, is that the calls replace what they read and nothing else, whatever
was replaced before. It holds of 976 of the 1088 images of the run; the others do not
declare their entry size. That the iterator reads what an encoder has written stays
with the run.

The assumptions on the inputs of the native parts are what a static linker, the
dynamic linker or the compiler guarantee. `Written` (`ElfHash`), used by `XhElf` and
`Xdl`: names are not repeated, and both hash tables are those of the list of names,
sorted by bucket for `.gnu.hash`. `RelocationTables` (`XhElf`): a table has its tag in
the dynamic section, its offsets are pointers of the image, `.rel.plt` has a function
once, and what lies behind a plain table is no relocation of its kind, since the
iterator visits it: with one there, `OthersUntouched` is false. `PointersResolved`: no
pointer is the new function before the first call. `ProcessList` (`Xdl`): loaded ELFs
have different load biases, and one is the linker at most. `PoolRows`, `FunctionWords`
(`Inline64`): a row has ten words for each of the five that may be moved, as in the
code; a function begins with instructions, literals are where their width is aligned,
and it does not begin with the jump to its proxy already (the second start,
`Inline64Restart.cfg`). `StackRange`, `TraceArrays` (`Unwind`): the words between the
stack's ends can be read, the unwinder's own frame is among them, and the arrays have
two entries at least.

**`AllocPoolProofs`.** `BaseInv` adds `WellInit` to the typing: the top of the stack,
every record some `next` field points to, every record a client owns and every
record in a thread's `p` or `nx` has a written `next`. It must speak of all of these
because a record an applier examines may long have been popped and relinked by
another, so that its stale `next` can become the top of the stack.
`PoolExclusive` needs the shape of the stack, which is a statement about
reachability. `ChainInv` does without recursion. `Owned`: a record is held by one
client or one call. `Shape`: `Free`, the handed-out records nobody holds, is
closed under `next` and holds `mStack`; `next` is injective on it and never leads
back to `mStack`; and every set with the same closure contains it, so it is exactly
what a traversal of the stack meets (`FreeStack`, the least such set). `Cursor` is
where the single applier enters: the record it examines stays free, and `nx` is
still its `next`, until the compare-exchange. A second applier could take that
record and give it back with another `next`: this conjunct, and with it the
theorem, fails, and `TrackedAppTwoAppliers` shows that the code does too.

**`MemoryCacheProofs`.** `LockInv` (who holds `alloc_mutex`) is inductive by itself,
with any number of appliers. `TableInv` says of each chain what `Shape` says of the
stack (`ChainShape`: the kept records of a bucket are the least set closed under
`next` from its head, and `next` is injective on it), where the pool's code stands
while the cache's stands at `cpc` (`CallInv`), and what the locals of a search mean
(`LocalInv`: `prev->next` is `cur`, both in the chain of the address). The pool's and the
cache's parts depend on each other: a step of the cache is one the pool allows only
because chain and stack share no record, and they share none because of the
pool's invariant. So `AllInv` is their conjunction; `StepRefines` shows that each step
of the cache under it is a step of `PoolNext` or leaves the pool alone, which gives
the refinement, and through it the pool's theorems for the cache.

**`TrackedApp`**, in the same module. `AppSpec` implies `CacheSpec`, so `AllInv`
holds. On top of it `AppInv` says, for each address, how many records it has in each
state of its allocation, and for each operation what it has done so far: an insert has
no record before it publishes, a remove has exactly one until it unlinks it. The point
of the proof is that a remove never gives up: neither its look at the head without the
lock nor its search ends at NULL (`RemoveFinds`), because the record is still ahead of
the cursor, that is in every set closed under `next` from `cur` (`Ahead`).
`ReportExact` fails in the run with two appliers and is proved here for one: the ABA
is its only cause.

**`RaphaelProofs`.** `ResourceInv` says which of cache, key, directory and recording
exist at each label of the caller; `CurrentInv` that they belong to the last session;
`GuardInv` that a guard's number is of a session that has begun, so that the key a new
session makes differs from every guard that a proxy of an earlier one may
still set or leave behind. Application threads are anywhere in their proxies throughout.

**`XhCoreProofs`.** `EngineInv` ties the handler to `init_ok` and the worker to
`async_init_ok`, and says which flags the caller may rely on at each label: `clear`
joins the worker before it removes the handler. `TreeInv`: both trees, the one
that is and the one a scan builds, lead to libraries with their hooks; the old one is
empty while hooks are registered, or a new hook would make it wrong. `FoundInv`: during a
scan a library that has been mapped since it began has been found, is being looked
at, or is on a line still to be read.

**`HookProxyProofs`.** `OwnInv`: an allocation is held by the application or in the hands
of one call. For `FreedNotReported` records must be counted: an address has at most one
record for its present use and one for every call that has released it and not yet
removed its record (`CountInv`); when no call is under way nothing is left of the
second kind. This holds even though the removing call may take the newer record
(finding 2). `TotalsExact` needs `ApartInv` (no two calls have an address in common
if addresses are withheld) and then, for each address, that the record is what it
should be but for the one call about to put it right (`ExactInv`).

**`MachineProofs`.** inline32, `TableInv`: items differ in functions and trampolines
(`Distinct`), so that the deletion that moves the last item neither unmaps nor forgets
another's; every mapped trampoline has an item; what the call under way knows of its
item while its writes are apart (`AtItem`). inline64, `Inline64Inv`: what has been
moved so far is at most nine words for each word read, so that five of them and the
jump back fit in a row; every word already written is an instruction whose literal, if
it has one, is aligned, and the words the fix map still has to complete load nothing,
so that completing one moves no literal; the function's own words are untouched until
the one step that overwrites them. Each fixer has its lemma. `UnwindInv`: `fp` is
above `sb`, and `sb` never below the stack's end, although `fp` comes from memory that
may hold anything; so every record that is read lies in the stack, and the walk ends.
`ChainInv`: the trace is the calls of the records gone by (`Behind`), which is not the
return addresses, because repeated ones are entered once.

**`ElfProofs`.** The searches come first: `GnuFindExact` and `SysvFindExact` say that
the walk along a chain finds a name at its index and no other, for tables built from
any list of names. `LookupInv` then only has to say that `xh_elf_init` has kept the
right table, whatever the order of the two tags; a table that is parsed after the
other overwrites some of its fields, so the invariant speaks of the fields that the
search uses (`GnuLike`, `SysvLike`). `XhElfInv`: a pointer is the original or the new
function, and what is saved was the original. `MemoryInv` says of a call under way how
far it has come in each table, and that all entries of its symbol gone by have been
replaced (`Done`), which is stable because a call never puts an original back; the
loop over `.rel.plt` stops at the first match, which is all only because a function
has one entry there. The symbol of an entry is the one that was asked for because
names are not repeated (`OneName`). Offsets that lie outside the table's pointers,
entries of the wrong size and calls that end in the middle leave only pointers of the
symbol changed. xDL, `XdlInv`: every block is one of a handle that is open or cached,
with everything that handle should own (`Heap`), over each outcome of the loads, which
may fail at any read, allocation or decompression. `AnswerInv` adds that a cached
handle's ELF is one the iteration shows, so that an answer from the cache is one a new
search would give.

**`SoLoadProofs`.** `Counts`: a library's references cover the platform's own, the
handles, the loads under way and the libraries that need it. So a library that a
thread has loaded and is about to hook is still in the list, whoever calls `dlclose`,
and libdl.so is never unloaded. `Originals`: why a library that is hooked when loaded,
which saves no original, needs none: on Android 8 libdl.so is done already, on
Android 7 the hook waits for the linker's lock and so for `start`, which by then has
met an importer of every function, and before, the only function replaced is the one the
load came through. `Monitored`: what the session has met has its loader functions
replaced, so that a call meant to be seen goes through a proxy.

**Induction over data.** The library's induction theorems take an operator, which the
provers cannot instantiate. Where a proof needs induction (the search in a chain, the
entries of the dynamic section, the list of loaded ELFs) it takes the least index at
which the claim would be false (`LowestIn`, from the well-foundedness of the numbers)
and derives a contradiction from the one before.

**Only model-checked.** Liveness (`CallsReturn`, `OperationsReturn`, `RequestServed`,
`XhReturns`): the prover does not handle fairness. `ImplementsTable`: the mapping
turns a chain into a sequence by a RECURSIVE operator; what it is for, a report
without a missing or a stale record, is `AppReportExact`. `RelocatedSame`: `Run`, the
execution of instructions that may branch anywhere in the row, is RECURSIVE too.
`TraceIsCallChain` on ARM, where the frames are what the interpreted instructions of
the exception tables make of them, and the decoding of packed relocations: they
compare a decoder with an encoder that exists only as the inputs of the run.

## 5. What is not modelled

* **Memory order.** `apply` and `recycle` use `relaxed` and `release`; the model
  is sequentially consistent. `apply`'s pop has no acquire ordering, so on ARM
  even `p->next` may be older than the stack's top; the model's results are
  upper bounds for what the code guarantees.
* **Partial `munmap`, `MAP_FIXED` over a live mapping, stacks of threads created
  before start.** An address stands for a whole allocation.
* **Formatting**: `write_trace`'s text, `dump_system`, logging.
* **Failures of `malloc` inside the tool itself**, except in xDL.
* **Threads inside code that is being overwritten.** inline64 writes up to five words
  that other threads may be executing; what they see depends on the processor's
  instruction fetch. Likewise a thread in a trampoline that inline32 unmaps.
* **`relocate.c`**, inline32's instruction fixers: the scheme of inline64 over the ARM and
  Thumb sets. `freeze` and `unFreeze` are never called.
* **Libraries that are unloaded while `print` runs**: xDL keeps a pointer to the
  linker's program headers in its cache (`xdl.c:712`).
* **Data races inside library functions**: a second `start` compiles the expression
  (`PltGotHookProxy.h:325`) the loaders' proxies may be matching with.
* **Several threads that drive xHook's core at once**: `XhCore` has the steps, its
  runs have one caller, as `Raphael` has.
* **The main thread's stack bounds**, which unwind64 reads from `/proc/self/maps`, and
  the unwinders' variants for signals and other processes, which Raphael never calls.
* **`MapData`**: `print` passes a null pointer in its place.
* **`python/`**: sequential text processing of a finished report. **`queue.h`,
  `tree.h`**: vendored macros. **Logger, demo.**

## 6. Findings

1. `AllocPool.hpp:43`, run `TrackedAppTwoAppliers`. Thread b reads `mStack = n`
   and stops before `p->next`. Thread a pops `n` and links it into a chain, so
   `n->next` is a record of the chain; b reads it; a removes and recycles `n`; b's
   compare-exchange succeeds and makes the chain's record the top of the stack.
   The next insert takes it over: a live allocation vanishes from the report.
2. `HookProxy.h:126, 158, 197`, run `HookProxyRace`. `free`, `realloc` and
   `munmap` release first and remove the record afterwards. The address may be
   allocated and inserted by another thread in between; `remove` then takes the
   newer record.
3. `Raphael.cpp:53`, run `RaphaelInFlight`. Nothing waits for proxies in flight
   before `delete mCache`, and `update_configs(nullptr, 0)` keeps the pointer.
4. `Raphael.java:53`, run `RaphaelTwoCallers`. The flag is set before, and
   cleared before, the native work it stands for. Broadcasts all arrive on one
   thread, where this cannot happen (`RaphaelOneCaller`).
5. `xh_core.c:376`, run `XhCoreIgnore`. `check_continue: break;` ends the search
   for hooks at the first that matches.

Further behaviour of the code that the models show or have to leave out of a
property, without a document that promises otherwise:

* **Sizes** of 2^32 and more are recorded modulo 2^32, and `calloc_proxy` tests the
  reduced size against `limit`; `TotalsExact` holds for `Sizes` below `UintRange` only.
* **xHook ELF.** The plain iterator steps before it returns (`xh_elf.c:92`): entry 0 of
  a table is never visited and what lies behind the table is visited as an entry
  (`XhElfFirstEntry.cfg`). The debug dump of the same tables (line 691) begins at 0.
* **inline64.** Nothing undoes a hook. A second `start` moves the first one's jump, so
  that the original leads to the proxy and the proxy calls itself
  (`Inline64Restart.cfg`); a pool used up by then leaves the jump without an origin
  (`And64InlineHook.cpp:577`). inline32 refuses the second registration. Conditional
  branches backwards are not sign-extended (203), a near `adr` of an odd byte damages
  its register field (363), `adrp` of the own page is not fixed (384): `Supported`
  leaves these forms out. x17 is overwritten.
* **Locks.** `print` holds `alloc_mutex` (`MemoryCache.cpp:172`) and asks for the
  linker's lock (`xdl_iterate.c:245`, or inside `dl_iterate_phdr`); a constructor run by
  `dlopen` under that lock allocates and asks for `alloc_mutex`
  (`SoLoadLockCycle.cfg`).
* **Loaders.** Not monitored are libraries that come as dependencies, those loaded
  by a call under way when `start` began, and those whose name is part of
  another's (`strstr`). The expression is matched with the path at `start` and with
  `dlopen`'s argument later. `OriginSaved` rests on some library of the process that
  imports each loader function when `start` runs. `stop` leaves these hooks.
* **xDL.** A `.gnu_debugdata` that does not decompress is freed twice (`xdl.c:264`); a
  `realloc` that fails loses the old block; `/proc/self/maps` stays open when the
  search ends at the linker before Android 8.1 (`xdl_iterate.c:239`); the test of
  exported symbols in `xdl_sym_is_match` lacks its `return`; on Android 4 the search
  ends at the first ELF without a path.
* **Unwinders.** The depth is a field of 5 bits and the arrays have 16 entries: a depth
  of 16 or more is written past them. With two frames or fewer one entry that was
  never written is copied (`MemoryCache.cpp:136`). The fallback for functions without
  instructions may skip frames.
* **inline32.** After a deletion the cache of the moved item's function is flushed
  instead of the unhooked one's (`inlineHook.c:301`); unhooking leaves the origin's
  pointer to an unmapped trampoline; a full table returns NULL, which is used.

## 7. Plan

Done: `AllocPool`, `AllocTable`, `MemoryCache`, `TrackedApp`, `HookProxy`, `Raphael`,
`XhCore`; `ElfHash`, `XhElf`, `Inline64`, `InlineHook32`, `Xdl`, `Unwind`, `SoLoad`
and their composition `MCNative`; theorems about each of them but `AllocTable`.

Left: `Relocate` (the fixers of `relocate.c` in the manner of `Inline64`), `Report`
(grouping and totals of `raphael.py`), and a static description of the ARM frames
(registers saved, words of locals) under which the interpreter's part of
`TraceIsCallChain` can be proved.
