------------------------------ MODULE HookProxy ------------------------------
(***************************************************************************)
(* The proxies that replace malloc, calloc, realloc, memalign, free, mmap, *)
(* mmap64, munmap and pthread_exit (HookProxy.h), the process's allocator  *)
(* behind them, and the cache they keep, here with atomic operations (see  *)
(* MemoryCache for why that is sound, and up to how many appliers).        *)
(*                                                                         *)
(* A call is up to five steps of its thread: the proxy's test and the      *)
(* setting of guard; the original function; cache->remove; cache->insert;  *)
(* the clearing of guard.  Other threads run between any two of them.      *)
(***************************************************************************)
EXTENDS Integers, Sequences, FiniteSets

CONSTANTS
    Threads,
    Addrs,       \* addresses the allocator can return
    Sizes,       \* sizes the application asks for
    limit,       \* smallest size recorded (LIMIT_MASK of the configuration)
    UintRange,   \* 2^32: range of uint and of AllocNode::size
    NULL

Alloc == [sort : {"heap", "map", "arena"}, size : Sizes, recorded : BOOLEAN]

ASSUME ProxyAssumption ==
    /\ Sizes \subseteq Nat /\ limit \in Nat /\ UintRange \in Nat \ {0}
    /\ NULL \notin Addrs \cup Alloc /\ IsFiniteSet(Threads)

VARIABLES
    isPss, isVss,  \* what is monitored: the heap, mappings
    guard,         \* the thread-specific flag
    live,          \* live[a]: the allocation or mapping at a, or NULL
    recs,          \* recs[a]: sizes recorded for a, most recent first
    held,          \* addresses the application holds and may release
    at, req,       \* each thread's step, and the call it is in
    ret,           \* what the original function returned
    withheld       \* whether the allocator withholds an address until the call
                   \* that released it has returned; bionic's does not

config    == <<isPss, isVss, withheld>>
proxyVars == <<config, guard, live, recs, held, at, req, ret>>

\* memalign_proxy is malloc_proxy, and mmap64_proxy is mmap_proxy, but for the
\* original function they call.
HeapKinds  == {"malloc", "calloc"}
SizedKinds == HeapKinds \cup {"realloc", "mmap"}
Kinds      == SizedKinds \cup {"free", "munmap", "pthread_exit"}

NoCall == [kind |-> "none", ptr |-> NULL, size |-> 0, proxied |-> FALSE]

ProxyInit ==
    /\ isPss \in BOOLEAN /\ isVss \in BOOLEAN /\ (isPss \/ isVss)
    /\ guard = [t \in Threads |-> FALSE]
    /\ live = [a \in Addrs |-> NULL]
    /\ recs = [a \in Addrs |-> <<>>]
    /\ held = {}
    /\ at  = [t \in Threads |-> "idle"]
    /\ req = [t \in Threads |-> NoCall]
    /\ ret = [t \in Threads |-> NULL]
    /\ withheld \in BOOLEAN

At(t, label) == at' = [at EXCEPT ![t] = label]

-----------------------------------------------------------------------------
(* The proxies' tests *)

\* The size a proxy compares with limit: calloc_proxy computes it in a uint.
SizeOf(kind, size) == IF kind = "calloc" THEN size % UintRange ELSE size

\* Mutant: realloc_proxy tests the size first, like malloc_proxy.
ProxiedReallocLimit(t, kind, ptr, size) ==
    CASE kind \in HeapKinds -> isPss /\ SizeOf(kind, size) >= limit /\ ~ guard[t]
      [] kind = "realloc"   -> isPss /\ size >= limit /\ ~ guard[t]
      [] kind = "free"      -> (isVss \/ isPss) /\ ptr # NULL /\ ~ guard[t]
      [] kind = "mmap"      -> isVss /\ ~ guard[t]
      [] kind = "munmap"    -> isVss /\ ptr # NULL /\ ~ guard[t]
      [] kind = "pthread_exit" -> isVss

Proxied(t, kind, ptr, size) ==
    CASE kind \in HeapKinds -> isPss /\ SizeOf(kind, size) >= limit /\ ~ guard[t]
      [] kind = "realloc"   -> isPss /\ ~ guard[t]
      [] kind = "free"      -> (isVss \/ isPss) /\ ptr # NULL /\ ~ guard[t]
      [] kind = "mmap"      -> isVss /\ ~ guard[t]
      [] kind = "munmap"    -> isVss /\ ptr # NULL /\ ~ guard[t]
      [] kind = "pthread_exit" -> isVss

\* What the application may pass: a pointer it holds, of the right sort.
Releasable(kind) ==
    CASE kind = "realloc" -> {NULL} \cup {a \in held : live[a].sort = "heap"}
      [] kind = "free"    -> {NULL} \cup {a \in held : live[a].sort = "heap"}
      [] kind = "munmap"  -> {a \in held : live[a].sort = "map"}
      [] kind = "pthread_exit" -> {a \in held : live[a].sort = "map"}
      [] OTHER -> {NULL}

\* Mutant: the proxies do not set guard.
EnterUnguarded(t, kind, ptr, size) ==
    /\ at[t] = "idle"
    /\ ptr \in Releasable(kind)
    /\ kind \notin SizedKinds => size = 0
    /\ LET proxied == Proxied(t, kind, ptr, size) IN
       /\ req' = [req EXCEPT ![t] =
                     [kind |-> kind, ptr |-> ptr, size |-> size, proxied |-> proxied]]
       /\ At(t, IF kind = "pthread_exit" /\ proxied THEN "remove" ELSE "origin")
    /\ held' = held \ {ptr}
    /\ UNCHANGED <<config, guard, live, recs, ret>>

\* The application calls; from here on it has given the pointer up.
Enter(t, kind, ptr, size) ==
    /\ at[t] = "idle"
    /\ ptr \in Releasable(kind)
    /\ kind \notin SizedKinds => size = 0
    /\ LET proxied == Proxied(t, kind, ptr, size) IN
       /\ req' = [req EXCEPT ![t] =
                     [kind |-> kind, ptr |-> ptr, size |-> size, proxied |-> proxied]]
       /\ guard' = [guard EXCEPT ![t] = @ \/ proxied]
       /\ At(t, IF kind = "pthread_exit" /\ proxied THEN "remove" ELSE "origin")
    /\ held' = held \ {ptr}
    /\ UNCHANGED <<config, live, recs, ret>>

-----------------------------------------------------------------------------
(* The original functions *)

\* Addresses the allocator may hand out.
Available ==
    {a \in Addrs : /\ live[a] = NULL
                   /\ withheld => \A t \in Threads : req[t].ptr # a}

Allocation(t, sort) ==
    [sort |-> sort, size |-> req[t].size,
     recorded |-> /\ req[t].proxied
                  /\ req[t].kind = "realloc" => req[t].size >= limit]

\* Where a proxied call goes on to; one that is not proxied just returns.
After(t, label) == At(t, IF req[t].proxied THEN label ELSE "return")

OriginAllocates(t) ==
    /\ at[t] = "origin"
    /\ req[t].kind \in HeapKinds \cup {"mmap"} \/ (req[t].kind = "realloc" /\ req[t].ptr = NULL)
    /\ \E a \in Available :
          /\ live' = [live EXCEPT ![a] =
                         Allocation(t, IF req[t].kind = "mmap" THEN "map" ELSE "heap")]
          /\ ret' = [ret EXCEPT ![t] = a]
    /\ After(t, IF req[t].kind = "realloc" /\ req[t].size < limit THEN "return" ELSE "insert")
    /\ UNCHANGED <<config, guard, recs, held, req>>

\* NULL or MAP_FAILED; a failed munmap, and a failed realloc, keep ptr.
OriginFails(t) ==
    /\ at[t] = "origin"
    /\ req[t].kind \notin {"free", "pthread_exit"}
    /\ ret' = [ret EXCEPT ![t] = req[t].ptr]
    /\ req[t].kind = "realloc" /\ req[t].ptr # NULL => req[t].size # 0
    /\ At(t, "return")
    /\ UNCHANGED <<config, guard, live, recs, held, req>>

\* free, a successful munmap and realloc(ptr, 0).
OriginReleases(t) ==
    /\ at[t] = "origin"
    /\ \/ req[t].kind \in {"free", "munmap"}
       \/ req[t].kind = "realloc" /\ req[t].ptr # NULL /\ req[t].size = 0
    /\ live' = IF req[t].ptr = NULL THEN live ELSE [live EXCEPT ![req[t].ptr] = NULL]
    /\ After(t, "remove")
    /\ UNCHANGED <<config, guard, recs, held, req, ret>>

\* The thread ends, its stack goes with it, and a new thread takes its place.
OriginExits(t) ==
    /\ at[t] = "origin"
    /\ req[t].kind = "pthread_exit"
    /\ live' = [live EXCEPT ![req[t].ptr] = NULL]
    /\ guard' = [guard EXCEPT ![t] = FALSE]
    /\ req' = [req EXCEPT ![t] = NoCall]
    /\ At(t, "idle")
    /\ UNCHANGED <<config, recs, held, ret>>

\* realloc in place or by moving.
OriginResizes(t) ==
    /\ at[t] = "origin"
    /\ req[t].kind = "realloc" /\ req[t].ptr # NULL
    /\ \E a \in Available \cup {req[t].ptr} :
          /\ live' = [[live EXCEPT ![req[t].ptr] = NULL] EXCEPT ![a] = Allocation(t, "heap")]
          /\ ret' = [ret EXCEPT ![t] = a]
    /\ After(t, "remove")
    /\ UNCHANGED <<config, guard, recs, held, req>>

\* Inside the original function the allocator maps memory for itself; the
\* call comes back through mmap_proxy, on the same thread.
OriginMaps(t) ==
    /\ at[t] = "origin"
    /\ req[t].kind \in HeapKinds
    /\ \E a \in Available, s \in Sizes :
          /\ live' = [live EXCEPT ![a] =
                         [sort |-> "arena", size |-> s,
                          recorded |-> isVss /\ ~ req[t].proxied]]
          /\ recs' = IF Proxied(t, "mmap", NULL, s)
                     THEN [recs EXCEPT ![a] = <<s % UintRange>> \o @] ELSE recs
    /\ UNCHANGED <<config, guard, held, at, req, ret>>

-----------------------------------------------------------------------------
(* The cache *)

\* Mutant: realloc_proxy inserts whatever realloc returned.
CacheRemoveInserts(t) ==
    /\ at[t] = "remove"
    /\ recs' = [recs EXCEPT ![req[t].ptr] = IF @ = <<>> THEN @ ELSE Tail(@)]
    /\ At(t, CASE req[t].kind = "pthread_exit" -> "origin"
               [] req[t].kind = "realloc" -> "insert"
               [] OTHER -> "return")
    /\ guard' = [guard EXCEPT ![t] = @ /\ req[t].kind # "pthread_exit"]
    /\ UNCHANGED <<config, live, held, req, ret>>

CacheRemove(t) ==
    /\ at[t] = "remove"
    /\ recs' = [recs EXCEPT ![req[t].ptr] = IF @ = <<>> THEN @ ELSE Tail(@)]
    /\ At(t, CASE req[t].kind = "pthread_exit" -> "origin"
               [] req[t].kind = "realloc" /\ ret[t] # NULL /\ req[t].size >= limit -> "insert"
               [] OTHER -> "return")
    /\ guard' = [guard EXCEPT ![t] = @ /\ req[t].kind # "pthread_exit"]
    /\ UNCHANGED <<config, live, held, req, ret>>

CacheInsert(t) ==
    /\ at[t] = "insert"
    /\ recs' = [recs EXCEPT ![ret[t]] = <<SizeOf(req[t].kind, req[t].size) % UintRange>> \o @]
    /\ At(t, "return")
    /\ UNCHANGED <<config, guard, live, held, req, ret>>

\* guard is cleared and the application gets the address.
Leave(t) ==
    /\ at[t] = "return"
    /\ guard' = [guard EXCEPT ![t] = @ /\ ~ req[t].proxied]
    /\ held' = held \cup ({ret[t]} \ {NULL})
    /\ req' = [req EXCEPT ![t] = NoCall]
    /\ ret' = [ret EXCEPT ![t] = NULL]
    /\ At(t, "idle")
    /\ UNCHANGED <<config, live, recs>>

ProxyStep(t) ==
    \/ OriginAllocates(t) \/ OriginFails(t) \/ OriginReleases(t)
    \/ OriginExits(t) \/ OriginResizes(t) \/ OriginMaps(t)
    \/ CacheRemove(t) \/ CacheInsert(t) \/ Leave(t)

ProxyNext ==
    \E t \in Threads :
        \/ \E kind \in Kinds, ptr \in Addrs \cup {NULL}, size \in Sizes :
              Enter(t, kind, ptr, size)
        \/ ProxyStep(t)

ProxySpec == ProxyInit /\ [][ProxyNext]_proxyVars

-----------------------------------------------------------------------------
(* Properties *)

\* Every variable has its type; cache->insert and cache->remove never get NULL.
ProxyTypeOK ==
    /\ guard \in [Threads -> BOOLEAN]
    /\ live \in [Addrs -> Alloc \cup {NULL}]
    /\ recs \in [Addrs -> Seq(0 .. UintRange - 1)]
    /\ held \subseteq {a \in Addrs : live[a] # NULL}
    /\ at \in [Threads -> {"idle", "origin", "remove", "insert", "return"}]
    /\ \A t \in Threads :
          /\ ret[t] \in Addrs \cup {NULL} /\ req[t].ptr \in Addrs \cup {NULL}
          /\ at[t] = "insert" => ret[t] # NULL
          /\ at[t] = "remove" => req[t].ptr # NULL

Quiescent == \A t \in Threads : at[t] = "idle"

\* A released address is not reported as a leak once the calls in progress
\* have returned, even though every proxy releases the memory before it
\* removes the record, and the address may be in use again by then.
FreedNotReported ==
    Quiescent => \A a \in Addrs : live[a] = NULL => recs[a] = <<>>

\* The report is the list of the allocations that were intercepted and not
\* released, each once and with its size: its total is the intercepted memory
\* that has not been released.
ReportIsIntercepted ==
    \A a \in Addrs :
        recs[a] = IF live[a] # NULL /\ live[a].recorded
                  THEN <<live[a].size>> ELSE <<>>

\* So it is when no call is in progress, if addresses are withheld from reuse
\* until the call that released them has removed their records.
TotalsExact == Quiescent /\ withheld => ReportIsIntercepted

\* The same of an allocator that may reuse an address at once.
TotalsExactAlways == Quiescent => ReportIsIntercepted
=============================================================================
