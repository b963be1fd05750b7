------------------------------- MODULE Raphael -------------------------------
(***************************************************************************)
(* The life of a monitoring session: Raphael.java's start, stop and print  *)
(* around one AtomicBoolean, the native Raphael::start, stop and print     *)
(* they call, and the application's threads, which run the proxies all the *)
(* while.  The proxies, once hooked, are never unhooked.                   *)
(*                                                                         *)
(* Every start makes a new MemoryCache; caches are numbered by it.         *)
(***************************************************************************)
EXTENDS Integers, FiniteSets

CONSTANTS
    Callers,    \* Java threads that call Raphael (RaphaelReceiver: the main one)
    Apps,       \* application threads that allocate
    MaxStarts,  \* bound on the number of sessions
    NULL

ASSUME LifeAssumption ==
    /\ MaxStarts \in Nat
    /\ Callers \cap Apps = {}
    /\ NULL \notin Nat \cup Callers \cup Apps

Sessions == 1 .. MaxStarts

VARIABLES
    sIsRunning,   \* the AtomicBoolean of Raphael.java
    jpc,          \* where each caller is
    stopping,     \* whether the print a caller runs is the one inside stop
    started,      \* number of sessions begun
    mSpace,       \* Raphael::mSpace: allocated or not
    mCache,       \* Raphael::mCache: a cache, or NULL
    cache,        \* the proxies' cache pointer, never set back to NULL
    object,       \* state of each MemoryCache
    monitoring,   \* isPss | isVss
    hooked,       \* whether the proxies are installed
    key,          \* session whose pthread key guard is valid, or NULL
    guard,        \* session whose guard each thread has set, or NULL
    apc,          \* where each application thread is in a proxy
    entered       \* the session in which it passed the proxy's test

native   == <<mSpace, mCache, cache, object, monitoring, hooked, key>>
java     == <<sIsRunning, jpc, stopping, started>>
appVars  == <<apc, entered>>
lifeVars == <<java, native, guard, appVars>>

Threads == Callers \cup Apps

LifeInit ==
    /\ sIsRunning = FALSE
    /\ jpc = [c \in Callers |-> "idle"]
    /\ stopping = [c \in Callers |-> FALSE]
    /\ started = 0
    /\ mSpace = FALSE
    /\ mCache = NULL
    /\ cache = NULL
    /\ object = [s \in Sessions |-> "none"]
    /\ monitoring = FALSE
    /\ hooked = FALSE
    /\ key = NULL
    /\ guard = [t \in Threads |-> NULL]
    /\ apc = [a \in Apps |-> "app"]
    /\ entered = [a \in Apps |-> NULL]

J(c, label) == jpc' = [jpc EXCEPT ![c] = label]

\* pthread_getspecific and pthread_setspecific: an invalid key reads as NULL
\* and cannot be set.
Guarded(t)  == key # NULL /\ guard[t] = key
SetGuard(t) == guard' = [guard EXCEPT ![t] = IF key # NULL THEN key ELSE @]
ClearGuard(t) == guard' = [guard EXCEPT ![t] = IF key # NULL THEN NULL ELSE @]

-----------------------------------------------------------------------------
(* start(configs, space, regex) *)

JavaStart(c) ==
    /\ jpc[c] = "idle"
    /\ started < MaxStarts
    /\ ~ sIsRunning
    /\ sIsRunning' = TRUE
    /\ J(c, "space")
    /\ UNCHANGED <<stopping, started, native, guard, appVars>>

StartSpace(c) ==
    /\ jpc[c] = "space"
    /\ mSpace' = TRUE
    /\ J(c, "new")
    /\ UNCHANGED <<sIsRunning, stopping, started, mCache, cache, object, monitoring,
                   hooked, key, guard, appVars>>

\* Mutant: the configuration is applied together with the new cache.
StartCacheOn(c) ==
    /\ jpc[c] = "new"
    /\ started < MaxStarts
    /\ started' = started + 1
    /\ object' = [object EXCEPT ![started + 1] = "raw"]
    /\ mCache' = started + 1
    /\ cache' = started + 1
    /\ monitoring' = TRUE
    /\ J(c, "hook")
    /\ UNCHANGED <<sIsRunning, stopping, mSpace, hooked, key, guard, appVars>>

\* new MemoryCache and update_configs(mCache, 0): the proxies see the new
\* cache, whose table and pool are not cleared yet, but must not use it.
StartCache(c) ==
    /\ jpc[c] = "new"
    /\ started < MaxStarts
    /\ started' = started + 1
    /\ object' = [object EXCEPT ![started + 1] = "raw"]
    /\ mCache' = started + 1
    /\ cache' = started + 1
    /\ monitoring' = FALSE
    /\ J(c, "hook")
    /\ UNCHANGED <<sIsRunning, stopping, mSpace, hooked, key, guard, appVars>>

\* registerSoLoadProxy or registerInlineProxy.
StartHook(c) ==
    /\ jpc[c] = "hook"
    /\ hooked' = TRUE
    /\ J(c, "reset")
    /\ UNCHANGED <<sIsRunning, stopping, started, mSpace, mCache, cache, object,
                   monitoring, key, guard, appVars>>

\* mCache->reset(), with mCache as it is now.
StartReset(c) ==
    /\ jpc[c] = "reset"
    /\ mCache # NULL
    /\ object' = [object EXCEPT ![mCache] = IF @ = "raw" THEN "ready" ELSE @]
    /\ J(c, "key")
    /\ UNCHANGED <<sIsRunning, stopping, started, mSpace, mCache, cache, monitoring,
                   hooked, key, guard, appVars>>

StartKey(c) ==
    /\ jpc[c] = "key"
    /\ key' = started
    /\ J(c, "on")
    /\ UNCHANGED <<sIsRunning, stopping, started, mSpace, mCache, cache, object,
                   monitoring, hooked, guard, appVars>>

\* update_configs(mCache, configs).
StartOn(c) ==
    /\ jpc[c] = "on"
    /\ cache' = IF mCache # NULL THEN mCache ELSE cache
    /\ monitoring' = TRUE
    /\ J(c, "idle")
    /\ UNCHANGED <<sIsRunning, stopping, started, mSpace, mCache, object, hooked, key,
                   guard, appVars>>

-----------------------------------------------------------------------------
(* stop() and print() *)

JavaStop(c) ==
    /\ jpc[c] = "idle"
    /\ sIsRunning
    /\ sIsRunning' = FALSE
    /\ J(c, "off")
    /\ UNCHANGED <<stopping, started, native, guard, appVars>>

\* Mutant: stop deletes before it prints.
StopOffDeletes(c) ==
    /\ jpc[c] = "off"
    /\ monitoring' = FALSE
    /\ stopping' = [stopping EXCEPT ![c] = TRUE]
    /\ object' = [object EXCEPT ![mCache] = "freed"]
    /\ J(c, "print")
    /\ UNCHANGED <<sIsRunning, started, mSpace, mCache, cache, hooked, key,
                   guard, appVars>>

\* update_configs(nullptr, 0) keeps the cache pointer.
StopOff(c) ==
    /\ jpc[c] = "off"
    /\ monitoring' = FALSE
    /\ stopping' = [stopping EXCEPT ![c] = TRUE]
    /\ J(c, "print")
    /\ UNCHANGED <<sIsRunning, started, mSpace, mCache, cache, object, hooked, key,
                   guard, appVars>>

\* The flag is only looked at: nothing keeps it as it is during nPrint().
JavaPrint(c) ==
    /\ jpc[c] = "idle"
    /\ sIsRunning
    /\ J(c, "print")
    /\ UNCHANGED <<sIsRunning, stopping, started, native, guard, appVars>>

PrintGuard(c) ==
    /\ jpc[c] = "print"
    /\ SetGuard(c)
    /\ J(c, "report")
    /\ UNCHANGED <<sIsRunning, stopping, started, native, appVars>>

\* clean_cache, mCache->print() and dump_system.  The thread frees memory
\* meanwhile (write_trace), with its guard set if there was a key to set.
PrintReport(c) ==
    /\ jpc[c] = "report"
    /\ J(c, "printed")
    /\ UNCHANGED <<sIsRunning, stopping, started, native, guard, appVars>>

PrintDone(c) ==
    /\ jpc[c] = "printed"
    /\ ClearGuard(c)
    /\ J(c, IF stopping[c] THEN "delete" ELSE "idle")
    /\ stopping' = [stopping EXCEPT ![c] = FALSE]
    /\ UNCHANGED <<sIsRunning, started, native, appVars>>

\* delete mCache; mCache = nullptr.
StopDelete(c) ==
    /\ jpc[c] = "delete"
    /\ object' = IF mCache = NULL THEN object ELSE [object EXCEPT ![mCache] = "freed"]
    /\ mCache' = NULL
    /\ J(c, "clear")
    /\ UNCHANGED <<sIsRunning, stopping, started, mSpace, cache, monitoring, hooked, key,
                   guard, appVars>>

\* Mutant: stop does not delete the key.
StopKeyKept(c) ==
    /\ jpc[c] = "clear"
    /\ J(c, "unspace")
    /\ UNCHANGED <<sIsRunning, stopping, started, native, guard, appVars>>

\* xh_core_clear() and pthread_key_delete(guard).
StopKey(c) ==
    /\ jpc[c] = "clear"
    /\ key' = NULL
    /\ J(c, "unspace")
    /\ UNCHANGED <<sIsRunning, stopping, started, mSpace, mCache, cache, object,
                   monitoring, hooked, guard, appVars>>

StopSpace(c) ==
    /\ jpc[c] = "unspace"
    /\ mSpace' = FALSE
    /\ J(c, "idle")
    /\ UNCHANGED <<sIsRunning, stopping, started, mCache, cache, object, monitoring,
                   hooked, key, guard, appVars>>

\* start while running, stop or print while not: a line in the log.
JavaRefused(c) ==
    /\ jpc[c] = "idle"
    /\ UNCHANGED lifeVars

CallerStep(c) ==
    \/ StartSpace(c) \/ StartCache(c) \/ StartHook(c) \/ StartReset(c)
    \/ StartKey(c) \/ StartOn(c)
    \/ StopOff(c) \/ StopDelete(c) \/ StopKey(c) \/ StopSpace(c)
    \/ PrintGuard(c) \/ PrintReport(c) \/ PrintDone(c)

-----------------------------------------------------------------------------
(* A proxy on an application thread *)

ProxyEnter(a) ==
    /\ apc[a] = "app"
    /\ hooked /\ monitoring /\ ~ Guarded(a)
    /\ SetGuard(a)
    /\ apc' = [apc EXCEPT ![a] = "in"]
    /\ entered' = [entered EXCEPT ![a] = started]
    /\ UNCHANGED <<java, native>>

\* cache->insert or cache->remove, on whatever cache points to by now.
ProxyUse(a) ==
    /\ apc[a] = "in"
    /\ apc' = [apc EXCEPT ![a] = "out"]
    /\ UNCHANGED <<java, native, guard, entered>>

\* Mutant: a proxy leaves its guard set.
ProxyLeaveGuarded(a) ==
    /\ apc[a] = "out"
    /\ apc' = [apc EXCEPT ![a] = "app"]
    /\ entered' = [entered EXCEPT ![a] = NULL]
    /\ UNCHANGED <<java, native, guard>>

ProxyLeave(a) ==
    /\ apc[a] = "out"
    /\ ClearGuard(a)
    /\ apc' = [apc EXCEPT ![a] = "app"]
    /\ entered' = [entered EXCEPT ![a] = NULL]
    /\ UNCHANGED <<java, native>>

LifeNext ==
    \/ \E c \in Callers : JavaStart(c) \/ JavaStop(c) \/ JavaPrint(c) \/ JavaRefused(c) \/ CallerStep(c)
    \/ \E a \in Apps : ProxyEnter(a) \/ ProxyUse(a) \/ ProxyLeave(a)

LifeSpec == LifeInit /\ [][LifeNext]_lifeVars

-----------------------------------------------------------------------------
(* Properties *)

\* Every variable has its type.
LifeTypeOK ==
    /\ sIsRunning \in BOOLEAN /\ monitoring \in BOOLEAN
    /\ hooked \in BOOLEAN /\ mSpace \in BOOLEAN
    /\ started \in 0 .. MaxStarts
    /\ mCache \in Sessions \cup {NULL} /\ cache \in Sessions \cup {NULL}
    /\ key \in Sessions \cup {NULL}
    /\ object \in [Sessions -> {"none", "raw", "ready", "freed"}]
    /\ guard \in [Threads -> Sessions \cup {NULL}]
    /\ apc \in [Apps -> {"app", "in", "out"}]
    /\ entered \in [Apps -> Sessions \cup {NULL}]

\* While the proxies are told to record, the cache they see is the current
\* session's, it has been reset, and the guard key exists: start switches
\* recording on last and stop switches it off first.
SessionReady ==
    monitoring => /\ cache = mCache /\ cache = started
                  /\ object[cache] = "ready"
                  /\ key = started
                  /\ mSpace

\* print() walks a cache that exists and has been reset, into a directory
\* whose name is still there, and with the thread's guard set: otherwise the
\* free() in write_trace would come back to alloc_mutex, which print() holds.
PrintSafe ==
    \A c \in Callers :
        jpc[c] = "report" => /\ mCache # NULL /\ object[mCache] = "ready"
                             /\ mSpace
                             /\ Guarded(c)

\* When monitoring has been stopped nothing of any session is left: each
\* cache was deleted, and so were the key and the directory name.
StopReleases ==
    ~ sIsRunning /\ (\A c \in Callers : jpc[c] = "idle") =>
        /\ \A s \in Sessions : object[s] \in {"none", "freed"}
        /\ mCache = NULL /\ key = NULL /\ ~ mSpace /\ ~ monitoring

\* A thread that is in no proxy and in no print() is not guarded: a guard left
\* behind, in this session or by a proxy that outlived an earlier one, would
\* hide all of its later allocations.
GuardReleased ==
    /\ \A a \in Apps : apc[a] = "app" => ~ Guarded(a)
    /\ \A c \in Callers : jpc[c] = "idle" => ~ Guarded(c)

\* After stop() no proxy works on the cache any more, and while it runs none
\* works on a cache that is deleted or not yet reset.
StopMeansStopped ==
    \A a \in Apps : apc[a] = "in" => object[cache] = "ready"
=============================================================================
