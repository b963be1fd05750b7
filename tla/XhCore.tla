------------------------------- MODULE XhCore -------------------------------
(***************************************************************************)
(* The core of the PLT/GOT hook engine (xh_core.c): hooks and ignores are  *)
(* registered, refresh() finds the libraries in /proc/self/maps and hooks  *)
(* the new ones, at once or on a worker thread, and clear() takes all of   *)
(* it down.  Reading a library that another thread unmaps meanwhile        *)
(* raises SIGSEGV, which the engine's handler turns into a skipped entry.  *)
(*                                                                         *)
(* A regular expression is the set of paths it matches.  Libraries come    *)
(* and go by themselves (dlopen and dlclose on other threads).             *)
(***************************************************************************)
EXTENDS Integers, Sequences

CONSTANTS
    Callers,        \* threads that call the engine
    Worker,         \* xh_core_refresh_thread_tid
    Paths,          \* path names in /proc/self/maps
    Bases,          \* addresses where a library may be mapped
    HookChoices,    \* what may be registered: [paths, symbol] records
    IgnoreChoices,  \* what may be ignored, symbol ALL for every one
    MaxHooks,       \* bounds on how many are registered
    MaxIgnores,
    ALL,            \* ii->symbol == NULL
    NULL

Threads == Callers \cup {Worker}
Symbols == {h.symbol : h \in HookChoices}
Lib     == [path : Paths, hooked : SUBSET Symbols, seen : BOOLEAN]
Line    == [path : Paths, base : Bases]

ASSUME XhAssumption ==
    /\ Bases \subseteq Nat /\ Worker \notin Callers
    /\ NULL \notin Nat \cup Threads \cup Lib \cup Line
    /\ \A h \in HookChoices \cup IgnoreChoices : h.paths \subseteq Paths
    /\ \A h \in HookChoices : h.symbol # ALL

VARIABLES
    inited, init_ok, async_inited, async_init_ok,
    running,        \* xh_core_refresh_thread_running
    requested,      \* xh_core_refresh_thread_do
    woken,          \* whether xh_core_cond was signalled to a waiting worker
    xh_core_mutex, refresh_mutex,
    handler,        \* the process's action for SIGSEGV
    act_old,        \* xh_core_sigsegv_act_old
    hook_info, ignore_info,
    map_info,       \* base address of each path hooked, or NULL
    pc, arg,        \* where each thread is, and the argument of its call
    refreshed,      \* local map_info_refreshed of the refresh in progress
    line,           \* the line it has read, NULL before the first
    before,         \* libraries that have been mapped ever since it began
    maps            \* what is mapped: path, symbols hooked, and whether a
                    \* refresh has hooked this very mapping

flags   == <<inited, init_ok, async_inited, async_init_ok, running, requested, woken>>
locks   == <<xh_core_mutex, refresh_mutex>>
action  == <<handler, act_old>>
lists   == <<hook_info, ignore_info>>
scan    == <<refreshed, line, before>>
xhVars  == <<flags, locks, action, lists, map_info, pc, arg, scan, maps>>

Goto(t, label) == pc' = [pc EXCEPT ![t] = label]

XhInit ==
    /\ inited = FALSE /\ init_ok = FALSE
    /\ async_inited = FALSE /\ async_init_ok = FALSE
    /\ running = FALSE /\ requested = FALSE /\ woken = FALSE
    /\ xh_core_mutex = NULL /\ refresh_mutex = NULL
    /\ handler = "app" /\ act_old = "none"
    /\ hook_info = <<>> /\ ignore_info = <<>>
    /\ map_info = [q \in Paths |-> NULL]
    /\ pc  = [t \in Threads |-> IF t = Worker THEN "none" ELSE "idle"]
    /\ arg = [t \in Threads |-> NULL]
    /\ refreshed = [q \in Paths |-> NULL]
    /\ line = NULL
    /\ before = {}
    /\ maps = [b \in Bases |-> NULL]

-----------------------------------------------------------------------------
(* register and ignore: refused after the first refresh *)

RegisterCall(t, h) ==
    /\ pc[t] = "idle"
    /\ ~ inited
    /\ Len(hook_info) < MaxHooks
    /\ Goto(t, "register")
    /\ arg' = [arg EXCEPT ![t] = h]
    /\ UNCHANGED <<flags, locks, action, lists, map_info, scan, maps>>

RegisterInsert(t) ==
    /\ pc[t] = "register"
    /\ xh_core_mutex = NULL
    /\ hook_info' = Append(hook_info, arg[t])
    /\ Goto(t, "idle")
    /\ arg' = [arg EXCEPT ![t] = NULL]
    /\ UNCHANGED <<flags, locks, action, ignore_info, map_info, scan, maps>>

IgnoreCall(t, i) ==
    /\ pc[t] = "idle"
    /\ ~ inited
    /\ Len(ignore_info) < MaxIgnores
    /\ Goto(t, "ignore")
    /\ arg' = [arg EXCEPT ![t] = i]
    /\ UNCHANGED <<flags, locks, action, lists, map_info, scan, maps>>

IgnoreInsert(t) ==
    /\ pc[t] = "ignore"
    /\ xh_core_mutex = NULL
    /\ ignore_info' = Append(ignore_info, arg[t])
    /\ Goto(t, "idle")
    /\ arg' = [arg EXCEPT ![t] = NULL]
    /\ UNCHANGED <<flags, locks, action, hook_info, map_info, scan, maps>>

-----------------------------------------------------------------------------
(* refresh(async) *)

RefreshCall(t, async) ==
    /\ pc[t] = "idle"
    /\ Goto(t, "init")
    /\ arg' = [arg EXCEPT ![t] = async]
    /\ UNCHANGED <<flags, locks, action, lists, map_info, scan, maps>>

\* xh_core_init_once, until it has set inited; a thread that finds it set,
\* before or after taking the lock, goes on.
InitOnce(t) ==
    /\ pc[t] = "init"
    /\ \/ /\ inited
          /\ Goto(t, "inited")
          /\ UNCHANGED <<inited, xh_core_mutex>>
       \/ /\ ~ inited /\ xh_core_mutex = NULL
          /\ inited' = TRUE
          /\ xh_core_mutex' = t
          /\ Goto(t, "handler")
    /\ UNCHANGED <<init_ok, async_inited, async_init_ok, running, requested, woken,
                   refresh_mutex, action, lists, map_info, arg, scan, maps>>

\* xh_core_add_sigsegv_handler, which may fail.
AddHandler(t) ==
    /\ pc[t] = "handler"
    /\ \/ handler' = "xh" /\ act_old' = handler /\ init_ok' = TRUE
       \/ UNCHANGED <<handler, act_old, init_ok>>
    /\ xh_core_mutex' = NULL
    /\ Goto(t, "inited")
    /\ UNCHANGED <<inited, async_inited, async_init_ok, running, requested, woken,
                   refresh_mutex, lists, map_info, arg, scan, maps>>

RefreshBranch(t) ==
    /\ pc[t] = "inited"
    /\ \/ ~ init_ok /\ Goto(t, "idle")
       \/ init_ok /\ Goto(t, IF arg[t] THEN "async" ELSE "refresh")
    /\ arg' = [arg EXCEPT ![t] = NULL]
    /\ UNCHANGED <<flags, locks, action, lists, map_info, scan, maps>>

\* xh_core_init_async_once, which may fail to create the worker.
InitAsyncOnce(t) ==
    /\ pc[t] = "async"
    /\ \/ async_inited /\ UNCHANGED <<async_inited, async_init_ok, running>> /\ Goto(t, "signal")
       \/ /\ ~ async_inited /\ xh_core_mutex = NULL
          /\ async_inited' = TRUE
          /\ \/ /\ running' = TRUE
                /\ async_init_ok' = TRUE
                /\ pc' = [pc EXCEPT ![t] = "signal", ![Worker] = "loop"]
             \/ running' = FALSE /\ UNCHANGED async_init_ok /\ Goto(t, "signal")
    /\ UNCHANGED <<inited, init_ok, requested, woken, locks, action, lists, map_info,
                   arg, scan, maps>>

Signal == woken' = (woken \/ pc[Worker] = "wait")

\* Mutant: the request is made without waking the worker.
RefreshSignalNot(t) ==
    /\ pc[t] = "signal"
    /\ \/ ~ async_init_ok /\ UNCHANGED <<requested, woken>>
       \/ async_init_ok /\ xh_core_mutex = NULL /\ requested' = TRUE /\ UNCHANGED woken
    /\ Goto(t, "idle")
    /\ UNCHANGED <<inited, init_ok, async_inited, async_init_ok, running, locks, action,
                   lists, map_info, arg, scan, maps>>

RefreshSignal(t) ==
    /\ pc[t] = "signal"
    /\ \/ ~ async_init_ok /\ UNCHANGED <<requested, woken>>
       \/ async_init_ok /\ xh_core_mutex = NULL /\ requested' = TRUE /\ Signal
    /\ Goto(t, "idle")
    /\ UNCHANGED <<inited, init_ok, async_inited, async_init_ok, running, locks, action,
                   lists, map_info, arg, scan, maps>>

-----------------------------------------------------------------------------
(* The worker *)

WorkerLoop ==
    /\ pc[Worker] = "loop"
    /\ Goto(Worker, IF running THEN "lock" ELSE "exited")
    /\ UNCHANGED <<flags, locks, action, lists, map_info, arg, scan, maps>>

\* Mutant: the worker waits for a request even when it is to exit.
WorkerLockDeaf ==
    /\ pc[Worker] = "lock"
    /\ xh_core_mutex = NULL
    /\ \/ ~ requested /\ UNCHANGED requested /\ Goto(Worker, "wait")
       \/ ~ running /\ requested /\ UNCHANGED requested /\ Goto(Worker, "exited")
       \/ running /\ requested /\ requested' = FALSE /\ Goto(Worker, "refresh")
    /\ UNCHANGED <<inited, init_ok, async_inited, async_init_ok, running, woken, locks,
                   action, lists, map_info, arg, scan, maps>>

\* With xh_core_mutex held: wait for the signal, exit, or take the request.
WorkerLock ==
    /\ pc[Worker] = "lock"
    /\ xh_core_mutex = NULL
    /\ \/ running /\ ~ requested /\ UNCHANGED requested /\ Goto(Worker, "wait")
       \/ ~ running /\ UNCHANGED requested /\ Goto(Worker, "exited")
       \/ running /\ requested /\ requested' = FALSE /\ Goto(Worker, "refresh")
    /\ UNCHANGED <<inited, init_ok, async_inited, async_init_ok, running, woken, locks,
                   action, lists, map_info, arg, scan, maps>>

WorkerWake ==
    /\ pc[Worker] = "wait"
    /\ woken
    /\ woken' = FALSE
    /\ Goto(Worker, "lock")
    /\ UNCHANGED <<inited, init_ok, async_inited, async_init_ok, running, requested,
                   locks, action, lists, map_info, arg, scan, maps>>

-----------------------------------------------------------------------------
(* refresh_impl(), on a caller's thread or on the worker's *)

\* xh_core_hook_impl: an ignore exempts its symbol, or all of them.
Exempt(h, q) ==
    \E k \in DOMAIN ignore_info :
        q \in ignore_info[k].paths /\ ignore_info[k].symbol \in {ALL, h.symbol}
HookSet(q) ==
    {hook_info[k].symbol : k \in {j \in DOMAIN hook_info :
        q \in hook_info[j].paths /\ ~ Exempt(hook_info[j], q)}}

\* "if we need to hook this elf?": the first hook that matches decides, since
\* check_continue leaves the loop whether that hook is exempt or not.
Wanted(q) ==
    \E k \in DOMAIN hook_info :
        /\ q \in hook_info[k].paths
        /\ \A j \in 1 .. k - 1 : q \notin hook_info[j].paths
        /\ ~ Exempt(hook_info[k], q)

\* refresh_impl returns; the worker goes on with its loop.
Finish(t) ==
    /\ refresh_mutex' = NULL
    /\ Goto(t, IF t = Worker THEN "loop" ELSE "idle")

RefreshLock(t) ==
    /\ pc[t] = "refresh"
    /\ refresh_mutex = NULL
    /\ refresh_mutex' = t
    /\ Goto(t, "open")
    /\ UNCHANGED <<flags, xh_core_mutex, action, lists, map_info, arg, scan, maps>>

ScanOpen(t) ==
    /\ pc[t] = "open"
    /\ before' = {b \in Bases : maps[b] # NULL}
    /\ Goto(t, "scan")
    /\ UNCHANGED <<flags, locks, action, lists, map_info, arg, refreshed, line, maps>>

ScanOpenFails(t) ==
    /\ pc[t] = "open"
    /\ Finish(t)
    /\ UNCHANGED <<flags, xh_core_mutex, action, lists, map_info, arg, scan, maps>>

\* Libraries on the lines still to be read.
Ahead == {b \in Bases : maps[b] # NULL /\ (line # NULL => line.base < b)}

ScanLine(t) ==
    /\ pc[t] = "scan"
    /\ \E b \in Ahead :
          /\ \A c \in Ahead : b <= c
          /\ line' = [path |-> maps[b].path, base |-> b]
          /\ Goto(t, IF Wanted(maps[b].path) THEN "check" ELSE "scan")
    /\ UNCHANGED <<flags, locks, action, lists, map_info, arg, refreshed, before, maps>>

\* xh_core_check_elf_header: the library may be gone by now.
ScanCheck(t) ==
    /\ pc[t] = "check"
    /\ Goto(t, IF maps[line.base] # NULL THEN "update" ELSE "scan")
    /\ UNCHANGED <<flags, locks, action, lists, map_info, arg, scan, maps>>

\* xh_core_hook, of whatever is mapped at b by now; a fault is skipped.
Hook(q, b) ==
    maps' = IF maps[b] = NULL THEN maps
            ELSE [maps EXCEPT ![b].hooked = @ \cup HookSet(q),
                              ![b].seen = @ \/ maps[b].path = q]

\* Mutant: an entry of the old tree is not moved to the new one.
ScanUpdateStays(t) ==
    /\ pc[t] = "update"
    /\ UNCHANGED map_info
    /\ \/ (refreshed[line.path] # NULL \/ map_info[line.path] = line.base)
             /\ UNCHANGED <<refreshed, maps>>
       \/ /\ refreshed[line.path] = NULL /\ map_info[line.path] # line.base
          /\ refreshed' = [refreshed EXCEPT ![line.path] = line.base]
          /\ Hook(line.path, line.base)
    /\ Goto(t, "scan")
    /\ UNCHANGED <<flags, locks, action, lists, arg, line, before>>

\* The entry moves from the old tree to the new one, unless the path has one
\* there already; it is hooked if it is new or its base address has changed.
ScanUpdate(t) ==
    /\ pc[t] = "update"
    /\ map_info' = [map_info EXCEPT ![line.path] = NULL]
    /\ \/ refreshed[line.path] # NULL /\ UNCHANGED <<refreshed, maps>>
       \/ /\ refreshed[line.path] = NULL
          /\ refreshed' = [refreshed EXCEPT ![line.path] = line.base]
          /\ IF map_info[line.path] = line.base THEN UNCHANGED maps
                                                ELSE Hook(line.path, line.base)
    /\ Goto(t, "scan")
    /\ UNCHANGED <<flags, locks, action, lists, arg, line, before>>

\* What is left in the old tree is freed, and the new one takes its place.
ScanEnd(t) ==
    /\ pc[t] = "scan"
    /\ Ahead = {}
    /\ map_info' = refreshed
    /\ refreshed' = [q \in Paths |-> NULL]
    /\ line' = NULL
    /\ before' = {}
    /\ Finish(t)
    /\ UNCHANGED <<flags, xh_core_mutex, action, lists, arg, maps>>

-----------------------------------------------------------------------------
(* clear() *)

ClearCall(t) ==
    /\ pc[t] = "idle"
    /\ Goto(t, "clear")
    /\ UNCHANGED <<flags, locks, action, lists, map_info, arg, scan, maps>>

\* Mutant: the handler is removed before the worker has been joined.
ClearStopUnprotected(t) ==
    /\ pc[t] = "clear"
    /\ \/ ~ async_init_ok /\ UNCHANGED <<running, woken, action>> /\ Goto(t, "uninit")
       \/ /\ async_init_ok /\ xh_core_mutex = NULL
          /\ running' = FALSE
          /\ handler' = act_old /\ UNCHANGED act_old
          /\ Signal
          /\ Goto(t, "join")
    /\ UNCHANGED <<inited, init_ok, async_inited, async_init_ok, requested, locks,
                   lists, map_info, arg, scan, maps>>

ClearStop(t) ==
    /\ pc[t] = "clear"
    /\ \/ ~ async_init_ok /\ UNCHANGED <<running, woken>> /\ Goto(t, "uninit")
       \/ /\ async_init_ok /\ xh_core_mutex = NULL
          /\ running' = FALSE
          /\ Signal
          /\ Goto(t, "join")
    /\ UNCHANGED <<inited, init_ok, async_inited, async_init_ok, requested, locks, action,
                   lists, map_info, arg, scan, maps>>

ClearJoin(t) ==
    /\ pc[t] = "join"
    /\ pc[Worker] = "exited"
    /\ async_init_ok' = FALSE
    /\ pc' = [pc EXCEPT ![t] = "uninit", ![Worker] = "none"]
    /\ UNCHANGED <<inited, init_ok, async_inited, running, requested, woken, locks,
                   action, lists, map_info, arg, scan, maps>>

\* Mutant: init_ok is cleared before it is tested, so the handler stays.
ClearHandlerStays(t) ==
    /\ pc[t] = "uninit"
    /\ async_inited' = FALSE
    /\ init_ok' = FALSE
    /\ inited' = FALSE
    /\ Goto(t, "lock")
    /\ UNCHANGED <<async_init_ok, running, requested, woken, locks, action, lists,
                   map_info, arg, scan, maps>>

ClearHandler(t) ==
    /\ pc[t] = "uninit"
    /\ async_inited' = FALSE
    /\ handler' = IF init_ok THEN act_old ELSE handler
    /\ init_ok' = FALSE
    /\ inited' = FALSE
    /\ Goto(t, "lock")
    /\ UNCHANGED <<async_init_ok, running, requested, woken, locks, act_old, lists,
                   map_info, arg, scan, maps>>

ClearLock(t) ==
    /\ pc[t] = "lock"
    /\ xh_core_mutex = NULL
    /\ xh_core_mutex' = t
    /\ Goto(t, "free")
    /\ UNCHANGED <<flags, refresh_mutex, action, lists, map_info, arg, scan, maps>>

\* Mutant: the map info is kept.
ClearFreeKeeps(t) ==
    /\ pc[t] = "free"
    /\ refresh_mutex = NULL
    /\ hook_info' = <<>> /\ ignore_info' = <<>>
    /\ xh_core_mutex' = NULL
    /\ Goto(t, "idle")
    /\ UNCHANGED <<flags, refresh_mutex, action, map_info, arg, scan, maps>>

ClearFree(t) ==
    /\ pc[t] = "free"
    /\ refresh_mutex = NULL
    /\ map_info' = [q \in Paths |-> NULL]
    /\ hook_info' = <<>> /\ ignore_info' = <<>>
    /\ xh_core_mutex' = NULL
    /\ Goto(t, "idle")
    /\ UNCHANGED <<flags, refresh_mutex, action, arg, scan, maps>>

-----------------------------------------------------------------------------
(* The process *)

Load(b, q) ==
    /\ maps[b] = NULL
    /\ maps' = [maps EXCEPT ![b] = [path |-> q, hooked |-> {}, seen |-> FALSE]]
    /\ UNCHANGED <<flags, locks, action, lists, map_info, pc, arg, scan>>

Unload(b) ==
    /\ maps[b] # NULL
    /\ maps' = [maps EXCEPT ![b] = NULL]
    /\ before' = before \ {b}
    /\ UNCHANGED <<flags, locks, action, lists, map_info, pc, arg, refreshed, line>>

-----------------------------------------------------------------------------
ScanStep(t) ==
    \/ RefreshLock(t) \/ ScanOpen(t) \/ ScanOpenFails(t) \/ ScanLine(t)
    \/ ScanCheck(t) \/ ScanUpdate(t) \/ ScanEnd(t)

CallerStep(t) ==
    \/ RegisterInsert(t) \/ IgnoreInsert(t)
    \/ InitOnce(t) \/ AddHandler(t) \/ RefreshBranch(t)
    \/ InitAsyncOnce(t) \/ RefreshSignal(t)
    \/ ClearStop(t) \/ ClearJoin(t) \/ ClearHandler(t) \/ ClearLock(t) \/ ClearFree(t)
    \/ ScanStep(t)

WorkerStep == WorkerLoop \/ WorkerLock \/ WorkerWake \/ ScanStep(Worker)

XhNext ==
    \/ \E t \in Callers :
          \/ \E h \in HookChoices : RegisterCall(t, h)
          \/ \E i \in IgnoreChoices : IgnoreCall(t, i)
          \/ \E async \in BOOLEAN : RefreshCall(t, async)
          \/ ClearCall(t) \/ CallerStep(t)
    \/ WorkerStep
    \/ \E b \in Bases : Unload(b) \/ \E q \in Paths : Load(b, q)

XhSpec == XhInit /\ [][XhNext]_xhVars

(* Threads keep running, and a mutex that is released again and again is    *)
(* obtained in the end.  Libraries come and go as they like.                *)
FairXhSpec ==
    /\ XhSpec
    /\ \A t \in Callers : SF_xhVars(CallerStep(t))
    /\ SF_xhVars(WorkerStep)

-----------------------------------------------------------------------------
(* Properties *)

\* Every variable has its type.
XhTypeOK ==
    /\ {inited, init_ok, async_inited, async_init_ok, running, requested, woken}
          \subseteq BOOLEAN
    /\ xh_core_mutex \in Callers \cup {NULL} /\ refresh_mutex \in Threads \cup {NULL}
    /\ handler \in {"app", "xh"} /\ act_old \in {"none", "app"}
    /\ map_info \in [Paths -> Bases \cup {NULL}]
    /\ refreshed \in [Paths -> Bases \cup {NULL}]
    /\ before \subseteq {b \in Bases : maps[b] # NULL}
    /\ maps \in [Bases -> Lib \cup {NULL}]

\* Whenever a refresh touches the memory of a library, which may be gone, the
\* engine's SIGSEGV handler is installed: clear() joins the worker before it
\* takes the handler away.
Protected ==
    \A t \in Threads : pc[t] \in {"check", "update"} => handler = "xh" /\ act_old = "app"

\* Once the engine has been cleared the process has its own handler back, and
\* no worker is left.
ClearRestores ==
    ~ inited /\ (\A t \in Callers : pc[t] \in {"idle", "register", "ignore"}) =>
        /\ handler = "app"
        /\ pc[Worker] = "none"

\* Between refreshes, a library the engine remembers has all of its hooks, if
\* it is still the mapping that was hooked: also after a clear() and other
\* registrations, and when the scan met the library in the middle of a reload.
HooksInPlace ==
    refresh_mutex = NULL =>
        \A q \in Paths :
            LET b == map_info[q] IN
            b # NULL /\ maps[b] # NULL /\ maps[b].path = q /\ maps[b].seen
                => HookSet(q) \subseteq maps[b].hooked

\* A scan at its end has found every library with hooks to apply that was
\* mapped all along.
Found(q) ==
    \A t \in Threads :
        pc[t] = "scan" /\ Ahead = {} /\ HookSet(q) # {} =>
            \A b \in before : maps[b].path = q => refreshed[q] # NULL

\* No hook of q is exempt while another is not.
Uniform(q) ==
    \A k \in DOMAIN hook_info : q \in hook_info[k].paths /\ HookSet(q) # {} =>
        hook_info[k].symbol \in HookSet(q)

\* refresh() finds every library it should, whatever comes and goes during the
\* scan, unless only some of the library's hooks are exempt.
RefreshComplete == \A q \in Paths : Uniform(q) => Found(q)

\* An ignore for one symbol leaves the other hooks of the library alone.
IgnorePerSymbol == \A q \in Paths : Found(q)

\* An asynchronous refresh that was requested is started, unless the engine is
\* cleared: no wake-up of the worker is lost.
RequestServed == requested /\ running ~> ~ requested \/ ~ running

\* Every call returns: in particular clear() joins a worker that waits for a
\* signal, for a mutex or for the end of its scan.
XhReturns == \A t \in Callers : pc[t] # "idle" ~> pc[t] = "idle"
=============================================================================
