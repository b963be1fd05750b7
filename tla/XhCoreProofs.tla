---------------------------- MODULE XhCoreProofs ----------------------------
(***************************************************************************)
(* Proofs about the core of the hook engine, for every set of libraries,   *)
(* hooks and ignores, and for any traffic of dlopen and dlclose.           *)
(*                                                                         *)
(* The engine is driven by one thread (Raphael.cpp registers, refreshes    *)
(* and clears on the thread that starts and stops the session), beside the *)
(* worker of an asynchronous refresh.                                      *)
(***************************************************************************)
EXTENDS XhCore, TLAPS, WellFoundedInduction

OneDriver == \E c : Callers = {c}

-----------------------------------------------------------------------------
(* The inductive invariant; c is the one caller. *)

TouchPcs  == {"check", "update"}                \* reads a library's memory
ScanPcs   == TouchPcs \cup {"scan"}             \* has opened /proc/self/maps
HoldPcs   == ScanPcs \cup {"open"}              \* holds refresh_mutex
RefreshPcs == HoldPcs \cup {"refresh"}
WorkerPcs == RefreshPcs \cup {"none", "loop", "lock", "wait", "exited"}
CallerPcs == RefreshPcs \cup {"idle", "register", "ignore", "init", "handler",
                "inited", "async", "signal", "clear", "join", "uninit", "lock", "free"}

NoBase == [q \in Paths |-> NULL]

FlagTypes ==
    /\ inited \in BOOLEAN /\ init_ok \in BOOLEAN
    /\ async_inited \in BOOLEAN /\ async_init_ok \in BOOLEAN
    /\ running \in BOOLEAN /\ requested \in BOOLEAN /\ woken \in BOOLEAN
    /\ xh_core_mutex \in Callers \cup {NULL}
    /\ refresh_mutex \in Threads \cup {NULL}

\* The labels of the caller and of the worker, and the caller's argument.
ThreadTypes(c) ==
    /\ pc \in [Threads -> CallerPcs \cup WorkerPcs]
    /\ pc[c] \in CallerPcs /\ pc[Worker] \in WorkerPcs
    /\ DOMAIN arg = Threads
    /\ pc[c] = "register" => arg[c] \in HookChoices
    /\ pc[c] = "ignore" => arg[c] \in IgnoreChoices

DataTypes ==
    /\ hook_info \in Seq(HookChoices) /\ ignore_info \in Seq(IgnoreChoices)
    /\ map_info \in [Paths -> Bases \cup {NULL}]
    /\ refreshed \in [Paths -> Bases \cup {NULL}]
    /\ line \in Line \cup {NULL}
    /\ maps \in [Bases -> Lib \cup {NULL}]
    /\ before \subseteq {b \in Bases : maps[b] # NULL}

\* What the flags say of the handler and of the worker, and what the caller
\* may rely on wherever it is.
EngineInv(c) ==
    /\ handler = IF init_ok THEN "xh" ELSE "app"
    /\ act_old \in {"none", "app"}
    /\ init_ok => inited /\ act_old = "app"
    /\ async_init_ok => init_ok /\ async_inited
    /\ async_init_ok <=> pc[Worker] # "none"
    /\ pc[c] = "handler" => inited /\ ~ init_ok
    /\ pc[c] \in RefreshPcs \cup {"async", "signal"} => init_ok
    /\ pc[c] \in {"uninit", "lock", "free"} => ~ async_init_ok
    /\ pc[c] \in {"lock", "free", "register", "ignore"} => ~ inited

\* refresh_mutex covers a scan, and a scan's local state is gone when it ends.
ScanInv ==
    /\ \A t \in Threads : refresh_mutex = t <=> pc[t] \in HoldPcs
    /\ (\A t \in Threads : pc[t] \notin ScanPcs) =>
          line = NULL /\ refreshed = NoBase /\ before = {}
    /\ \A t \in Threads : pc[t] \in TouchPcs => line # NULL

BaseInv(c) == FlagTypes /\ ThreadTypes(c) /\ DataTypes /\ EngineInv(c) /\ ScanInv

\* A library in tree m has its hooks, if it is the mapping that was hooked.
Placed(m) ==
    \A q \in Paths :
        m[q] # NULL /\ maps[m[q]] # NULL /\ maps[m[q]].path = q /\ maps[m[q]].seen
            => HookSet(q) \subseteq maps[m[q]].hooked

\* Both trees are sound, and the old one is empty while hooks are registered.
TreeInv(c) ==
    /\ Placed(map_info) /\ Placed(refreshed)
    /\ ~ inited /\ pc[c] \notin {"lock", "free"} => map_info = NoBase

\* A library mapped since the scan began has been found, is being looked at,
\* or is on a line still to be read.
FoundInv ==
    \A t \in Threads : pc[t] \in ScanPcs =>
        \A b \in before :
            HookSet(maps[b].path) # {} /\ Uniform(maps[b].path) =>
                \/ refreshed[maps[b].path] # NULL
                \/ b \in Ahead
                \/ pc[t] \in TouchPcs /\ line = [path |-> maps[b].path, base |-> b]

XhInv(c) == BaseInv(c) /\ TreeInv(c) /\ FoundInv

-----------------------------------------------------------------------------
(* Types, flags and the mutex of a refresh. *)

\* Nothing is registered, mapped or running.
LEMMA InitInv == ASSUME NEW c, Callers = {c}, XhInit PROVE XhInv(c)
<1> USE DEF XhInit, NoBase, Threads, RefreshPcs, HoldPcs, ScanPcs, TouchPcs
<1>c. c \in Threads /\ Worker \in Threads /\ c # Worker
      BY XhAssumption
<1>1. FlagTypes
      BY Zenon DEF FlagTypes
<1>6. ThreadTypes(c)
      BY <1>c DEF ThreadTypes, CallerPcs, WorkerPcs
<1>7. DataTypes
      BY DEF DataTypes
<1>2. EngineInv(c)
      BY DEF EngineInv
<1>3. ScanInv
      BY XhAssumption DEF ScanInv
<1>4. TreeInv(c)
      BY DEF TreeInv, Placed
<1>5. FoundInv
      BY DEF FoundInv
<1> QED
    BY <1>1, <1>2, <1>3, <1>4, <1>5, <1>6, <1>7 DEF XhInv, BaseInv

\* xh_core_hook at b leaves b's path and every other library alone, and only
\* adds hooks; the library it was called for becomes one that has been hooked.
LEMMA HookKeeps ==
    ASSUME DataTypes, NEW q \in Paths, NEW b \in Bases, Hook(q, b)
    PROVE  /\ maps' \in [Bases -> Lib \cup {NULL}]
           /\ \A d \in Bases : maps[d] = NULL <=> maps'[d] = NULL
           /\ \A d \in Bases : maps[d] # NULL =>
                 /\ maps'[d].path = maps[d].path
                 /\ maps[d].hooked \subseteq maps'[d].hooked
                 /\ d # b => maps'[d] = maps[d]
                 /\ d = b => /\ HookSet(q) \subseteq maps'[d].hooked
                             /\ maps'[d].seen <=> maps[d].seen \/ maps[d].path = q
<1>1. CASE maps[b] = NULL
      BY <1>1 DEF Hook, DataTypes
<1>2. CASE maps[b] # NULL
  <2> DEFINE new == [path |-> maps[b].path, hooked |-> maps[b].hooked \cup HookSet(q),
                     seen |-> maps[b].seen \/ maps[b].path = q]
  <2>1. maps[b] \in Lib
        BY <1>2 DEF DataTypes
  <2>2. HookSet(q) \subseteq Symbols
        BY DEF HookSet, Symbols, DataTypes
  <2>3. new \in Lib
        BY <2>1, <2>2 DEF Lib
  <2>4. maps' = [maps EXCEPT ![b] = new]
    <3> DEFINE mid == [maps EXCEPT ![b].hooked = @ \cup HookSet(q)]
    <3>1. maps' = [mid EXCEPT ![b].seen = @ \/ maps[b].path = q]
          BY <1>2 DEF Hook
    <3>2. DOMAIN maps = Bases /\ DOMAIN mid = Bases /\ DOMAIN maps' = Bases
          BY <3>1 DEF DataTypes
    <3>3. \A d \in Bases \ {b} : maps'[d] = maps[d]
          BY <3>1, <3>2
    <3>4. /\ mid[b] = [maps[b] EXCEPT !.hooked = @ \cup HookSet(q)]
          /\ maps'[b] = [mid[b] EXCEPT !.seen = @ \/ maps[b].path = q]
          BY <3>1, <3>2
    <3>5. maps'[b] = new
          BY <2>1, <3>4 DEF Lib
    <3> QED
        BY <3>1, <3>5
  <2>5. NULL \notin Lib
        BY XhAssumption
  <2> QED
      BY <1>2, <2>3, <2>4, <2>5 DEF DataTypes
<1> QED
    BY <1>1, <1>2

\* Every step of the caller, of the worker and of the process keeps them.
LEMMA BaseNext ==
    ASSUME NEW c, Callers = {c}, BaseInv(c), [XhNext]_xhVars
    PROVE  BaseInv(c)'
<1> USE DEF BaseInv, flags, locks, action, lists, scan, Goto
<1>c. /\ c \in Threads /\ Worker \in Threads /\ c # Worker /\ Threads = {c, Worker}
      /\ NULL \notin Threads /\ NULL \notin Line /\ NULL \notin Lib
      BY XhAssumption DEF Threads
<1>1. ASSUME NEW h \in HookChoices, RegisterCall(c, h) PROVE BaseInv(c)'
  <2>1. FlagTypes'
        BY <1>1 DEF RegisterCall, FlagTypes
  <2>2. ThreadTypes(c)'
        BY <1>c, <1>1 DEF RegisterCall, ThreadTypes, CallerPcs
  <2>3. DataTypes'
        BY <1>1 DEF RegisterCall, DataTypes
  <2>4. EngineInv(c)'
        BY <1>1
        DEF RegisterCall, EngineInv, RefreshPcs, HoldPcs, ScanPcs, TouchPcs
  <2>5. ScanInv'
        BY <1>1 DEF RegisterCall, ScanInv, HoldPcs, ScanPcs, TouchPcs
  <2> QED
      BY <2>1, <2>2, <2>3, <2>4, <2>5
<1>2. ASSUME RegisterInsert(c) PROVE BaseInv(c)'
  <2>1. FlagTypes'
        BY <1>2 DEF RegisterInsert, FlagTypes
  <2>2. ThreadTypes(c)'
        BY <1>c, <1>2 DEF RegisterInsert, ThreadTypes, CallerPcs
  <2>3. DataTypes'
        BY <1>2 DEF RegisterInsert, DataTypes, ThreadTypes
  <2>4. EngineInv(c)'
        BY <1>2
        DEF RegisterInsert, EngineInv, RefreshPcs, HoldPcs, ScanPcs, TouchPcs
  <2>5. ScanInv'
        BY <1>2 DEF RegisterInsert, ScanInv, HoldPcs, ScanPcs, TouchPcs
  <2> QED
      BY <2>1, <2>2, <2>3, <2>4, <2>5
<1>3. ASSUME NEW i \in IgnoreChoices, IgnoreCall(c, i) PROVE BaseInv(c)'
  <2>1. FlagTypes'
        BY <1>3 DEF IgnoreCall, FlagTypes
  <2>2. ThreadTypes(c)'
        BY <1>c, <1>3 DEF IgnoreCall, ThreadTypes, CallerPcs
  <2>3. DataTypes'
        BY <1>3 DEF IgnoreCall, DataTypes
  <2>4. EngineInv(c)'
        BY <1>3
        DEF IgnoreCall, EngineInv, RefreshPcs, HoldPcs, ScanPcs, TouchPcs
  <2>5. ScanInv'
        BY <1>3 DEF IgnoreCall, ScanInv, HoldPcs, ScanPcs, TouchPcs
  <2> QED
      BY <2>1, <2>2, <2>3, <2>4, <2>5
<1>4. ASSUME IgnoreInsert(c) PROVE BaseInv(c)'
  <2>1. FlagTypes'
        BY <1>4 DEF IgnoreInsert, FlagTypes
  <2>2. ThreadTypes(c)'
        BY <1>c, <1>4 DEF IgnoreInsert, ThreadTypes, CallerPcs
  <2>3. DataTypes'
        BY <1>4 DEF IgnoreInsert, DataTypes, ThreadTypes
  <2>4. EngineInv(c)'
        BY <1>4
        DEF IgnoreInsert, EngineInv, RefreshPcs, HoldPcs, ScanPcs, TouchPcs
  <2>5. ScanInv'
        BY <1>4 DEF IgnoreInsert, ScanInv, HoldPcs, ScanPcs, TouchPcs
  <2> QED
      BY <2>1, <2>2, <2>3, <2>4, <2>5
<1>5. ASSUME NEW async \in BOOLEAN, RefreshCall(c, async) PROVE BaseInv(c)'
  <2>1. FlagTypes'
        BY <1>5 DEF RefreshCall, FlagTypes
  <2>2. ThreadTypes(c)'
        BY <1>c, <1>5 DEF RefreshCall, ThreadTypes, CallerPcs
  <2>3. DataTypes'
        BY <1>5 DEF RefreshCall, DataTypes
  <2>4. EngineInv(c)'
        BY <1>5
        DEF RefreshCall, EngineInv, RefreshPcs, HoldPcs, ScanPcs, TouchPcs
  <2>5. ScanInv'
        BY <1>5 DEF RefreshCall, ScanInv, HoldPcs, ScanPcs, TouchPcs
  <2> QED
      BY <2>1, <2>2, <2>3, <2>4, <2>5
<1>6. ASSUME InitOnce(c) PROVE BaseInv(c)'
  <2>1. FlagTypes'
        BY <1>6 DEF InitOnce, FlagTypes
  <2>2. ThreadTypes(c)'
        BY <1>c, <1>6 DEF InitOnce, ThreadTypes, CallerPcs
  <2>3. DataTypes'
        BY <1>6 DEF InitOnce, DataTypes
  <2>4. EngineInv(c)'
        BY <1>c, <1>6
        DEF InitOnce, ThreadTypes, EngineInv, RefreshPcs, HoldPcs, ScanPcs,
            TouchPcs
  <2>5. ScanInv'
        BY <1>6 DEF InitOnce, ThreadTypes, ScanInv, HoldPcs, ScanPcs, TouchPcs
  <2> QED
      BY <2>1, <2>2, <2>3, <2>4, <2>5
<1>7. ASSUME AddHandler(c) PROVE BaseInv(c)'
  <2>1. FlagTypes'
        BY <1>7 DEF AddHandler, FlagTypes
  <2>2. ThreadTypes(c)'
        BY <1>c, <1>7 DEF AddHandler, ThreadTypes, CallerPcs
  <2>3. DataTypes'
        BY <1>7 DEF AddHandler, DataTypes
  <2>4. EngineInv(c)'
        BY <1>c, <1>7
        DEF AddHandler, ThreadTypes, EngineInv, RefreshPcs, HoldPcs, ScanPcs,
            TouchPcs
  <2>5. ScanInv'
        BY <1>7 DEF AddHandler, ScanInv, HoldPcs, ScanPcs, TouchPcs
  <2> QED
      BY <2>1, <2>2, <2>3, <2>4, <2>5
<1>8. ASSUME RefreshBranch(c) PROVE BaseInv(c)'
  <2>1. FlagTypes'
        BY <1>8 DEF RefreshBranch, FlagTypes
  <2>2. ThreadTypes(c)'
        BY <1>c, <1>8 DEF RefreshBranch, ThreadTypes, CallerPcs, RefreshPcs
  <2>3. DataTypes'
        BY <1>8 DEF RefreshBranch, DataTypes
  <2>4. EngineInv(c)'
        BY <1>c, <1>8
        DEF RefreshBranch, ThreadTypes, EngineInv, RefreshPcs, HoldPcs, ScanPcs,
            TouchPcs
  <2>5. ScanInv'
        BY <1>8
        DEF RefreshBranch, ThreadTypes, ScanInv, HoldPcs, ScanPcs, TouchPcs
  <2> QED
      BY <2>1, <2>2, <2>3, <2>4, <2>5
<1>9. ASSUME InitAsyncOnce(c) PROVE BaseInv(c)'
  <2>1. FlagTypes'
        BY <1>9 DEF InitAsyncOnce, FlagTypes
  <2>2. ThreadTypes(c)'
        BY <1>c, <1>9 DEF InitAsyncOnce, ThreadTypes, CallerPcs, WorkerPcs
  <2>3. DataTypes'
        BY <1>9 DEF InitAsyncOnce, DataTypes
  <2>4. EngineInv(c)'
        BY <1>c, <1>9 DEF InitAsyncOnce, ThreadTypes, EngineInv
  <2>5. ScanInv'
        BY <1>9
        DEF InitAsyncOnce, ThreadTypes, EngineInv, ScanInv, HoldPcs, ScanPcs,
            TouchPcs
  <2> QED
      BY <2>1, <2>2, <2>3, <2>4, <2>5
<1>10. ASSUME RefreshSignal(c) PROVE BaseInv(c)'
  <2>1. FlagTypes'
        BY <1>10 DEF RefreshSignal, Signal, FlagTypes
  <2>2. ThreadTypes(c)'
        BY <1>c, <1>10 DEF RefreshSignal, ThreadTypes, CallerPcs
  <2>3. DataTypes'
        BY <1>10 DEF RefreshSignal, DataTypes
  <2>4. EngineInv(c)'
        BY <1>10 DEF RefreshSignal, EngineInv
  <2>5. ScanInv'
        BY <1>10 DEF RefreshSignal, ScanInv, HoldPcs, ScanPcs, TouchPcs
  <2> QED
      BY <2>1, <2>2, <2>3, <2>4, <2>5
<1>11. ASSUME ClearCall(c) PROVE BaseInv(c)'
  <2>1. FlagTypes'
        BY <1>11 DEF ClearCall, FlagTypes
  <2>2. ThreadTypes(c)'
        BY <1>c, <1>11 DEF ClearCall, ThreadTypes, CallerPcs
  <2>3. DataTypes'
        BY <1>11 DEF ClearCall, DataTypes
  <2>4. EngineInv(c)'
        BY <1>11
        DEF ClearCall, EngineInv, RefreshPcs, HoldPcs, ScanPcs, TouchPcs
  <2>5. ScanInv'
        BY <1>11 DEF ClearCall, ScanInv, HoldPcs, ScanPcs, TouchPcs
  <2> QED
      BY <2>1, <2>2, <2>3, <2>4, <2>5
<1>12. ASSUME ClearStop(c) PROVE BaseInv(c)'
  <2>1. FlagTypes'
        BY <1>12 DEF ClearStop, Signal, FlagTypes
  <2>2. ThreadTypes(c)'
        BY <1>c, <1>12 DEF ClearStop, ThreadTypes, CallerPcs
  <2>3. DataTypes'
        BY <1>12 DEF ClearStop, DataTypes
  <2>4. EngineInv(c)'
        BY <1>c, <1>12
        DEF ClearStop, ThreadTypes, EngineInv, RefreshPcs, HoldPcs, ScanPcs,
            TouchPcs
  <2>5. ScanInv'
        BY <1>12 DEF ClearStop, ThreadTypes, ScanInv, HoldPcs, ScanPcs, TouchPcs
  <2> QED
      BY <2>1, <2>2, <2>3, <2>4, <2>5
<1>13. ASSUME ClearJoin(c) PROVE BaseInv(c)'
  <2>1. FlagTypes'
        BY <1>13 DEF ClearJoin, FlagTypes
  <2>2. ThreadTypes(c)'
        BY <1>c, <1>13 DEF ClearJoin, ThreadTypes, CallerPcs, WorkerPcs
  <2>3. DataTypes'
        BY <1>13 DEF ClearJoin, DataTypes
  <2>4. EngineInv(c)'
        BY <1>c, <1>13 DEF ClearJoin, ThreadTypes, EngineInv
  <2>5. ScanInv'
        BY <1>13 DEF ClearJoin, ThreadTypes, ScanInv, HoldPcs, ScanPcs, TouchPcs
  <2> QED
      BY <2>1, <2>2, <2>3, <2>4, <2>5
<1>14. ASSUME ClearHandler(c) PROVE BaseInv(c)'
  <2>1. FlagTypes'
        BY <1>14 DEF ClearHandler, FlagTypes
  <2>2. ThreadTypes(c)'
        BY <1>c, <1>14 DEF ClearHandler, ThreadTypes, CallerPcs
  <2>3. DataTypes'
        BY <1>14 DEF ClearHandler, DataTypes
  <2>4. EngineInv(c)'
        BY <1>14
        DEF ClearHandler, EngineInv, RefreshPcs, HoldPcs, ScanPcs, TouchPcs
  <2>5. ScanInv'
        BY <1>14 DEF ClearHandler, ScanInv, HoldPcs, ScanPcs, TouchPcs
  <2> QED
      BY <2>1, <2>2, <2>3, <2>4, <2>5
<1>15. ASSUME ClearLock(c) PROVE BaseInv(c)'
  <2>1. FlagTypes'
        BY <1>15 DEF ClearLock, FlagTypes
  <2>2. ThreadTypes(c)'
        BY <1>c, <1>15 DEF ClearLock, ThreadTypes, CallerPcs
  <2>3. DataTypes'
        BY <1>15 DEF ClearLock, DataTypes
  <2>4. EngineInv(c)'
        BY <1>15
        DEF ClearLock, EngineInv, RefreshPcs, HoldPcs, ScanPcs, TouchPcs
  <2>5. ScanInv'
        BY <1>15 DEF ClearLock, ScanInv, HoldPcs, ScanPcs, TouchPcs
  <2> QED
      BY <2>1, <2>2, <2>3, <2>4, <2>5
<1>16. ASSUME ClearFree(c) PROVE BaseInv(c)'
  <2>1. FlagTypes'
        BY <1>16 DEF ClearFree, FlagTypes
  <2>2. ThreadTypes(c)'
        BY <1>c, <1>16 DEF ClearFree, ThreadTypes, CallerPcs
  <2>3. DataTypes'
        BY <1>16 DEF ClearFree, DataTypes
  <2>4. EngineInv(c)'
        BY <1>16
        DEF ClearFree, EngineInv, RefreshPcs, HoldPcs, ScanPcs, TouchPcs
  <2>5. ScanInv'
        BY <1>16 DEF ClearFree, ScanInv, HoldPcs, ScanPcs, TouchPcs
  <2> QED
      BY <2>1, <2>2, <2>3, <2>4, <2>5
<1>17. ASSUME WorkerLoop PROVE BaseInv(c)'
  <2>1. FlagTypes'
        BY <1>17 DEF WorkerLoop, FlagTypes
  <2>2. ThreadTypes(c)'
        BY <1>c, <1>17 DEF WorkerLoop, ThreadTypes, WorkerPcs
  <2>3. DataTypes'
        BY <1>17 DEF WorkerLoop, DataTypes
  <2>4. EngineInv(c)'
        BY <1>c, <1>17 DEF WorkerLoop, EngineInv
  <2>5. ScanInv'
        BY <1>17 DEF WorkerLoop, ScanInv, HoldPcs, ScanPcs, TouchPcs
  <2> QED
      BY <2>1, <2>2, <2>3, <2>4, <2>5
<1>18. ASSUME WorkerLock PROVE BaseInv(c)'
  <2>1. FlagTypes'
        BY <1>18 DEF WorkerLock, FlagTypes
  <2>2. ThreadTypes(c)'
        BY <1>c, <1>18 DEF WorkerLock, ThreadTypes, WorkerPcs, RefreshPcs
  <2>3. DataTypes'
        BY <1>18 DEF WorkerLock, DataTypes
  <2>4. EngineInv(c)'
        BY <1>c, <1>18 DEF WorkerLock, ThreadTypes, EngineInv
  <2>5. ScanInv'
        BY <1>18
        DEF WorkerLock, ThreadTypes, ScanInv, HoldPcs, ScanPcs, TouchPcs
  <2> QED
      BY <2>1, <2>2, <2>3, <2>4, <2>5
<1>19. ASSUME WorkerWake PROVE BaseInv(c)'
  <2>1. FlagTypes'
        BY <1>19 DEF WorkerWake, FlagTypes
  <2>2. ThreadTypes(c)'
        BY <1>c, <1>19 DEF WorkerWake, ThreadTypes, WorkerPcs
  <2>3. DataTypes'
        BY <1>19 DEF WorkerWake, DataTypes
  <2>4. EngineInv(c)'
        BY <1>c, <1>19 DEF WorkerWake, EngineInv
  <2>5. ScanInv'
        BY <1>19 DEF WorkerWake, ScanInv, HoldPcs, ScanPcs, TouchPcs
  <2> QED
      BY <2>1, <2>2, <2>3, <2>4, <2>5
<1>20. ASSUME NEW t \in Threads, RefreshLock(t) PROVE BaseInv(c)'
  <2>1. FlagTypes'
        BY <1>20 DEF RefreshLock, FlagTypes
  <2>2. ThreadTypes(c)'
        BY <1>20
        DEF RefreshLock, ThreadTypes, CallerPcs, WorkerPcs, RefreshPcs, HoldPcs
  <2>3. DataTypes'
        BY <1>20 DEF RefreshLock, DataTypes
  <2>4. EngineInv(c)'
        BY <1>20 DEF RefreshLock, EngineInv, RefreshPcs
  <2>5. ScanInv'
        BY <1>c, <1>20 DEF RefreshLock, ThreadTypes, ScanInv, HoldPcs, TouchPcs
  <2> QED
      BY <2>1, <2>2, <2>3, <2>4, <2>5
<1>21. ASSUME NEW t \in Threads, ScanOpen(t) PROVE BaseInv(c)'
  <2>1. FlagTypes'
        BY <1>21 DEF ScanOpen, FlagTypes
  <2>2. ThreadTypes(c)'
        BY <1>21
        DEF ScanOpen, ThreadTypes, CallerPcs, WorkerPcs, RefreshPcs, HoldPcs,
            ScanPcs
  <2>3. DataTypes'
        BY <1>21 DEF ScanOpen, DataTypes
  <2>4. EngineInv(c)'
        BY <1>21 DEF ScanOpen, EngineInv, RefreshPcs, HoldPcs
  <2>5. ScanInv'
        BY <1>21 DEF ScanOpen, ThreadTypes, ScanInv, HoldPcs, ScanPcs, TouchPcs
  <2> QED
      BY <2>1, <2>2, <2>3, <2>4, <2>5
<1>22. ASSUME NEW t \in Threads, ScanOpenFails(t) PROVE BaseInv(c)'
  <2>1. FlagTypes'
        BY <1>22 DEF ScanOpenFails, Finish, FlagTypes
  <2>2. ThreadTypes(c)'
        BY <1>c, <1>22
        DEF ScanOpenFails, Finish, ThreadTypes, CallerPcs, WorkerPcs
  <2>3. DataTypes'
        BY <1>22 DEF ScanOpenFails, DataTypes
  <2>4. EngineInv(c)'
        BY <1>22 DEF ScanOpenFails, Finish, EngineInv, RefreshPcs, HoldPcs
  <2>5. ScanInv'
        BY <1>c, <1>22
        DEF ScanOpenFails, Finish, ThreadTypes, ScanInv, HoldPcs, ScanPcs,
            TouchPcs
  <2> QED
      BY <2>1, <2>2, <2>3, <2>4, <2>5
<1>23. ASSUME NEW t \in Threads, ScanLine(t) PROVE BaseInv(c)'
  <2>1. FlagTypes'
        BY <1>23 DEF ScanLine, FlagTypes
  <2>2. ThreadTypes(c)'
        BY <1>23
        DEF ScanLine, ThreadTypes, CallerPcs, WorkerPcs, RefreshPcs, HoldPcs,
            ScanPcs, TouchPcs
  <2>3. DataTypes'
    <3>1. PICK b \in Bases : maps[b] # NULL /\ line' = [path |-> maps[b].path, base |-> b]
          BY <1>23 DEF ScanLine, Ahead
    <3>2. maps[b].path \in Paths
          BY <3>1 DEF DataTypes, Lib
    <3>3. line' \in Line
          BY <3>1, <3>2 DEF Line
    <3> QED
        BY <1>23, <3>3 DEF ScanLine, DataTypes
  <2>4. EngineInv(c)'
        BY <1>23 DEF ScanLine, EngineInv, RefreshPcs, HoldPcs, ScanPcs
  <2>5. ScanInv'
    <3>1. line' # NULL
      <4>1. PICK b \in Bases : maps[b] # NULL /\ line' = [path |-> maps[b].path, base |-> b]
            BY <1>23 DEF ScanLine, Ahead
      <4>2. line' \in Line
            BY <4>1 DEF DataTypes, Lib, Line
      <4> QED
          BY <1>c, <4>2
    <3>2. /\ pc[t] = "scan"
          /\ pc' \in {[pc EXCEPT ![t] = "check"], [pc EXCEPT ![t] = "scan"]}
          /\ refresh_mutex' = refresh_mutex
          BY <1>23 DEF ScanLine
    <3> QED
        BY <3>1, <3>2 DEF ThreadTypes, ScanInv, HoldPcs, ScanPcs, TouchPcs
  <2> QED
      BY <2>1, <2>2, <2>3, <2>4, <2>5
<1>24. ASSUME NEW t \in Threads, ScanCheck(t) PROVE BaseInv(c)'
  <2>1. FlagTypes'
        BY <1>24 DEF ScanCheck, FlagTypes
  <2>2. ThreadTypes(c)'
        BY <1>24
        DEF ScanCheck, ThreadTypes, CallerPcs, WorkerPcs, RefreshPcs, HoldPcs,
            ScanPcs, TouchPcs
  <2>3. DataTypes'
        BY <1>24 DEF ScanCheck, DataTypes
  <2>4. EngineInv(c)'
        BY <1>24
        DEF ScanCheck, EngineInv, RefreshPcs, HoldPcs, ScanPcs, TouchPcs
  <2>5. ScanInv'
        BY <1>24 DEF ScanCheck, ScanInv, HoldPcs, ScanPcs, TouchPcs
  <2> QED
      BY <2>1, <2>2, <2>3, <2>4, <2>5
<1>25. ASSUME NEW t \in Threads, ScanUpdate(t) PROVE BaseInv(c)'
  <2>1. FlagTypes'
        BY <1>25 DEF ScanUpdate, FlagTypes
  <2>2. ThreadTypes(c)'
        BY <1>25
        DEF ScanUpdate, ThreadTypes, CallerPcs, WorkerPcs, RefreshPcs, HoldPcs,
            ScanPcs
  <2>3. DataTypes'
    <3>1. line \in Line
          BY <1>25 DEF ScanUpdate, DataTypes, ScanInv, TouchPcs
    <3>2. line.path \in Paths /\ line.base \in Bases
          BY <3>1 DEF Line
    <3>3. /\ map_info' \in [Paths -> Bases \cup {NULL}]
          /\ refreshed' \in [Paths -> Bases \cup {NULL}]
          BY <1>25, <3>2 DEF ScanUpdate, DataTypes
    <3>4. \A b \in Bases : maps'[b] # NULL <=> maps[b] # NULL
          BY <1>25, <3>2, HookKeeps DEF ScanUpdate
    <3>5. maps' \in [Bases -> Lib \cup {NULL}]
          BY <1>25, <3>2, HookKeeps DEF ScanUpdate, DataTypes
    <3> QED
        BY <1>25, <3>3, <3>4, <3>5 DEF ScanUpdate, DataTypes
  <2>4. EngineInv(c)'
        BY <1>25
        DEF ScanUpdate, EngineInv, RefreshPcs, HoldPcs, ScanPcs, TouchPcs
  <2>5. ScanInv'
        BY <1>25 DEF ScanUpdate, ScanInv, HoldPcs, ScanPcs, TouchPcs
  <2> QED
      BY <2>1, <2>2, <2>3, <2>4, <2>5
<1>26. ASSUME NEW t \in Threads, ScanEnd(t) PROVE BaseInv(c)'
  <2>1. FlagTypes'
        BY <1>26 DEF ScanEnd, Finish, FlagTypes
  <2>2. ThreadTypes(c)'
        BY <1>c, <1>26 DEF ScanEnd, Finish, ThreadTypes, CallerPcs, WorkerPcs
  <2>3. DataTypes'
        BY <1>26 DEF ScanEnd, DataTypes
  <2>4. EngineInv(c)'
        BY <1>26 DEF ScanEnd, Finish, EngineInv, RefreshPcs, HoldPcs, ScanPcs
  <2>5. ScanInv'
    <3>1. /\ pc[t] = "scan"
          /\ pc' \in {[pc EXCEPT ![t] = "loop"], [pc EXCEPT ![t] = "idle"]}
          /\ refresh_mutex' = NULL /\ refresh_mutex = t
          BY <1>26 DEF ScanEnd, Finish, ScanInv, HoldPcs, ScanPcs
    <3>2. \A s \in Threads : pc'[s] \notin HoldPcs
          BY <3>1 DEF ThreadTypes, ScanInv, HoldPcs, ScanPcs, TouchPcs
    <3> QED
        BY <1>c, <1>26, <3>1, <3>2
        DEF ScanEnd, ScanInv, NoBase, HoldPcs, ScanPcs
  <2> QED
      BY <2>1, <2>2, <2>3, <2>4, <2>5
<1>27. ASSUME NEW b \in Bases, Unload(b) PROVE BaseInv(c)'
  <2>1. FlagTypes'
        BY <1>27 DEF Unload, FlagTypes
  <2>2. ThreadTypes(c)'
        BY <1>27 DEF Unload, ThreadTypes
  <2>3. DataTypes'
        BY <1>27 DEF Unload, DataTypes
  <2>4. EngineInv(c)'
        BY <1>27 DEF Unload, EngineInv
  <2>5. ScanInv'
        BY <1>27 DEF Unload, ScanInv
  <2> QED
      BY <2>1, <2>2, <2>3, <2>4, <2>5
<1>28. ASSUME NEW b \in Bases, NEW q \in Paths, Load(b, q) PROVE BaseInv(c)'
  <2>1. FlagTypes'
        BY <1>28 DEF Load, FlagTypes
  <2>2. ThreadTypes(c)'
        BY <1>28 DEF Load, ThreadTypes
  <2>3. DataTypes'
    <3>1. [path |-> q, hooked |-> {}, seen |-> FALSE] \in Lib
          BY DEF Lib
    <3> QED
        BY <1>28, <3>1 DEF Load, DataTypes
  <2>4. EngineInv(c)'
        BY <1>28 DEF Load, EngineInv
  <2>5. ScanInv'
        BY <1>28 DEF Load, ScanInv
  <2> QED
      BY <2>1, <2>2, <2>3, <2>4, <2>5
<1>29. ASSUME UNCHANGED xhVars PROVE BaseInv(c)'
  <2>1. FlagTypes'
        BY <1>29 DEF xhVars, FlagTypes
  <2>2. ThreadTypes(c)'
        BY <1>29 DEF xhVars, ThreadTypes
  <2>3. DataTypes'
        BY <1>29 DEF xhVars, DataTypes
  <2>4. EngineInv(c)'
        BY <1>29 DEF xhVars, EngineInv
  <2>5. ScanInv'
        BY <1>29 DEF xhVars, ScanInv
  <2> QED
      BY <2>1, <2>2, <2>3, <2>4, <2>5
<1> QED
    BY <1>c, <1>1, <1>2, <1>3, <1>4, <1>5, <1>6, <1>7, <1>8, <1>9, <1>10, <1>11,
       <1>12, <1>13, <1>14, <1>15, <1>16, <1>17, <1>18, <1>19, <1>20, <1>21, <1>22,
       <1>23, <1>24, <1>25, <1>26, <1>27, <1>28, <1>29
    DEF XhNext, CallerStep, WorkerStep, ScanStep

-----------------------------------------------------------------------------
(* Most steps leave the trees, the libraries and a scan alone. *)

\* What such a step leaves as it was.
Quiet(c) ==
    /\ UNCHANGED <<hook_info, ignore_info, map_info, refreshed, line, before, maps>>
    /\ \A t \in Threads : pc'[t] \in ScanPcs => pc'[t] = pc[t]
    /\ ~ inited' /\ pc'[c] \notin {"lock", "free"}
          => ~ inited /\ pc[c] \notin {"lock", "free"}

\* The steps that do not, by name.
LEMMA StepKinds ==
    ASSUME NEW c, Callers = {c}, BaseInv(c), [XhNext]_xhVars
    PROVE  \/ Quiet(c)
           \/ RegisterInsert(c) \/ IgnoreInsert(c) \/ ClearFree(c)
           \/ \E t \in Threads :
                 ScanOpen(t) \/ ScanLine(t) \/ ScanCheck(t) \/ ScanUpdate(t) \/ ScanEnd(t)
           \/ \E b \in Bases : Unload(b) \/ \E q \in Paths : Load(b, q)
<1>c. c \in Threads /\ Worker \in Threads /\ c # Worker /\ Threads = {c, Worker}
      BY XhAssumption DEF Threads
<1>p. DOMAIN pc = Threads
      BY DEF BaseInv, ThreadTypes
<1> USE DEF Quiet, flags, locks, action, lists, scan, Goto, ScanPcs, TouchPcs
<1>1. ASSUME NEW h \in HookChoices, RegisterCall(c, h) PROVE Quiet(c)
      BY <1>1 DEF RegisterCall
<1>2. ASSUME NEW i \in IgnoreChoices, IgnoreCall(c, i) PROVE Quiet(c)
      BY <1>2 DEF IgnoreCall
<1>3. ASSUME NEW async \in BOOLEAN, RefreshCall(c, async) PROVE Quiet(c)
      BY <1>3 DEF RefreshCall
<1>4. ASSUME InitOnce(c) PROVE Quiet(c)
      BY <1>p, <1>4 DEF InitOnce
<1>5. ASSUME AddHandler(c) PROVE Quiet(c)
      BY <1>5 DEF AddHandler
<1>6. ASSUME RefreshBranch(c) PROVE Quiet(c)
      BY <1>p, <1>6 DEF RefreshBranch
<1>7. ASSUME InitAsyncOnce(c) PROVE Quiet(c)
      BY <1>p, <1>7 DEF InitAsyncOnce
<1>8. ASSUME RefreshSignal(c) PROVE Quiet(c)
      BY <1>8 DEF RefreshSignal
<1>9. ASSUME ClearCall(c) PROVE Quiet(c)
      BY <1>9 DEF ClearCall
<1>10. ASSUME ClearStop(c) PROVE Quiet(c)
      BY <1>p, <1>10 DEF ClearStop
<1>11. ASSUME ClearJoin(c) PROVE Quiet(c)
      BY <1>p, <1>11 DEF ClearJoin
<1>12. ASSUME ClearHandler(c) PROVE Quiet(c)
      BY <1>c, <1>p, <1>12 DEF ClearHandler
<1>13. ASSUME ClearLock(c) PROVE Quiet(c)
      BY <1>13 DEF ClearLock
<1>14. ASSUME WorkerLoop PROVE Quiet(c)
      BY <1>14 DEF WorkerLoop
<1>15. ASSUME WorkerLock PROVE Quiet(c)
      BY <1>c, <1>p, <1>15 DEF WorkerLock
<1>16. ASSUME WorkerWake PROVE Quiet(c)
      BY <1>16 DEF WorkerWake
<1>17. ASSUME NEW t \in Threads, RefreshLock(t) PROVE Quiet(c)
      BY <1>17 DEF RefreshLock
<1>18. ASSUME NEW t \in Threads, ScanOpenFails(t) PROVE Quiet(c)
      BY <1>18 DEF ScanOpenFails, Finish
<1>19. ASSUME UNCHANGED xhVars PROVE Quiet(c)
      BY <1>19 DEF xhVars
<1> QED
    BY <1>c, <1>1, <1>2, <1>3, <1>4, <1>5, <1>6, <1>7, <1>8, <1>9, <1>10, <1>11,
       <1>12, <1>13, <1>14, <1>15, <1>16, <1>17, <1>18, <1>19
    DEF XhNext, CallerStep, WorkerStep, ScanStep

\* The hooks for a library are a matter of the two lists.
LEMMA ListsDecide ==
    ASSUME UNCHANGED <<hook_info, ignore_info>>, NEW q
    PROVE  HookSet(q)' = HookSet(q) /\ (Uniform(q)' <=> Uniform(q))
<1>1. HookSet(q)' = HookSet(q)
      BY DEF HookSet, Exempt
<1> QED
    BY <1>1 DEF Uniform

\* A scan excludes another, and registration, and the freeing of the trees.
LEMMA OneScan ==
    ASSUME NEW c, Callers = {c}, BaseInv(c), NEW t \in Threads, pc[t] \in ScanPcs
    PROVE  /\ \A s \in Threads \ {t} : pc[s] \notin ScanPcs
           /\ inited
           /\ pc[c] \notin {"register", "ignore", "lock"}
           /\ refresh_mutex # NULL
<1>c. c \in Threads /\ Worker \in Threads /\ c # Worker /\ Threads = {c, Worker}
      BY XhAssumption DEF Threads
<1>1. refresh_mutex = t
      BY DEF BaseInv, ScanInv, HoldPcs
<1>2. \A s \in Threads \ {t} : pc[s] \notin ScanPcs
      BY DEF BaseInv, ScanInv, HoldPcs
<1>3. inited /\ pc[c] \notin {"register", "ignore", "lock"}
      BY <1>c DEF BaseInv, EngineInv, ScanPcs, TouchPcs, RefreshPcs, HoldPcs
<1>4. NULL \notin Threads
      BY XhAssumption
<1> QED
    BY <1>1, <1>2, <1>3, <1>4

\* While hooks are registered, and when the engine is freed, no scan is on its
\* way: its trees are empty, or about to be.
LEMMA NoScan ==
    ASSUME NEW c, Callers = {c}, BaseInv(c),
           \/ RegisterInsert(c) \/ IgnoreInsert(c) \/ ClearFree(c)
    PROVE  /\ \A t \in Threads : pc[t] \notin ScanPcs /\ pc'[t] \notin ScanPcs
           /\ refreshed = NoBase
<1>c. c \in Threads /\ Worker \in Threads /\ c # Worker /\ Threads = {c, Worker}
      BY XhAssumption DEF Threads
<1>1. \A t \in Threads : pc[t] \notin ScanPcs
      BY OneScan DEF RegisterInsert, IgnoreInsert, ClearFree
<1>2. pc' = [pc EXCEPT ![c] = "idle"]
      BY DEF RegisterInsert, IgnoreInsert, ClearFree, Goto
<1>3. \A t \in Threads : pc'[t] \notin ScanPcs
      BY <1>1, <1>2 DEF ScanPcs, TouchPcs
<1> QED
    BY <1>1, <1>3 DEF BaseInv, ScanInv

-----------------------------------------------------------------------------
(* The hooks are in place. *)

\* Whatever is loaded, unloaded or reloaded between two steps of a scan.
LEMMA TreeNext ==
    ASSUME NEW c, Callers = {c}, BaseInv(c), TreeInv(c), [XhNext]_xhVars
    PROVE  TreeInv(c)'
<1>c. c \in Threads /\ Worker \in Threads /\ c # Worker /\ Threads = {c, Worker}
      BY XhAssumption DEF Threads
<1>d. DataTypes
      BY DEF BaseInv
<1>1. CASE Quiet(c)
  <2>1. \A q : HookSet(q)' = HookSet(q)
        BY <1>1, ListsDecide DEF Quiet
  <2> QED
      BY <1>1, <2>1 DEF Quiet, TreeInv, Placed
<1>2. CASE RegisterInsert(c) \/ IgnoreInsert(c)
  <2>1. refreshed' = NoBase
        BY <1>2, NoScan DEF RegisterInsert, IgnoreInsert, scan
  <2>2. map_info' = NoBase
        BY <1>2 DEF RegisterInsert, IgnoreInsert, TreeInv, BaseInv, EngineInv
  <2> QED
      BY <2>1, <2>2 DEF TreeInv, Placed, NoBase
<1>3. CASE ClearFree(c)
  <2>1. refreshed' = NoBase /\ map_info' = NoBase
        BY <1>3, NoScan DEF ClearFree, scan, NoBase
  <2> QED
      BY <2>1 DEF TreeInv, Placed, NoBase
<1>4. ASSUME NEW t \in Threads, ScanOpen(t) \/ ScanLine(t) \/ ScanCheck(t) PROVE TreeInv(c)'
  <2>1. /\ UNCHANGED <<hook_info, ignore_info, map_info, refreshed, maps, inited>>
        /\ pc[t] \in HoldPcs
        BY <1>4
        DEF ScanOpen, ScanLine, ScanCheck, flags, lists, scan, HoldPcs, ScanPcs,
            TouchPcs
  <2>2. inited
        BY <1>c, <2>1
        DEF BaseInv, EngineInv, RefreshPcs, HoldPcs, ScanPcs, TouchPcs
  <2>3. \A q : HookSet(q)' = HookSet(q)
        BY <2>1, ListsDecide
  <2> QED
      BY <2>1, <2>2, <2>3 DEF TreeInv, Placed
<1>5. ASSUME NEW t \in Threads, ScanUpdate(t) PROVE TreeInv(c)'
  <2>1. line \in Line
        BY <1>5 DEF BaseInv, ScanUpdate, DataTypes, ScanInv, TouchPcs
  <2>2. line.path \in Paths /\ line.base \in Bases
        BY <2>1 DEF Line
  <2>3. inited' /\ UNCHANGED <<hook_info, ignore_info>>
        BY <1>5, OneScan DEF ScanUpdate, flags, lists, ScanPcs, TouchPcs
  <2>4. \A q : HookSet(q)' = HookSet(q)
        BY <2>3, ListsDecide
  <2>5. maps' = maps \/ (Hook(line.path, line.base) /\ refreshed[line.path] = NULL)
        BY <1>5 DEF ScanUpdate
  <2>6. ASSUME NEW q \in Paths, NEW b \in Bases, maps'[b] # NULL, maps'[b].path = q,
               maps'[b].seen, ~ HookSet(q) \subseteq maps'[b].hooked
        PROVE  /\ maps[b] # NULL /\ maps[b].path = q /\ maps[b].seen
               /\ ~ HookSet(q) \subseteq maps[b].hooked
        BY <1>d, <2>2, <2>5, <2>6, HookKeeps
  <2>7. Placed(map_info)'
    <3>1. \A q \in Paths :
              map_info'[q] # NULL => map_info'[q] = map_info[q] /\ map_info[q] \in Bases
          BY <1>5, <1>d DEF ScanUpdate, DataTypes
    <3> QED
        BY <2>4, <2>6, <3>1 DEF TreeInv, Placed
  <2>8. Placed(refreshed)'
    <3>1. ASSUME NEW q \in Paths, refreshed'[q] # NULL, refreshed'[q] = refreshed[q],
                 maps'[refreshed[q]] # NULL, maps'[refreshed[q]].path = q,
                 maps'[refreshed[q]].seen
          PROVE  HookSet(q) \subseteq maps'[refreshed[q]].hooked
          BY <1>d, <2>6, <3>1 DEF TreeInv, Placed, DataTypes
    <3>2. ASSUME refreshed'[line.path] # refreshed[line.path],
                 maps'[line.base] # NULL, maps'[line.base].path = line.path,
                 maps'[line.base].seen
          PROVE  HookSet(line.path) \subseteq maps'[line.base].hooked
      <4>1. CASE map_info[line.path] = line.base
            BY <1>5, <2>2, <3>2, <4>1, XhAssumption
            DEF ScanUpdate, TreeInv, Placed
      <4>2. CASE map_info[line.path] # line.base
        <5>1. Hook(line.path, line.base)
              BY <1>5, <3>2, <4>2 DEF ScanUpdate
        <5> QED
            BY <1>d, <2>2, <3>2, <5>1, HookKeeps
      <4> QED
          BY <4>1, <4>2
    <3>3. \A q \in Paths :
              refreshed'[q] # refreshed[q] => q = line.path /\ refreshed'[q] = line.base
          BY <1>5, <1>d DEF ScanUpdate, DataTypes
    <3> QED
        BY <2>4, <3>1, <3>2, <3>3 DEF Placed
  <2> QED
      BY <2>3, <2>7, <2>8 DEF TreeInv
<1>6. ASSUME NEW t \in Threads, ScanEnd(t) PROVE TreeInv(c)'
  <2>1. inited' /\ UNCHANGED <<hook_info, ignore_info, maps>>
        BY <1>6, OneScan DEF ScanEnd, flags, lists, ScanPcs
  <2>2. \A q : HookSet(q)' = HookSet(q)
        BY <2>1, ListsDecide
  <2>3. map_info' = refreshed /\ refreshed' = NoBase
        BY <1>6 DEF ScanEnd, NoBase
  <2> QED
      BY <2>1, <2>2, <2>3 DEF TreeInv, Placed, NoBase
<1>7. ASSUME NEW b \in Bases, Unload(b) \/ \E q \in Paths : Load(b, q) PROVE TreeInv(c)'
  <2>1. /\ UNCHANGED <<hook_info, ignore_info, map_info, refreshed, inited, pc>>
        /\ \A d \in Bases : maps'[d] # NULL /\ maps'[d].seen => maps'[d] = maps[d]
        BY <1>7, <1>d DEF Unload, Load, flags, lists, scan, DataTypes
  <2>2. \A q : HookSet(q)' = HookSet(q)
        BY <2>1, ListsDecide
  <2> QED
      BY <1>d, <2>1, <2>2 DEF TreeInv, Placed, DataTypes
<1> QED
    BY <1>1, <1>2, <1>3, <1>4, <1>5, <1>6, <1>7, StepKinds

-----------------------------------------------------------------------------
(* A scan finds every library. *)

\* A set of indices has a least one.
LEMMA LeastIndex ==
    ASSUME NEW T, T \subseteq Nat, T # {}
    PROVE  \E k \in T : \A j \in T : k <= j
<1>1. PICK k \in T : \A j \in T : ~ (<<j, k>> \in OpToRel(<, Nat))
      BY WFMin, NatLessThanWellFounded
<1>2. \A j \in T : ~ (j < k)
      BY <1>1 DEF OpToRel
<1> QED
    BY <1>2

\* If no hook of a library is exempt while another is not, the first hook that
\* matches decides for all of them: the library is wanted when it has hooks.
LEMMA UniformWanted ==
    ASSUME DataTypes, NEW q, Uniform(q), HookSet(q) # {}
    PROVE  Wanted(q)
<1> DEFINE T == {k \in DOMAIN hook_info : q \in hook_info[k].paths}
<1>1. /\ T # {} /\ T \subseteq Nat
      /\ DOMAIN hook_info = 1 .. Len(hook_info) /\ Len(hook_info) \in Nat
      BY DEF HookSet
<1>2. PICK k \in T : \A j \in T : k <= j
      BY <1>1, LeastIndex
<1>3. k \in DOMAIN hook_info /\ q \in hook_info[k].paths
      OBVIOUS
<1>4. \A j \in 1 .. k - 1 : q \notin hook_info[j].paths
  <2> SUFFICES ASSUME NEW j \in 1 .. k - 1, q \in hook_info[j].paths PROVE FALSE
      OBVIOUS
  <2>1. j \in DOMAIN hook_info
        BY <1>1
  <2> QED
      BY <1>1, <1>2
<1>5. hook_info[k].symbol \in HookSet(q)
      BY DEF Uniform
<1>6. PICK j \in DOMAIN hook_info :
          hook_info[j].symbol = hook_info[k].symbol /\ ~ Exempt(hook_info[j], q)
      BY <1>5 DEF HookSet
<1>7. ~ Exempt(hook_info[k], q)
      BY <1>6 DEF Exempt
<1> QED
    BY <1>4, <1>7 DEF Wanted

\* Every step keeps a scan complete so far.
LEMMA FoundNext ==
    ASSUME NEW c, Callers = {c}, BaseInv(c), BaseInv(c)', FoundInv, [XhNext]_xhVars
    PROVE  FoundInv'
<1>c. c \in Threads /\ Worker \in Threads /\ c # Worker /\ Threads = {c, Worker}
      BY XhAssumption DEF Threads
<1>d. /\ DataTypes /\ ThreadTypes(c) /\ DOMAIN pc = Threads
      /\ NULL \notin Lib /\ NULL \notin Line /\ NULL \notin Nat /\ Bases \subseteq Nat
      BY XhAssumption DEF BaseInv, ThreadTypes
<1>1. CASE Quiet(c)
  <2>1. \A q : HookSet(q)' = HookSet(q) /\ (Uniform(q)' <=> Uniform(q))
        BY <1>1, ListsDecide DEF Quiet
  <2>2. Ahead' = Ahead
        BY <1>1 DEF Quiet, Ahead
  <2> QED
      BY <1>1, <2>1, <2>2 DEF Quiet, FoundInv
<1>2. CASE RegisterInsert(c) \/ IgnoreInsert(c) \/ ClearFree(c)
      BY <1>2, NoScan DEF FoundInv
<1>3. ASSUME NEW t \in Threads, ScanOpen(t) PROVE FoundInv'
  <2>1. line = NULL
        BY <1>3 DEF ScanOpen, BaseInv, ScanInv, HoldPcs, ScanPcs, TouchPcs
  <2>2. \A b \in before' : b \in Ahead'
        BY <1>3, <2>1 DEF ScanOpen, Ahead
  <2> QED
      BY <2>2 DEF FoundInv
<1>4. ASSUME NEW t \in Threads, ScanLine(t) PROVE FoundInv'
  <2>1. /\ UNCHANGED <<hook_info, ignore_info, refreshed, before, maps>>
        /\ pc[t] = "scan"
        BY <1>4 DEF ScanLine, lists
  <2>2. \A q : HookSet(q)' = HookSet(q) /\ (Uniform(q)' <=> Uniform(q))
        BY <2>1, ListsDecide
  <2>3. PICK a \in Ahead :
            /\ \A d \in Ahead : a <= d
            /\ line' = [path |-> maps[a].path, base |-> a]
            /\ Goto(t, IF Wanted(maps[a].path) THEN "check" ELSE "scan")
        BY <1>4 DEF ScanLine
  <2>4. line' # NULL
        BY <1>d, <2>3 DEF DataTypes, Lib, Line, Ahead
  <2>5. \A b \in Ahead \ {a} : b \in Ahead'
        BY <1>d, <2>1, <2>3 DEF Ahead
  <2>6. \A s \in Threads \ {t} : pc'[s] \notin ScanPcs
        BY <2>1, <2>3, OneScan DEF Goto, ScanPcs
  <2>7. ASSUME NEW b \in before, HookSet(maps[b].path) # {}, Uniform(maps[b].path)
        PROVE  \/ refreshed[maps[b].path] # NULL
               \/ b \in Ahead'
               \/ pc'[t] \in TouchPcs /\ line' = [path |-> maps[b].path, base |-> b]
    <3>1. refreshed[maps[b].path] # NULL \/ b \in Ahead
          BY <2>1, <2>7 DEF FoundInv, ScanPcs, TouchPcs
    <3>2. CASE b = a
      <4>1. Wanted(maps[a].path)
            BY <1>d, <2>7, <3>2, UniformWanted
      <4>2. pc'[t] = "check"
            BY <1>d, <2>3, <4>1 DEF Goto
      <4> QED
          BY <2>3, <3>2, <4>2 DEF TouchPcs
    <3> QED
        BY <2>5, <3>1, <3>2
  <2> QED
      BY <2>1, <2>2, <2>6, <2>7 DEF FoundInv
<1>5. ASSUME NEW t \in Threads, ScanCheck(t) PROVE FoundInv'
  <2>1. /\ UNCHANGED <<hook_info, ignore_info, refreshed, before, line, maps>>
        /\ pc[t] = "check" /\ Goto(t, IF maps[line.base] # NULL THEN "update" ELSE "scan")
        BY <1>5 DEF ScanCheck, lists, scan
  <2>2. \A q : HookSet(q)' = HookSet(q) /\ (Uniform(q)' <=> Uniform(q))
        BY <2>1, ListsDecide
  <2>3. Ahead' = Ahead
        BY <2>1 DEF Ahead
  <2>4. \A s \in Threads \ {t} : pc'[s] \notin ScanPcs
        BY <2>1, OneScan DEF Goto, ScanPcs, TouchPcs
  <2>5. \A b \in before : line = [path |-> maps[b].path, base |-> b] => pc'[t] \in TouchPcs
        BY <1>d, <2>1 DEF Goto, DataTypes, TouchPcs
  <2> QED
      BY <2>1, <2>2, <2>3, <2>4, <2>5 DEF FoundInv, ScanPcs, TouchPcs
<1>6. ASSUME NEW t \in Threads, ScanUpdate(t) PROVE FoundInv'
  <2>1. /\ UNCHANGED <<hook_info, ignore_info, before, line>>
        /\ pc[t] = "update" /\ Goto(t, "scan")
        BY <1>6 DEF ScanUpdate, lists
  <2>2. \A q : HookSet(q)' = HookSet(q) /\ (Uniform(q)' <=> Uniform(q))
        BY <2>1, ListsDecide
  <2>3. line \in Line /\ line.path \in Paths /\ line.base \in Bases
    <3>1. line \in Line
          BY <2>1 DEF BaseInv, DataTypes, ScanInv, TouchPcs
    <3> QED
        BY <3>1 DEF Line
  <2>4. \A b \in Bases : /\ maps'[b] # NULL <=> maps[b] # NULL
                         /\ maps[b] # NULL => maps'[b].path = maps[b].path
        BY <1>6, <1>d, <2>3, HookKeeps DEF ScanUpdate
  <2>5. Ahead' = Ahead
        BY <2>1, <2>4 DEF Ahead
  <2>6. \A s \in Threads \ {t} : pc'[s] \notin ScanPcs
        BY <2>1, OneScan DEF Goto, ScanPcs, TouchPcs
  <2>7. /\ refreshed'[line.path] # NULL
        /\ \A q \in Paths : refreshed[q] # NULL => refreshed'[q] # NULL
        BY <1>6, <1>d, <2>3 DEF ScanUpdate, DataTypes
  <2>8. \A b \in before : maps[b].path \in Paths /\ maps'[b].path = maps[b].path
        BY <1>d, <2>4 DEF DataTypes, Lib
  <2>9. \A b \in before : HookSet(maps[b].path) # {} /\ Uniform(maps[b].path) =>
            refreshed'[maps[b].path] # NULL \/ b \in Ahead'
        BY <2>1, <2>5, <2>7, <2>8 DEF FoundInv, ScanPcs, TouchPcs
  <2> QED
      BY <2>1, <2>2, <2>8, <2>9 DEF FoundInv
<1>7. ASSUME NEW t \in Threads, ScanEnd(t) PROVE FoundInv'
      BY <1>7 DEF ScanEnd, FoundInv
<1>8. ASSUME NEW a \in Bases, Unload(a) \/ \E q \in Paths : Load(a, q) PROVE FoundInv'
  <2>1. UNCHANGED <<hook_info, ignore_info, refreshed, line, pc>>
        BY <1>8 DEF Unload, Load, lists, scan
  <2>2. \A q : HookSet(q)' = HookSet(q) /\ (Uniform(q)' <=> Uniform(q))
        BY <2>1, ListsDecide
  <2>3. \A b \in before' : b \in before /\ maps'[b] = maps[b]
        BY <1>8, <1>d DEF Unload, Load, scan, DataTypes
  <2>4. \A b \in before' : b \in Ahead => b \in Ahead'
        BY <2>1, <2>3 DEF Ahead
  <2> QED
      BY <2>1, <2>2, <2>3, <2>4 DEF FoundInv
<1> QED
    BY <1>1, <1>2, <1>3, <1>4, <1>5, <1>6, <1>7, <1>8, StepKinds

-----------------------------------------------------------------------------
(* The results. *)

\* The invariant holds throughout.
LEMMA XhAlways == ASSUME NEW CONSTANT c, Callers = {c} PROVE XhSpec => []XhInv(c)
<1>1. XhInit => XhInv(c)
      BY InitInv
<1>2. XhInv(c) /\ [XhNext]_xhVars => XhInv(c)'
      BY BaseNext, TreeNext, FoundNext DEF XhInv
<1> QED
    BY <1>1, <1>2, PTL DEF XhSpec

\* Every variable keeps its type.
THEOREM XhTypes == OneDriver => (XhSpec => []XhTypeOK)
<1> SUFFICES ASSUME NEW CONSTANT c, Callers = {c} PROVE XhSpec => []XhTypeOK
    BY DEF OneDriver
<1>1. XhInv(c) => XhTypeOK
  <2> SUFFICES ASSUME XhInv(c) PROVE XhTypeOK
      OBVIOUS
  <2>1. {inited, init_ok, async_inited, async_init_ok, running, requested, woken}
           \subseteq BOOLEAN
        BY Zenon DEF XhInv, BaseInv, FlagTypes
  <2>2. handler \in {"app", "xh"} /\ act_old \in {"none", "app"}
        BY DEF XhInv, BaseInv, EngineInv
  <2> QED
      BY <2>2, Zenon DEF XhInv, BaseInv, FlagTypes, DataTypes, XhTypeOK
<1> QED
    BY <1>1, XhAlways, PTL

\* Whenever a refresh, on either thread, reads a library that may be gone, the
\* engine's SIGSEGV handler is installed: clear() joins the worker first.
THEOREM XhProtected == OneDriver => (XhSpec => []Protected)
<1> SUFFICES ASSUME NEW CONSTANT c, Callers = {c} PROVE XhSpec => []Protected
    BY DEF OneDriver
<1>1. XhInv(c) => Protected
  <2> SUFFICES ASSUME XhInv(c), NEW t \in Threads, pc[t] \in {"check", "update"}
               PROVE  handler = "xh" /\ act_old = "app"
      BY DEF Protected
  <2>1. t = c \/ t = Worker
        BY DEF Threads
  <2>2. init_ok
        BY <2>1
        DEF XhInv, BaseInv, EngineInv, RefreshPcs, HoldPcs, ScanPcs, TouchPcs
  <2> QED
      BY <2>2 DEF XhInv, BaseInv, EngineInv
<1> QED
    BY <1>1, XhAlways, PTL

\* A cleared engine leaves the process its own handler, and no worker.
THEOREM XhClearRestores == OneDriver => (XhSpec => []ClearRestores)
<1> SUFFICES ASSUME NEW CONSTANT c, Callers = {c} PROVE XhSpec => []ClearRestores
    BY DEF OneDriver
<1>1. XhInv(c) => ClearRestores
      BY DEF XhInv, BaseInv, EngineInv, ClearRestores
<1> QED
    BY <1>1, XhAlways, PTL

\* Between refreshes a library the engine remembers has all of its hooks, if
\* it is still the mapping that was hooked.
THEOREM XhHooksInPlace == OneDriver => (XhSpec => []HooksInPlace)
<1> SUFFICES ASSUME NEW CONSTANT c, Callers = {c} PROVE XhSpec => []HooksInPlace
    BY DEF OneDriver
<1>1. XhInv(c) => HooksInPlace
      BY DEF XhInv, TreeInv, Placed, HooksInPlace
<1> QED
    BY <1>1, XhAlways, PTL

\* A refresh finds every library that it should, whatever comes and goes
\* during the scan, unless only some of the library's hooks are exempt.
THEOREM XhRefreshComplete == OneDriver => (XhSpec => []RefreshComplete)
<1> SUFFICES ASSUME NEW CONSTANT c, Callers = {c} PROVE XhSpec => []RefreshComplete
    BY DEF OneDriver
<1>1. XhInv(c) => RefreshComplete
  <2> SUFFICES ASSUME XhInv(c), NEW q \in Paths, Uniform(q), NEW t \in Threads,
                      pc[t] = "scan", Ahead = {}, HookSet(q) # {},
                      NEW b \in before, maps[b].path = q
               PROVE  refreshed[q] # NULL
      BY DEF RefreshComplete, Found
  <2> QED
      BY DEF XhInv, FoundInv, ScanPcs, TouchPcs
<1> QED
    BY <1>1, XhAlways, PTL
=============================================================================
