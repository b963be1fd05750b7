---------------------------- MODULE RaphaelProofs ----------------------------
(***************************************************************************)
(* Proofs about the life of a session, for every number of application     *)
(* threads and of sessions.                                                *)
(***************************************************************************)
EXTENDS Raphael, TLAPS

-----------------------------------------------------------------------------
(* Part 1: any number of callers. *)

StartPcs == {"hook", "reset", "key", "on"}
Pcs == {"idle", "space", "new", "off", "print", "report", "printed",
        "delete", "clear", "unspace"} \cup StartPcs

\* The types, and what they rest on: recording is switched on, and the key
\* made, only by a start that has already counted its session.
TypeInv ==
    /\ LifeTypeOK
    /\ jpc \in [Callers -> Pcs]
    /\ stopping \in [Callers -> BOOLEAN]
    /\ \A c \in Callers : jpc[c] \in StartPcs => started >= 1
    /\ monitoring => started >= 1

\* Before the first start.
LEMMA TypeInit == LifeInit => TypeInv
<1> SUFFICES ASSUME LifeInit PROVE TypeInv
    OBVIOUS
<1>1. LifeTypeOK
  <2>1. started \in 0 .. MaxStarts
        BY LifeAssumption DEF LifeInit
  <2> QED
      BY <2>1, Zenon DEF LifeInit, LifeTypeOK
<1>2. monitoring = FALSE /\ \A c \in Callers : jpc[c] = "idle"
      BY DEF LifeInit
<1> QED
    BY <1>1 DEF LifeInit, TypeInv, Pcs, StartPcs

\* Every step keeps the types, whoever else is inside start, stop or print.
LEMMA TypeNext == TypeInv /\ [LifeNext]_lifeVars => TypeInv'
<1> SUFFICES ASSUME TypeInv, [LifeNext]_lifeVars PROVE TypeInv'
    OBVIOUS
<1> USE LifeAssumption
    DEF TypeInv, LifeTypeOK, Sessions, Pcs, StartPcs, J, native, java, appVars
<1>1. ASSUME NEW c \in Callers, JavaStart(c) PROVE TypeInv'
      BY <1>1 DEF JavaStart
<1>2. ASSUME NEW c \in Callers, StartSpace(c) PROVE TypeInv'
      BY <1>2 DEF StartSpace
<1>3. ASSUME NEW c \in Callers, StartCache(c) PROVE TypeInv'
  <2>1. started + 1 \in Sessions /\ started' = started + 1 /\ started' \in 0 .. MaxStarts
        BY <1>3 DEF StartCache
  <2>2. object' \in [Sessions -> {"none", "raw", "ready", "freed"}]
        BY <1>3 DEF StartCache
  <2>3. started' >= 1
        BY <2>1
  <2>4. LifeTypeOK'
        BY <1>3, <2>1 DEF StartCache
  <2> QED
      BY <1>3, <2>4 DEF StartCache
<1>4. ASSUME NEW c \in Callers, StartHook(c) PROVE TypeInv'
      BY <1>4 DEF StartHook
<1>5. ASSUME NEW c \in Callers, StartReset(c) PROVE TypeInv'
      BY <1>5 DEF StartReset
<1>6. ASSUME NEW c \in Callers, StartKey(c) PROVE TypeInv'
      BY <1>6 DEF StartKey
<1>7. ASSUME NEW c \in Callers, StartOn(c) PROVE TypeInv'
      BY <1>7 DEF StartOn
<1>8. ASSUME NEW c \in Callers, JavaStop(c) PROVE TypeInv'
      BY <1>8 DEF JavaStop
<1>9. ASSUME NEW c \in Callers, StopOff(c) PROVE TypeInv'
      BY <1>9 DEF StopOff
<1>10. ASSUME NEW c \in Callers, JavaPrint(c) PROVE TypeInv'
      BY <1>10 DEF JavaPrint
<1>11. ASSUME NEW c \in Callers, PrintGuard(c) PROVE TypeInv'
      BY <1>11 DEF PrintGuard, SetGuard
<1>12. ASSUME NEW c \in Callers, PrintReport(c) PROVE TypeInv'
      BY <1>12 DEF PrintReport
<1>13. ASSUME NEW c \in Callers, PrintDone(c) PROVE TypeInv'
      BY <1>13 DEF PrintDone, ClearGuard
<1>14. ASSUME NEW c \in Callers, StopDelete(c) PROVE TypeInv'
      BY <1>14 DEF StopDelete
<1>15. ASSUME NEW c \in Callers, StopKey(c) PROVE TypeInv'
      BY <1>15 DEF StopKey
<1>16. ASSUME NEW c \in Callers, StopSpace(c) PROVE TypeInv'
      BY <1>16 DEF StopSpace
<1>17. ASSUME NEW a \in Apps, ProxyEnter(a) PROVE TypeInv'
      BY <1>17 DEF ProxyEnter, SetGuard, Threads
<1>18. ASSUME NEW a \in Apps, ProxyUse(a) PROVE TypeInv'
      BY <1>18 DEF ProxyUse
<1>19. ASSUME NEW a \in Apps, ProxyLeave(a) PROVE TypeInv'
      BY <1>19 DEF ProxyLeave, ClearGuard
<1>20. ASSUME UNCHANGED lifeVars PROVE TypeInv'
      BY <1>20 DEF lifeVars
<1> QED
    BY <1>1, <1>2, <1>3, <1>4, <1>5, <1>6, <1>7, <1>8, <1>9, <1>10, <1>11,
       <1>12, <1>13, <1>14, <1>15, <1>16, <1>17, <1>18, <1>19, <1>20
    DEF LifeNext, CallerStep, JavaRefused

\* Every variable keeps its type, whatever calls of start, stop and print
\* overlap: a proxy enters only in a session that has begun.
THEOREM RaphaelTypeOK == LifeSpec => []LifeTypeOK
<1>1. LifeSpec => []TypeInv
      BY TypeInit, TypeNext, PTL DEF LifeSpec
<1>2. TypeInv => LifeTypeOK
      BY DEF TypeInv
<1> QED
    BY <1>1, <1>2, PTL

-----------------------------------------------------------------------------
(* Part 2: one caller.  RaphaelReceiver runs on the main thread, so calls   *)
(* of start, stop and print follow one another, and where that thread is    *)
(* says what exists of the session; the application's threads run on.       *)

OneCaller == \E c : Callers = {c}

PrintPcs == {"print", "report", "printed"}

\* The caller stands between two calls, in a session.
InSession(c) == jpc[c] = "idle" /\ sIsRunning

\* What the flag of Raphael.java says of a call in progress.
FlagInv(c) ==
    /\ jpc[c] \in {"space", "new"} \cup StartPcs => sIsRunning
    /\ jpc[c] \in {"off", "delete", "clear", "unspace"} => ~ sIsRunning
    /\ jpc[c] \in PrintPcs => (stopping[c] <=> ~ sIsRunning)
    /\ jpc[c] \notin PrintPcs => ~ stopping[c]

\* Which of the session's resources exist at each label.
ResourceInv(c) ==
    /\ mSpace <=> InSession(c) \/ jpc[c] \notin {"idle", "space"}
    /\ mCache # NULL <=>
          InSession(c) \/ jpc[c] \in StartPcs \cup PrintPcs \cup {"off", "delete"}
    /\ key # NULL <=>
          InSession(c) \/ jpc[c] \in PrintPcs \cup {"on", "off", "delete", "clear"}
    /\ monitoring <=>
          InSession(c) \/ jpc[c] = "off" \/ (jpc[c] \in PrintPcs /\ ~ stopping[c])
    /\ mCache # NULL =>
          object[mCache] = IF jpc[c] \in {"hook", "reset"} THEN "raw" ELSE "ready"

\* Resources that exist are the last session's; no other cache is alive.
CurrentInv ==
    /\ mCache # NULL => mCache = started /\ cache = started
    /\ key # NULL => key = started
    /\ \A s \in Sessions : s # mCache => object[s] \in {"none", "freed"}

\* A guard belongs to a session that has begun.  It outlives its key in a
\* thread that leaves a proxy after stop(), so a new key must differ from it.
GuardInv ==
    /\ \A t \in Threads : guard[t] # NULL => guard[t] <= started
    /\ \A c \in Callers : jpc[c] \in {"hook", "reset", "key"} =>
          \A t \in Threads : guard[t] # started
    /\ \A a \in Apps : apc[a] = "app" => ~ Guarded(a)
    /\ \A c \in Callers : jpc[c] \in {"report", "printed"} <=> Guarded(c)

SessionInv ==
    /\ \A c \in Callers : FlagInv(c) /\ ResourceInv(c)
    /\ CurrentInv
    /\ GuardInv
\* Before the first start there is nothing of any session.
LEMMA SessionInit == LifeInit => SessionInv
<1> SUFFICES ASSUME LifeInit PROVE SessionInv
    OBVIOUS
<1>1. \A c \in Callers : FlagInv(c) /\ ResourceInv(c)
      BY DEF LifeInit, FlagInv, ResourceInv, InSession, PrintPcs, StartPcs
<1>2. CurrentInv
      BY DEF LifeInit, CurrentInv
<1>3. GuardInv
      BY DEF LifeInit, GuardInv, Guarded
<1> QED
    BY <1>1, <1>2, <1>3 DEF SessionInv

\* One caller's steps, and those of the application's threads, keep to it.
LEMMA SessionNext ==
    OneCaller /\ TypeInv /\ TypeInv' /\ SessionInv /\ [LifeNext]_lifeVars => SessionInv'
<1> SUFFICES ASSUME NEW c, Callers = {c}, TypeInv, TypeInv', SessionInv,
                    [LifeNext]_lifeVars
             PROVE  SessionInv'
    BY DEF OneCaller
<1> USE DEF TypeInv, SessionInv, J, native, java, appVars
<1>t. Sessions \subseteq Nat /\ started \in Nat /\ NULL \notin Nat
      BY LifeAssumption DEF LifeTypeOK, Sessions
<1>c. c \in Callers /\ c \notin Apps /\ c \in Threads /\ Apps \subseteq Threads
      BY LifeAssumption DEF Threads
<1>1. ASSUME JavaStart(c) PROVE SessionInv'
  <2>1. FlagInv(c)' /\ ResourceInv(c)'
        BY <1>1
        DEF JavaStart, FlagInv, ResourceInv, InSession, StartPcs, PrintPcs
  <2>2. CurrentInv'
        BY <1>1 DEF JavaStart, CurrentInv
  <2>3. GuardInv'
        BY <1>1 DEF JavaStart, GuardInv, Guarded
  <2> QED
      BY <2>1, <2>2, <2>3
<1>2. ASSUME StartSpace(c) PROVE SessionInv'
  <2>1. FlagInv(c)' /\ ResourceInv(c)'
        BY <1>2
        DEF StartSpace, FlagInv, ResourceInv, InSession, StartPcs, PrintPcs
  <2>2. CurrentInv'
        BY <1>2 DEF StartSpace, CurrentInv
  <2>3. GuardInv'
        BY <1>2 DEF StartSpace, GuardInv, Guarded
  <2> QED
      BY <2>1, <2>2, <2>3
<1>3. ASSUME StartCache(c) PROVE SessionInv'
  <2>1. FlagInv(c)' /\ ResourceInv(c)'
        BY <1>t, <1>3
        DEF StartCache, LifeTypeOK, FlagInv, ResourceInv, InSession, StartPcs,
            PrintPcs
  <2>2. CurrentInv'
        BY <1>t, <1>3
        DEF StartCache, ResourceInv, CurrentInv, InSession, StartPcs, PrintPcs
  <2>3. GuardInv'
    <3>1. /\ key' = NULL /\ guard' = guard /\ apc' = apc
          /\ started' = started + 1 /\ jpc'[c] = "hook"
          BY <1>3 DEF StartCache, ResourceInv, InSession, PrintPcs
    <3>2. \A t \in Threads : guard[t] # NULL => guard[t] \in Nat /\ guard[t] <= started
          BY <1>t DEF LifeTypeOK, GuardInv
    <3>3. \A t \in Threads : guard[t] # NULL => guard[t] <= started + 1 /\ guard[t] # started + 1
          BY <1>t, <3>2
    <3> QED
        BY <1>t, <3>1, <3>3 DEF GuardInv, Guarded
  <2> QED
      BY <2>1, <2>2, <2>3
<1>4. ASSUME StartHook(c) PROVE SessionInv'
  <2>1. FlagInv(c)' /\ ResourceInv(c)'
        BY <1>4
        DEF StartHook, FlagInv, ResourceInv, InSession, StartPcs, PrintPcs
  <2>2. CurrentInv'
        BY <1>4 DEF StartHook, CurrentInv
  <2>3. GuardInv'
        BY <1>4 DEF StartHook, GuardInv, Guarded
  <2> QED
      BY <2>1, <2>2, <2>3
<1>5. ASSUME StartReset(c) PROVE SessionInv'
  <2>1. FlagInv(c)' /\ ResourceInv(c)'
        BY <1>5
        DEF StartReset, LifeTypeOK, FlagInv, ResourceInv, InSession, StartPcs,
            PrintPcs
  <2>2. CurrentInv'
        BY <1>5 DEF StartReset, CurrentInv
  <2>3. GuardInv'
        BY <1>5 DEF StartReset, GuardInv, Guarded
  <2> QED
      BY <2>1, <2>2, <2>3
<1>6. ASSUME StartKey(c) PROVE SessionInv'
  <2>1. FlagInv(c)' /\ ResourceInv(c)'
        BY <1>t, <1>6
        DEF StartKey, FlagInv, ResourceInv, InSession, StartPcs, PrintPcs
  <2>2. CurrentInv'
        BY <1>6 DEF StartKey, CurrentInv
  <2>3. GuardInv'
        BY <1>c, <1>6 DEF StartKey, GuardInv, Guarded
  <2> QED
      BY <2>1, <2>2, <2>3
<1>7. ASSUME StartOn(c) PROVE SessionInv'
  <2>1. FlagInv(c)' /\ ResourceInv(c)'
        BY <1>7 DEF StartOn, FlagInv, ResourceInv, InSession, StartPcs
  <2>2. CurrentInv'
        BY <1>7 DEF StartOn, CurrentInv
  <2>3. GuardInv'
        BY <1>7 DEF StartOn, GuardInv, Guarded
  <2> QED
      BY <2>1, <2>2, <2>3
<1>8. ASSUME JavaStop(c) PROVE SessionInv'
  <2>1. FlagInv(c)' /\ ResourceInv(c)'
        BY <1>8
        DEF JavaStop, FlagInv, ResourceInv, InSession, StartPcs, PrintPcs
  <2>2. CurrentInv'
        BY <1>8 DEF JavaStop, CurrentInv
  <2>3. GuardInv'
        BY <1>8 DEF JavaStop, GuardInv, Guarded
  <2> QED
      BY <2>1, <2>2, <2>3
<1>9. ASSUME StopOff(c) PROVE SessionInv'
  <2>1. FlagInv(c)' /\ ResourceInv(c)'
        BY <1>9 DEF StopOff, FlagInv, ResourceInv, InSession, StartPcs, PrintPcs
  <2>2. CurrentInv'
        BY <1>9 DEF StopOff, CurrentInv
  <2>3. GuardInv'
        BY <1>9 DEF StopOff, GuardInv, Guarded
  <2> QED
      BY <2>1, <2>2, <2>3
<1>10. ASSUME JavaPrint(c) PROVE SessionInv'
  <2>1. FlagInv(c)' /\ ResourceInv(c)'
        BY <1>10 DEF JavaPrint, FlagInv, ResourceInv, InSession, PrintPcs
  <2>2. CurrentInv'
        BY <1>10 DEF JavaPrint, CurrentInv
  <2>3. GuardInv'
        BY <1>10 DEF JavaPrint, GuardInv, Guarded
  <2> QED
      BY <2>1, <2>2, <2>3
<1>11. ASSUME PrintGuard(c) PROVE SessionInv'
  <2>1. FlagInv(c)' /\ ResourceInv(c)'
        BY <1>11
        DEF PrintGuard, FlagInv, ResourceInv, InSession, StartPcs, PrintPcs
  <2>2. CurrentInv'
        BY <1>11 DEF PrintGuard, CurrentInv
  <2>3. GuardInv'
        BY <1>c, <1>11
        DEF PrintGuard, SetGuard, LifeTypeOK, ResourceInv, CurrentInv, GuardInv,
            Guarded, PrintPcs
  <2> QED
      BY <2>1, <2>2, <2>3
<1>12. ASSUME PrintReport(c) PROVE SessionInv'
  <2>1. FlagInv(c)' /\ ResourceInv(c)'
        BY <1>12
        DEF PrintReport, FlagInv, ResourceInv, InSession, StartPcs, PrintPcs
  <2>2. CurrentInv'
        BY <1>12 DEF PrintReport, CurrentInv
  <2>3. GuardInv'
        BY <1>12 DEF PrintReport, GuardInv, Guarded
  <2> QED
      BY <2>1, <2>2, <2>3
<1>13. ASSUME PrintDone(c) PROVE SessionInv'
  <2>1. FlagInv(c)' /\ ResourceInv(c)'
        BY <1>13
        DEF PrintDone, FlagInv, ResourceInv, InSession, StartPcs, PrintPcs
  <2>2. CurrentInv'
        BY <1>13 DEF PrintDone, CurrentInv
  <2>3. GuardInv'
        BY <1>13 DEF PrintDone, ClearGuard, LifeTypeOK, GuardInv, Guarded
  <2> QED
      BY <2>1, <2>2, <2>3
<1>14. ASSUME StopDelete(c) PROVE SessionInv'
  <2>1. FlagInv(c)' /\ ResourceInv(c)'
        BY <1>14
        DEF StopDelete, FlagInv, ResourceInv, InSession, StartPcs, PrintPcs
  <2>2. CurrentInv'
        BY <1>14 DEF StopDelete, LifeTypeOK, CurrentInv
  <2>3. GuardInv'
        BY <1>14 DEF StopDelete, GuardInv, Guarded
  <2> QED
      BY <2>1, <2>2, <2>3
<1>15. ASSUME StopKey(c) PROVE SessionInv'
  <2>1. FlagInv(c)' /\ ResourceInv(c)'
        BY <1>15
        DEF StopKey, FlagInv, ResourceInv, InSession, StartPcs, PrintPcs
  <2>2. CurrentInv'
        BY <1>15 DEF StopKey, CurrentInv
  <2>3. GuardInv'
        BY <1>15 DEF StopKey, GuardInv, Guarded
  <2> QED
      BY <2>1, <2>2, <2>3
<1>16. ASSUME StopSpace(c) PROVE SessionInv'
  <2>1. FlagInv(c)' /\ ResourceInv(c)'
        BY <1>16
        DEF StopSpace, FlagInv, ResourceInv, InSession, StartPcs, PrintPcs
  <2>2. CurrentInv'
        BY <1>16 DEF StopSpace, CurrentInv
  <2>3. GuardInv'
        BY <1>16 DEF StopSpace, GuardInv, Guarded
  <2> QED
      BY <2>1, <2>2, <2>3
<1>17. ASSUME NEW a \in Apps, ProxyEnter(a) PROVE SessionInv'
  <2>1. FlagInv(c)' /\ ResourceInv(c)'
        BY <1>17 DEF ProxyEnter, FlagInv, ResourceInv, InSession
  <2>2. CurrentInv'
        BY <1>17 DEF ProxyEnter, CurrentInv
  <2>3. GuardInv'
        BY <1>c, <1>17
        DEF ProxyEnter, SetGuard, LifeTypeOK, ResourceInv, CurrentInv, GuardInv,
            Guarded, InSession, PrintPcs
  <2> QED
      BY <2>1, <2>2, <2>3
<1>18. ASSUME NEW a \in Apps, ProxyUse(a) PROVE SessionInv'
  <2>1. FlagInv(c)' /\ ResourceInv(c)'
        BY <1>18 DEF ProxyUse, FlagInv, ResourceInv, InSession
  <2>2. CurrentInv'
        BY <1>18 DEF ProxyUse, CurrentInv
  <2>3. GuardInv'
        BY <1>18 DEF ProxyUse, GuardInv, Guarded
  <2> QED
      BY <2>1, <2>2, <2>3
<1>19. ASSUME NEW a \in Apps, ProxyLeave(a) PROVE SessionInv'
  <2>1. FlagInv(c)' /\ ResourceInv(c)'
        BY <1>19 DEF ProxyLeave, FlagInv, ResourceInv, InSession
  <2>2. CurrentInv'
        BY <1>19 DEF ProxyLeave, CurrentInv
  <2>3. GuardInv'
        BY <1>c, <1>t, <1>19
        DEF ProxyLeave, ClearGuard, LifeTypeOK, GuardInv, Guarded
  <2> QED
      BY <2>1, <2>2, <2>3
<1>20. ASSUME UNCHANGED lifeVars PROVE SessionInv'
      BY <1>20
      DEF lifeVars, FlagInv, ResourceInv, CurrentInv, GuardInv, Guarded,
          InSession
<1> QED
    BY <1>1, <1>2, <1>3, <1>4, <1>5, <1>6, <1>7, <1>8, <1>9, <1>10, <1>11,
       <1>12, <1>13, <1>14, <1>15, <1>16, <1>17, <1>18, <1>19, <1>20
    DEF LifeNext, CallerStep, JavaRefused

\* The caller's place determines what exists of the session.
LEMMA SessionAlways == OneCaller => (LifeSpec => [](TypeInv /\ SessionInv))
<1> SUFFICES ASSUME OneCaller PROVE LifeSpec => [](TypeInv /\ SessionInv)
    OBVIOUS
<1>1. LifeInit => TypeInv /\ SessionInv
      BY TypeInit, SessionInit
<1>2. TypeInv /\ SessionInv /\ [LifeNext]_lifeVars => (TypeInv /\ SessionInv)'
      BY TypeNext, SessionNext
<1> QED
    BY <1>1, <1>2, PTL DEF LifeSpec

\* While the proxies record, cache, key and directory are the current
\* session's and the cache has been reset, in every session, however many
\* application threads are in proxies of this or of an earlier session.
THEOREM RaphaelSessionReady == OneCaller => (LifeSpec => []SessionReady)
<1> SUFFICES ASSUME OneCaller PROVE LifeSpec => []SessionReady
    OBVIOUS
<1>1. TypeInv /\ SessionInv => SessionReady
  <2> SUFFICES ASSUME NEW c, Callers = {c}, SessionInv, monitoring
               PROVE  SessionReady
      BY DEF OneCaller, SessionReady
  <2>1. mCache # NULL /\ key # NULL /\ mSpace /\ object[mCache] = "ready"
        BY DEF SessionInv, ResourceInv, InSession, PrintPcs
  <2> QED
      BY <2>1 DEF SessionInv, CurrentInv, SessionReady
<1> QED
    BY <1>1, SessionAlways, PTL

\* print() finds a cache that is reset, the directory name, and its own guard
\* set, both when it is called and inside stop().
THEOREM RaphaelPrintSafe == OneCaller => (LifeSpec => []PrintSafe)
<1> SUFFICES ASSUME OneCaller PROVE LifeSpec => []PrintSafe
    OBVIOUS
<1>1. TypeInv /\ SessionInv => PrintSafe
      BY DEF SessionInv, ResourceInv, GuardInv, PrintSafe, PrintPcs
<1> QED
    BY <1>1, SessionAlways, PTL

\* Between stop() and the next start() no cache, key or directory name is
\* left of any session.
THEOREM RaphaelStopReleases == OneCaller => (LifeSpec => []StopReleases)
<1> SUFFICES ASSUME OneCaller PROVE LifeSpec => []StopReleases
    OBVIOUS
<1>1. TypeInv /\ SessionInv => StopReleases
  <2> SUFFICES ASSUME NEW c, Callers = {c}, TypeInv, SessionInv,
                      ~ sIsRunning, jpc[c] = "idle"
               PROVE  /\ \A s \in Sessions : object[s] \in {"none", "freed"}
                      /\ mCache = NULL /\ key = NULL /\ ~ mSpace /\ ~ monitoring
      BY DEF OneCaller, StopReleases
  <2>1. mCache = NULL /\ key = NULL /\ ~ mSpace /\ ~ monitoring
        BY DEF SessionInv, ResourceInv, InSession, PrintPcs, StartPcs
  <2>2. NULL \notin Sessions
        BY LifeAssumption DEF Sessions
  <2> QED
      BY <2>1, <2>2 DEF SessionInv, CurrentInv
<1> QED
    BY <1>1, SessionAlways, PTL

\* No thread is left with a valid guard outside a proxy or a print(): a guard
\* that outlives its key never becomes valid in a later session.
THEOREM RaphaelGuardReleased == OneCaller => (LifeSpec => []GuardReleased)
<1> SUFFICES ASSUME OneCaller PROVE LifeSpec => []GuardReleased
    OBVIOUS
<1>1. TypeInv /\ SessionInv => GuardReleased
      BY DEF SessionInv, GuardInv, GuardReleased
<1> QED
    BY <1>1, SessionAlways, PTL
=============================================================================
