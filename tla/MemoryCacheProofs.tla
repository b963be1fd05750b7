-------------------------- MODULE MemoryCacheProofs --------------------------
(***************************************************************************)
(* Proofs about MemoryCache, for every number of threads, records, chains  *)
(* and addresses, and about the application TrackedApp puts over it.       *)
(***************************************************************************)
EXTENDS TrackedApp, AllocPoolProofs, FiniteSetTheorems

\* A step of the cache is one of its actions, or leaves everything alone.
LEMMA CacheActions ==
    ASSUME [CacheNext]_vars
    PROVE  \/ \E t \in Threads : CacheStep(t)
           \/ \E t \in Threads, a \in Addrs, i \in Infos : InsertCall(t, a, i)
           \/ \E t \in Threads, a \in Addrs : RemoveCall(t, a)
           \/ \E t \in Threads : PrintCall(t)
           \/ UNCHANGED vars
BY DEF CacheNext

-----------------------------------------------------------------------------
(* Part 1: the mutex, with any number of appliers. *)

CachePcs == {"ready"} \cup InsertPcs \cup RemovePcs \cup PrintPcs

LockInv == cpc \in [Threads -> CachePcs] /\ MutexOwner

\* After reset() nobody is in a call.
LEMMA LockInit == CacheInit => LockInv
BY TableAssumption DEF CacheInit, LockInv, MutexOwner, Critical, CachePcs

\* Each action moves one thread, and enters or leaves a critical section only
\* together with taking or giving back the mutex.
LEMMA LockNext == LockInv /\ [CacheNext]_vars => LockInv'
<1> SUFFICES ASSUME LockInv, [CacheNext]_vars PROVE LockInv'
    OBVIOUS
<1> USE TableAssumption
    DEF LockInv, MutexOwner, Critical, CachePcs, InsertPcs, RemovePcs, PrintPcs,
        CGoto, Return, Lock, Unlock
<1>1. ASSUME NEW t \in Threads, NEW a \in Addrs, NEW i \in Infos, InsertCall(t, a, i)
      PROVE  LockInv'
      BY <1>1 DEF InsertCall
<1>2. ASSUME NEW t \in Threads, InsertApply(t) PROVE LockInv'
      BY <1>2 DEF InsertApply, tableVars
<1>3. ASSUME NEW t \in Threads, InsertFull(t) PROVE LockInv'
      BY <1>3 DEF InsertFull
<1>4. ASSUME NEW t \in Threads, InsertFill(t) PROVE LockInv'
      BY <1>4 DEF InsertFill
<1>5. ASSUME NEW t \in Threads, InsertLock(t) PROVE LockInv'
      BY <1>5 DEF InsertLock
<1>6. ASSUME NEW t \in Threads, InsertLink(t) PROVE LockInv'
      BY <1>6 DEF InsertLink
<1>7. ASSUME NEW t \in Threads, InsertPublish(t) PROVE LockInv'
      BY <1>7 DEF InsertPublish
<1>8. ASSUME NEW t \in Threads, NEW a \in Addrs, RemoveCall(t, a) PROVE LockInv'
      BY <1>8 DEF RemoveCall
<1>9. ASSUME NEW t \in Threads, RemoveCheck(t) PROVE LockInv'
      BY <1>9 DEF RemoveCheck
<1>10. ASSUME NEW t \in Threads, RemoveLock(t) PROVE LockInv'
      BY <1>10 DEF RemoveLock
<1>11. ASSUME NEW t \in Threads, RemoveSearch(t) PROVE LockInv'
      BY <1>11 DEF RemoveSearch
<1>12. ASSUME NEW t \in Threads, RemoveUnlink(t) PROVE LockInv'
      BY <1>12 DEF RemoveUnlink
<1>13. ASSUME NEW t \in Threads, RemoveMissing(t) PROVE LockInv'
      BY <1>13 DEF RemoveMissing
<1>14. ASSUME NEW t \in Threads, RemoveUnlock(t) PROVE LockInv'
      BY <1>14 DEF RemoveUnlock
<1>15. ASSUME NEW t \in Threads, RemoveRecycle(t) PROVE LockInv'
      BY <1>15 DEF RemoveRecycle
<1>16. ASSUME NEW t \in Threads, PrintCall(t) PROVE LockInv'
      BY <1>16 DEF PrintCall
<1>17. ASSUME NEW t \in Threads, PrintOpenFails(t) PROVE LockInv'
      BY <1>17 DEF PrintOpenFails
<1>18. ASSUME NEW t \in Threads, PrintLock(t) PROVE LockInv'
      BY <1>18 DEF PrintLock
<1>19. ASSUME NEW t \in Threads, PrintRecord(t) PROVE LockInv'
      BY <1>19 DEF PrintRecord
<1>20. ASSUME NEW t \in Threads, PrintNextChain(t) PROVE LockInv'
      BY <1>20 DEF PrintNextChain
<1>21. ASSUME NEW t \in Threads, PrintUnlock(t) PROVE LockInv'
      BY <1>21 DEF PrintUnlock
<1>22. ASSUME NEW t \in Threads, PrintClose(t) PROVE LockInv'
      BY <1>22 DEF PrintClose
<1>23. ASSUME UNCHANGED vars PROVE LockInv'
      BY <1>23 DEF vars, tableVars
<1> QED
    BY <1>1, <1>2, <1>3, <1>4, <1>5, <1>6, <1>7, <1>8, <1>9, <1>10, <1>11, <1>12,
       <1>13, <1>14, <1>15, <1>16, <1>17, <1>18, <1>19, <1>20, <1>21, <1>22, <1>23,
       CacheActions
    DEF CacheStep

\* At most one thread is in a critical section of insert, remove and print, and
\* it is the one that holds alloc_mutex: also when the pool misbehaves because
\* several threads apply at once.
THEOREM CacheMutexOwner == CacheSpec => []MutexOwner
<1>1. LockInv => MutexOwner
      BY DEF LockInv
<1> QED
    BY <1>1, LockInit, LockNext, PTL DEF CacheSpec

-----------------------------------------------------------------------------
(* Part 2: one applier, so that the pool hands out no record twice.  The    *)
(* records of each chain are described as the pool's free records are: a    *)
(* set closed under next, with nothing before its head, in which no two     *)
(* records have the same successor, and wholly reachable from the head.     *)

Args ==
    {NULL} \cup (Addrs \X Infos)
        \cup {<<a>> : a \in Addrs} \cup {<<b>> : b \in Buckets}

\* A record that a thread is about to publish or has just unlinked.
Limbo == {cur[t] : t \in {s \in Threads : cpc[s] \in {"publish", "leave"}}}

\* The records that belong in chain b.
Kept(b) == {n \in Nodes : owners[n] > 0 /\ n \notin Limbo /\ Hash(addr[n]) = b}

Linked(b, S) ==
    /\ alloc_table[b] \in S \cup {NULL}
    /\ \A m \in S : next[m] \in S \cup {NULL}

ChainShape(b) ==
    /\ Linked(b, Kept(b))
    /\ \A n \in Kept(b) : next[n] = alloc_table[b] => alloc_table[b] = NULL
    /\ \A m, n \in Kept(b) : next[m] = next[n] /\ next[m] # NULL => m = n
    /\ \A S \in SUBSET Nodes : Linked(b, S) => Kept(b) \subseteq S

\* Where the pool's code stands while the cache's stands at cpc[t].
CallInv(t) ==
    /\ cpc[t] = "apply" => pc[t] \in {"idle", "next", "cas", "index", "fresh", "applied"}
    /\ cpc[t] \in {"lock", "link"} => pc[t] = "applied" /\ p[t] # NULL
    /\ cpc[t] = "recycle" => pc[t] \in {"recycle", "push"}
    /\ cpc[t] \notin {"apply", "lock", "link", "recycle"} => pc[t] = "idle"

\* What the locals of insert, remove and print stand for.
LocalInv(t) ==
    /\ cpc[t] \in {"lock", "link"} => addr[p[t]] = arg[t][1] /\ info[p[t]] = arg[t][2]
    /\ cpc[t] = "publish" =>
          /\ cur[t] \in Nodes /\ owners[cur[t]] > 0
          /\ addr[cur[t]] = arg[t][1]
          /\ next[cur[t]] = alloc_table[Hash(arg[t][1])]
    /\ cpc[t] = "search" =>
          /\ cur[t] \in Kept(Hash(arg[t][1])) \cup {NULL}
          /\ prev[t] = NULL => cur[t] = alloc_table[Hash(arg[t][1])]
          /\ prev[t] # NULL => prev[t] \in Kept(Hash(arg[t][1])) /\ next[prev[t]] = cur[t]
    /\ cpc[t] = "leave" => cur[t] \in Nodes /\ owners[cur[t]] > 0
    /\ cpc[t] = "print" => cur[t] \in Kept(arg[t][1]) \cup {NULL}
    /\ cpc[t] \notin {"search", "leave", "recycle"} => prev[t] = NULL

\* What the client has stored has been filled in.
Filled == \A n \in Nodes : owners[n] > 0 => addr[n] \in Addrs /\ info[n] \in Infos

TableInv ==
    /\ CacheTypeOK /\ arg \in [Threads -> Args]
    /\ Filled
    /\ \A t \in Threads : CallInv(t) /\ LocalInv(t)
    /\ \A b \in Buckets : ChainShape(b)

\* The hash of an address is the number of a chain.
LEMMA HashType == \A a \in Addrs : Hash(a) \in Buckets
BY TableAssumption DEF Hash, Buckets

\* The arguments of a call in progress.
LEMMA ArgType ==
    ASSUME CacheTypeOK, NEW t \in Threads
    PROVE  /\ cpc[t] \in InsertPcs \cup RemovePcs =>
                 arg[t][1] \in Addrs /\ Hash(arg[t][1]) \in Buckets
           /\ cpc[t] \in InsertPcs => arg[t][2] \in Infos
           /\ cpc[t] = "print" => arg[t][1] \in Buckets /\ arg[t] = <<arg[t][1]>>
BY HashType DEF CacheTypeOK

\* No record of a chain is its own successor.
LEMMA NoSelfLoop ==
    ASSUME NEW b, ChainShape(b), NEW n \in Kept(b)
    PROVE  next[n] # n
<1> SUFFICES ASSUME next[n] = n PROVE FALSE
    OBVIOUS
<1>1. n # NULL /\ Kept(b) \subseteq Nodes
      BY NullAssumption DEF Kept, Nodes
<1>2. alloc_table[b] # n
      BY <1>1 DEF ChainShape
<1>3. Linked(b, Kept(b) \ {n})
      BY DEF ChainShape, Linked
<1>4. Kept(b) \ {n} \in SUBSET Nodes
      BY <1>1
<1> QED
    BY <1>3, <1>4 DEF ChainShape

\* A step that leaves the head of a chain, its records and their next fields
\* alone leaves the chain as it is.
LEMMA ChainFrame ==
    ASSUME NEW b, ChainShape(b), Kept(b)' = Kept(b), alloc_table'[b] = alloc_table[b],
           \A n \in Kept(b) : next'[n] = next[n]
    PROVE  ChainShape(b)'
<1> USE DEF ChainShape
<1>1. Linked(b, Kept(b))'
      BY DEF Linked
<1>2. ASSUME NEW S \in SUBSET Nodes, Linked(b, S)' PROVE Kept(b)' \subseteq S
  <2>1. Linked(b, S \cap Kept(b))
        BY <1>2 DEF Linked
  <2>2. S \cap Kept(b) \in SUBSET Nodes
        OBVIOUS
  <2> QED
      BY <2>1, <2>2
<1> QED
    BY <1>1, <1>2

\* The same for all chains at once: a step that changes only records that are
\* in no chain.
LEMMA QuietChains ==
    ASSUME \A b \in Buckets : ChainShape(b), alloc_table' = alloc_table,
           \A n \in Nodes :
               /\ owners[n] > 0 /\ n \notin Limbo <=> owners'[n] > 0 /\ n \notin Limbo'
               /\ owners[n] > 0 => addr'[n] = addr[n] /\ next'[n] = next[n]
    PROVE  /\ \A b : Kept(b)' = Kept(b)
           /\ \A b \in Buckets : ChainShape(b)'
<1>1. ASSUME NEW b PROVE Kept(b)' = Kept(b)
      BY DEF Kept
<1>2. ASSUME NEW b \in Buckets PROVE ChainShape(b)'
  <2>1. \A n \in Kept(b) : next'[n] = next[n]
        BY DEF Kept
  <2> QED
      BY <1>1, <2>1, ChainFrame
<1> QED
    BY <1>1, <1>2

\* What a thread knows survives the steps of others, if they keep their hands
\* off the chains while it is in its critical section.
LEMMA LocalFrame ==
    ASSUME NEW t \in Threads, LocalInv(t),
           cpc'[t] = cpc[t], arg'[t] = arg[t], prev'[t] = prev[t], cur'[t] = cur[t],
           cpc[t] \in {"lock", "link"} =>
               p'[t] = p[t] /\ addr'[p[t]] = addr[p[t]] /\ info'[p[t]] = info[p[t]],
           Critical(t) =>
               /\ alloc_table' = alloc_table
               /\ \A b : Kept(b)' = Kept(b)
               /\ \A n \in Nodes : owners[n] > 0 =>
                     owners'[n] > 0 /\ addr'[n] = addr[n] /\ next'[n] = next[n]
    PROVE  LocalInv(t)'
<1>1. \A b, n : n \in Kept(b) => n \in Nodes /\ owners[n] > 0
      BY DEF Kept
<1>2. \A x : Hash(x)' = Hash(x)
      OBVIOUS
<1> QED
    BY <1>1, <1>2 DEF LocalInv, Critical

\* A step inside apply() or recycle() moves one thread and writes next only of
\* a record that it has in hand.
LEMMA PoolStepFrame ==
    ASSUME BaseInv, ChainInv, NEW t \in Threads,
           ApplyLoad(t) \/ PoolStep(t) \/ Refused(t)
    PROVE  /\ owners' = owners
           /\ \A n \in Nodes : owners[n] > 0 => next'[n] = next[n]
           /\ \A s \in Threads \ {t} : pc'[s] = pc[s] /\ p'[s] = p[s]
           /\ pc[t] \in {"idle", "next", "cas", "index", "fresh", "applied"} =>
                 pc'[t] \in {"idle", "next", "cas", "index", "fresh", "applied"}
           /\ pc[t] \in {"recycle", "push"} => pc'[t] \in {"push", "idle"}
           /\ Refused(t) => pc'[t] = "idle"
           /\ ~ Refused(t) => pc[t] \notin {"applied"} 
<1> USE CountAssumption, NullAssumption DEF BaseInv, TypeOK, Goto, locals
<1>1. \A n \in Nodes : InHand(t, n) => owners[n] = 0
      BY DEF ChainInv, Owned
<1>2. CASE ApplyLoad(t)
      BY <1>2 DEF ApplyLoad, Examine, Refused
<1>3. CASE ApplyNext(t)
      BY <1>3 DEF ApplyNext, Refused
<1>4. CASE ApplyPop(t)
      BY <1>4 DEF ApplyPop, Refused
<1>5. CASE ApplyRetry(t)
      BY <1>5 DEF ApplyRetry, Examine, Refused
<1>6. CASE IndexLoad(t)
      BY <1>6 DEF IndexLoad, TestIndex, Refused
<1>7. CASE IndexTake(t)
      BY <1>7 DEF IndexTake, Refused
<1>8. CASE IndexRetry(t)
      BY <1>8 DEF IndexRetry, TestIndex, Refused
<1>9. CASE RecycleLoad(t)
      BY <1>1, <1>9 DEF RecycleLoad, InHand, Refused
<1>10. CASE RecyclePush(t)
      BY <1>10 DEF RecyclePush
<1>11. CASE RecycleRetry(t)
      BY <1>1, <1>11 DEF RecycleRetry, InHand, Refused
<1>12. CASE Refused(t)
      BY <1>12 DEF Refused
<1> QED
    BY <1>2, <1>3, <1>4, <1>5, <1>6, <1>7, <1>8, <1>9, <1>10, <1>11, <1>12
    DEF PoolStep

\* The head of a chain is a record the client owns, or NULL.
LEMMA HeadOwned ==
    ASSUME TableInv, NEW b \in Buckets, alloc_table[b] # NULL
    PROVE  /\ alloc_table[b] \in Kept(b) /\ alloc_table[b] \in Nodes
           /\ owners[alloc_table[b]] > 0
<1>1. Linked(b, Kept(b))
      BY DEF TableInv, ChainShape
<1> QED
    BY <1>1 DEF Linked, Kept

\* Every step of the cache is one of the pool or of a client that writes next
\* only of records it owns, or leaves the pool alone.
LEMMA StepRefines == TableInv /\ [CacheNext]_vars => [PoolNext]_poolVars
<1> SUFFICES ASSUME TableInv, [CacheNext]_vars PROVE [PoolNext]_poolVars
    OBVIOUS
<1>1. ASSUME NEW t \in Threads, InsertApply(t) PROVE PoolNext
      BY <1>1 DEF InsertApply, PoolNext
<1>2. ASSUME NEW t \in Threads, InsertFull(t) PROVE PoolNext
      BY <1>2 DEF InsertFull, PoolNext
<1>3. ASSUME NEW t \in Threads, InsertLink(t) PROVE PoolNext
  <2>1. Hash(arg[t][1]) \in Buckets
        BY <1>3, ArgType DEF InsertLink, TableInv, InsertPcs
  <2>2. alloc_table[Hash(arg[t][1])] \in Linkable
        BY <2>1, HeadOwned DEF Linkable
  <2> QED
      BY <1>3, <2>2 DEF InsertLink, PoolNext
<1>4. ASSUME NEW t \in Threads, RemoveUnlink(t) PROVE [PoolNext]_poolVars
  <2>1. CASE prev[t] = NULL
        BY <1>4, <2>1 DEF RemoveUnlink
  <2>2. CASE prev[t] # NULL
    <3>1. prev[t] \in Nodes /\ cur[t] \in Nodes /\ owners[cur[t]] > 0
          BY <1>4, <2>2 DEF RemoveUnlink, TableInv, LocalInv, Kept
    <3>2. next[cur[t]] \in Linkable
          BY <3>1 DEF Linkable
    <3> QED
        BY <1>4, <3>1, <3>2 DEF RemoveUnlink, PoolNext
  <2> QED
      BY <2>1, <2>2
<1>5. ASSUME NEW t \in Threads, RemoveUnlock(t) PROVE PoolNext
      BY <1>5 DEF RemoveUnlock, PoolNext, TableInv, LocalInv
<1>6. ASSUME NEW t \in Threads, RemoveRecycle(t) PROVE PoolNext
      BY <1>6 DEF RemoveRecycle, PoolNext
<1>7. ASSUME NEW t \in Threads,
             \/ InsertFill(t) \/ InsertLock(t) \/ InsertPublish(t)
             \/ RemoveCheck(t) \/ RemoveLock(t) \/ RemoveSearch(t) \/ RemoveMissing(t)
             \/ PrintOpenFails(t) \/ PrintLock(t) \/ PrintRecord(t) \/ PrintNextChain(t)
             \/ PrintUnlock(t) \/ PrintClose(t) \/ PrintCall(t)
      PROVE  UNCHANGED poolVars
      BY <1>7
      DEF InsertFill, InsertLock, InsertPublish, RemoveCheck, RemoveLock,
          RemoveSearch, RemoveMissing, PrintOpenFails, PrintLock, PrintRecord,
          PrintNextChain, PrintUnlock, PrintClose, PrintCall
<1>8. ASSUME NEW t \in Threads, NEW a \in Addrs, NEW i \in Infos, InsertCall(t, a, i)
      PROVE  UNCHANGED poolVars
      BY <1>8 DEF InsertCall
<1>9. ASSUME NEW t \in Threads, NEW a \in Addrs, RemoveCall(t, a) PROVE UNCHANGED poolVars
      BY <1>9 DEF RemoveCall
<1>10. ASSUME UNCHANGED vars PROVE UNCHANGED poolVars
      BY <1>10 DEF vars
<1> QED
    BY <1>1, <1>2, <1>3, <1>4, <1>5, <1>6, <1>7, <1>8, <1>9, <1>10, CacheActions
    DEF CacheStep

\* A step of t that changes no chain and touches no record other threads know
\* of leaves the chains, and what those threads know, as they are.
LEMMA QuietStep ==
    ASSUME TableInv, NEW t \in Threads,
           alloc_table' = alloc_table, owners' = owners,
           \A n \in Nodes : owners[n] > 0 =>
               next'[n] = next[n] /\ addr'[n] = addr[n] /\ info'[n] = info[n],
           cpc[t] \notin {"publish", "leave"}, cpc'[t] \notin {"publish", "leave"},
           \A s \in Threads \ {t} :
               /\ cpc'[s] = cpc[s] /\ arg'[s] = arg[s]
               /\ prev'[s] = prev[s] /\ cur'[s] = cur[s]
               /\ pc'[s] = pc[s] /\ p'[s] = p[s]
               /\ cpc[s] \in {"lock", "link"} =>
                     addr'[p[s]] = addr[p[s]] /\ info'[p[s]] = info[p[s]]
    PROVE  /\ Filled'
           /\ \A b : Kept(b)' = Kept(b)
           /\ \A b \in Buckets : ChainShape(b)'
           /\ \A s \in Threads \ {t} : CallInv(s)' /\ LocalInv(s)'
<1>1. Limbo' = Limbo
      BY DEF Limbo
<1>2. Filled'
      BY DEF TableInv, Filled
<1>3. (\A b : Kept(b)' = Kept(b)) /\ (\A b \in Buckets : ChainShape(b)')
      BY <1>1, QuietChains DEF TableInv
<1>4. ASSUME NEW s \in Threads \ {t} PROVE CallInv(s)' /\ LocalInv(s)'
      BY <1>3, LocalFrame DEF TableInv, CallInv
<1> QED
    BY <1>2, <1>3, <1>4

\* Every step of the cache keeps its records in their chains.
LEMMA TableNext ==
    ASSUME BaseInv, ChainInv, LockInv, TableInv, BaseInv', [CacheNext]_vars
    PROVE  TableInv'
<1> USE CountAssumption, NullAssumption, TableAssumption
    DEF CGoto, Return, Lock, Unlock, InsertPcs, RemovePcs, PrintPcs
<1>t. TypeOK /\ TypeOK' /\ CacheTypeOK
      BY DEF BaseInv, TableInv
<1>k. \A b, n : n \in Kept(b) => n \in Nodes /\ n # NULL /\ owners[n] > 0
      BY DEF Kept, Nodes
<1>h. \A b \in Buckets : alloc_table[b] \in Kept(b) \cup {NULL}
      BY HeadOwned
<1>n. \A b \in Buckets : \A n \in Kept(b) : next[n] \in Kept(b) \cup {NULL}
      BY DEF TableInv, ChainShape, Linked
<1>a. \A s \in Threads :
          /\ cpc[s] \in InsertPcs \cup RemovePcs =>
                arg[s][1] \in Addrs /\ Hash(arg[s][1]) \in Buckets
          /\ cpc[s] \in InsertPcs => arg[s][2] \in Infos
          /\ cpc[s] = "print" => arg[s][1] \in Buckets /\ arg[s] = <<arg[s][1]>>
      BY <1>t, ArgType
<1>1. ASSUME NEW t \in Threads, NEW a \in Addrs, NEW i \in Infos, InsertCall(t, a, i)
      PROVE  TableInv'
  <2>1. CacheTypeOK' /\ arg' \in [Threads -> Args]
        BY <1>t, <1>1 DEF InsertCall, CacheTypeOK, Args, TableInv
  <2>2. /\ Filled'
        /\ \A b : Kept(b)' = Kept(b)
        /\ \A b \in Buckets : ChainShape(b)'
        /\ \A s \in Threads \ {t} : CallInv(s)' /\ LocalInv(s)'
        BY <1>1, QuietStep DEF InsertCall, poolVars, locals
  <2>3. CallInv(t)'
        BY <1>1 DEF InsertCall, TableInv, CallInv, poolVars, locals
  <2>4. LocalInv(t)'
        BY <1>1 DEF InsertCall, TableInv, LocalInv
  <2> QED
      BY <2>1, <2>2, <2>3, <2>4 DEF TableInv
<1>2. ASSUME NEW t \in Threads, InsertApply(t) PROVE TableInv'
  <2>1. CacheTypeOK' /\ arg' \in [Threads -> Args]
        BY <1>t, <1>2 DEF InsertApply, tableVars, CacheTypeOK, TableInv
  <2>0. /\ owners' = owners
        /\ \A n \in Nodes : owners[n] > 0 => next'[n] = next[n]
        /\ \A s \in Threads \ {t} : pc'[s] = pc[s] /\ p'[s] = p[s]
        /\ pc'[t] \in {"idle", "next", "cas", "index", "fresh", "applied"}
        BY <1>2, PoolStepFrame DEF InsertApply, TableInv, CallInv
  <2>2. /\ Filled'
        /\ \A b : Kept(b)' = Kept(b)
        /\ \A b \in Buckets : ChainShape(b)'
        /\ \A s \in Threads \ {t} : CallInv(s)' /\ LocalInv(s)'
        BY <1>2, <2>0, QuietStep DEF InsertApply, tableVars
  <2>3. CallInv(t)' /\ LocalInv(t)'
        BY <1>2, <2>0 DEF InsertApply, tableVars, TableInv, CallInv, LocalInv
  <2> QED
      BY <2>1, <2>2, <2>3 DEF TableInv
<1>3. ASSUME NEW t \in Threads, InsertFull(t) PROVE TableInv'
  <2>1. CacheTypeOK' /\ arg' \in [Threads -> Args]
        BY <1>t, <1>3 DEF InsertFull, CacheTypeOK, Args, TableInv
  <2>0. /\ owners' = owners
        /\ \A n \in Nodes : owners[n] > 0 => next'[n] = next[n]
        /\ \A s \in Threads \ {t} : pc'[s] = pc[s] /\ p'[s] = p[s]
        /\ pc'[t] = "idle"
        BY <1>3, PoolStepFrame DEF InsertFull
  <2>2. /\ Filled'
        /\ \A b : Kept(b)' = Kept(b)
        /\ \A b \in Buckets : ChainShape(b)'
        /\ \A s \in Threads \ {t} : CallInv(s)' /\ LocalInv(s)'
        BY <1>3, <2>0, QuietStep DEF InsertFull
  <2>3. CallInv(t)' /\ LocalInv(t)'
        BY <1>3, <2>0 DEF InsertFull, TableInv, CallInv, LocalInv
  <2> QED
      BY <2>1, <2>2, <2>3 DEF TableInv
<1>4. ASSUME NEW t \in Threads, InsertFill(t) PROVE TableInv'
  <2>0. /\ p[t] \in Nodes /\ owners[p[t]] = 0
        /\ \A s \in Threads \ {t} :
              cpc[s] \in {"lock", "link"} => p[s] # p[t] /\ p[s] \in Nodes
    <3>1. p[t] \in Nodes /\ InHand(t, p[t])
          BY <1>t, <1>4 DEF InsertFill, TypeOK, InHand
    <3>2. \A s \in Threads :
              cpc[s] \in {"lock", "link"} => p[s] \in Nodes /\ InHand(s, p[s])
          BY <1>t DEF TypeOK, InHand, TableInv, CallInv
    <3> QED
        BY <3>1, <3>2 DEF ChainInv, Owned
  <2>1. CacheTypeOK' /\ arg' \in [Threads -> Args]
        BY <1>t, <1>4 DEF InsertFill, CacheTypeOK, TableInv
  <2>2. /\ Filled'
        /\ \A b : Kept(b)' = Kept(b)
        /\ \A b \in Buckets : ChainShape(b)'
        /\ \A s \in Threads \ {t} : CallInv(s)' /\ LocalInv(s)'
        BY <1>4, <2>0, QuietStep DEF InsertFill, poolVars, locals
  <2>3. CallInv(t)' /\ LocalInv(t)'
        BY <1>4, <2>0
        DEF InsertFill, CacheTypeOK, TableInv, CallInv, LocalInv, poolVars,
            locals
  <2> QED
      BY <2>1, <2>2, <2>3 DEF TableInv
<1>5. ASSUME NEW t \in Threads, InsertLock(t) PROVE TableInv'
  <2>1. CacheTypeOK' /\ arg' \in [Threads -> Args]
        BY <1>t, <1>5 DEF InsertLock, CacheTypeOK, TableInv
  <2>2. /\ Filled'
        /\ \A b : Kept(b)' = Kept(b)
        /\ \A b \in Buckets : ChainShape(b)'
        /\ \A s \in Threads \ {t} : CallInv(s)' /\ LocalInv(s)'
        BY <1>5, QuietStep DEF InsertLock, poolVars, locals
  <2>3. CallInv(t)'
        BY <1>5 DEF InsertLock, TableInv, CallInv, poolVars, locals
  <2>4. LocalInv(t)'
        BY <1>5 DEF InsertLock, TableInv, LocalInv, poolVars, locals
  <2> QED
      BY <2>1, <2>2, <2>3, <2>4 DEF TableInv
<1>6. ASSUME NEW t \in Threads, InsertLink(t) PROVE TableInv'
  <2> DEFINE n == p[t]
  <2>h. PICK h \in Buckets : h = Hash(arg[t][1])
        BY <1>a, <1>6 DEF InsertLink
  <2>0. /\ n \in Nodes /\ owners[n] = 0
        /\ addr[n] = arg[t][1] /\ info[n] = arg[t][2]
    <3>1. n \in Nodes /\ InHand(t, n)
          BY <1>t, <1>6 DEF InsertLink, Keep, TypeOK, InHand
    <3> QED
        BY <1>6, <3>1 DEF InsertLink, ChainInv, Owned, TableInv, LocalInv
  <2>1. \A s \in Threads \ {t} : ~ Critical(s)
        BY <1>6 DEF InsertLink, LockInv, MutexOwner, Critical
  <2>2. /\ Limbo = {} /\ Limbo' = {n}
        /\ \A m \in Nodes : owners'[m] = (IF m = n THEN 1 ELSE owners[m])
        /\ \A m \in Nodes : next'[m] = (IF m = n THEN alloc_table[h] ELSE next[m])
        BY <1>t, <2>h, <1>6, <2>0, <2>1
        DEF InsertLink, Keep, Limbo, Critical, CacheTypeOK, TypeOK
  <2>3. (\A b : Kept(b)' = Kept(b)) /\ (\A b \in Buckets : ChainShape(b)')
        BY <1>6, <2>0, <2>2, QuietChains DEF InsertLink, TableInv
  <2>4. CacheTypeOK' /\ arg' \in [Threads -> Args]
        BY <1>t, <1>6, <2>0 DEF InsertLink, CacheTypeOK, TableInv
  <2>5. Filled'
        BY <1>a, <1>6, <2>0, <2>2 DEF InsertLink, TableInv, Filled
  <2>6. ASSUME NEW s \in Threads \ {t} PROVE CallInv(s)' /\ LocalInv(s)'
        BY <1>6, <2>1, LocalFrame DEF InsertLink, Keep, Goto, TableInv, CallInv
  <2>7. CallInv(t)'
        BY <1>t, <1>6 DEF InsertLink, Keep, Goto, CacheTypeOK, TypeOK, CallInv
  <2>8. LocalInv(t)'
        BY <2>h, <1>6, <2>0, <2>2
        DEF InsertLink, CacheTypeOK, TableInv, LocalInv
  <2> QED
      BY <2>3, <2>4, <2>5, <2>6, <2>7, <2>8 DEF TableInv
<1>7. ASSUME NEW t \in Threads, InsertPublish(t) PROVE TableInv'
  <2> DEFINE n == cur[t]
  <2>h. PICK h \in Buckets : h = Hash(arg[t][1])
        BY <1>a, <1>7 DEF InsertPublish
  <2>0. /\ n \in Nodes /\ n # NULL /\ owners[n] > 0 /\ Hash(addr[n]) = h
        /\ next[n] = alloc_table[h] /\ alloc_table' = [alloc_table EXCEPT ![h] = n]
        /\ next' = next /\ owners' = owners /\ addr' = addr
        BY <2>h, <1>7 DEF InsertPublish, TableInv, LocalInv, Nodes, poolVars
  <2>1. \A s \in Threads \ {t} : ~ Critical(s)
        BY <1>7 DEF InsertPublish, LockInv, MutexOwner, Critical
  <2>2. Limbo = {n} /\ Limbo' = {}
        BY <1>t, <1>7, <2>1 DEF InsertPublish, Limbo, Critical, CacheTypeOK
  <2>3. /\ n \notin Kept(h) /\ Kept(h)' = Kept(h) \cup {n}
        /\ \A b \in Buckets \ {h} : Kept(b)' = Kept(b)
        BY <2>0, <2>2 DEF Kept
  <2>4. ChainShape(h)'
    <3>1. Linked(h, Kept(h))'
          BY <1>h, <1>n, <2>0, <2>3 DEF Linked
    <3>2. ASSUME NEW S \in SUBSET Nodes, Linked(h, S)' PROVE Kept(h)' \subseteq S
      <4>1. Linked(h, S) /\ n \in S
            BY <1>t, <2>0, <3>2 DEF Linked, CacheTypeOK
      <4> QED
          BY <2>3, <4>1 DEF TableInv, ChainShape
    <3>3. \A m \in Kept(h)' : next'[m] # n
          BY <1>h, <1>n, <2>0, <2>3
    <3>4. \A m, o \in Kept(h)' : next'[m] = next'[o] /\ next'[m] # NULL => m = o
          BY <2>0, <2>3 DEF TableInv, ChainShape
    <3> QED
        BY <1>t, <2>0, <3>1, <3>2, <3>3, <3>4 DEF ChainShape, CacheTypeOK
  <2>5. ASSUME NEW b \in Buckets PROVE ChainShape(b)'
    <3>1. CASE b = h
          BY <2>4, <3>1
    <3>2. CASE b # h
          BY <2>0, <2>3, <3>2, ChainFrame DEF TableInv
    <3> QED
        BY <3>1, <3>2
  <2>6. CacheTypeOK' /\ arg' \in [Threads -> Args]
    <3>1. alloc_table' \in [Buckets -> Nodes \cup {NULL}]
          BY <1>t, <2>0 DEF CacheTypeOK
    <3> QED
        BY <1>t, <1>7 DEF InsertPublish, CacheTypeOK, Args, TableInv
  <2>7. Filled'
        BY <1>7, <2>0 DEF InsertPublish, TableInv, Filled
  <2>8. ASSUME NEW s \in Threads \ {t} PROVE CallInv(s)' /\ LocalInv(s)'
        BY <1>7, <2>1, LocalFrame
        DEF InsertPublish, TableInv, CallInv, poolVars, locals
  <2>9. CallInv(t)' /\ LocalInv(t)'
        BY <1>7
        DEF InsertPublish, TableInv, CallInv, LocalInv, CacheTypeOK, poolVars,
            locals
  <2> QED
      BY <2>5, <2>6, <2>7, <2>8, <2>9 DEF TableInv
<1>8. ASSUME NEW t \in Threads, NEW a \in Addrs, RemoveCall(t, a) PROVE TableInv'
  <2>1. CacheTypeOK' /\ arg' \in [Threads -> Args]
        BY <1>t, <1>8 DEF RemoveCall, CacheTypeOK, Args, TableInv
  <2>2. /\ Filled'
        /\ \A b : Kept(b)' = Kept(b)
        /\ \A b \in Buckets : ChainShape(b)'
        /\ \A s \in Threads \ {t} : CallInv(s)' /\ LocalInv(s)'
        BY <1>8, QuietStep DEF RemoveCall, poolVars, locals
  <2>3. CallInv(t)'
        BY <1>8 DEF RemoveCall, TableInv, CallInv, poolVars, locals
  <2>4. LocalInv(t)'
        BY <1>8 DEF RemoveCall, TableInv, LocalInv
  <2> QED
      BY <2>1, <2>2, <2>3, <2>4 DEF TableInv
<1>9. ASSUME NEW t \in Threads, RemoveCheck(t) PROVE TableInv'
  <2>1. CacheTypeOK' /\ arg' \in [Threads -> Args]
        BY <1>t, <1>h, <1>n, <1>a, <1>9
        DEF RemoveCheck, CacheTypeOK, Args, TableInv, LocalInv
  <2>2. /\ Filled'
        /\ \A b : Kept(b)' = Kept(b)
        /\ \A b \in Buckets : ChainShape(b)'
        /\ \A s \in Threads \ {t} : CallInv(s)' /\ LocalInv(s)'
        BY <1>9, QuietStep
        DEF RemoveCheck, TableInv, CacheTypeOK, poolVars, locals
  <2>3. CallInv(t)'
        BY <1>9
        DEF RemoveCheck, TableInv, CallInv, CacheTypeOK, poolVars, locals
  <2>4. LocalInv(t)'
        BY <1>9 DEF RemoveCheck, TableInv, LocalInv, CacheTypeOK
  <2> QED
      BY <2>1, <2>2, <2>3, <2>4 DEF TableInv
<1>10. ASSUME NEW t \in Threads, RemoveLock(t) PROVE TableInv'
  <2>1. CacheTypeOK' /\ arg' \in [Threads -> Args]
        BY <1>t, <1>a, <1>10 DEF RemoveLock, CacheTypeOK, TableInv
  <2>2. /\ Filled'
        /\ \A b : Kept(b)' = Kept(b)
        /\ \A b \in Buckets : ChainShape(b)'
        /\ \A s \in Threads \ {t} : CallInv(s)' /\ LocalInv(s)'
        BY <1>10, QuietStep DEF RemoveLock, poolVars, locals
  <2>3. CallInv(t)'
        BY <1>10 DEF RemoveLock, TableInv, CallInv, poolVars, locals
  <2>4. LocalInv(t)'
        BY <1>h, <1>n, <1>a, <2>2, <1>10
        DEF RemoveLock, TableInv, LocalInv, CacheTypeOK, poolVars
  <2> QED
      BY <2>1, <2>2, <2>3, <2>4 DEF TableInv
<1>11. ASSUME NEW t \in Threads, RemoveSearch(t) PROVE TableInv'
  <2>1. CacheTypeOK' /\ arg' \in [Threads -> Args]
        BY <1>t, <1>k, <1>n, <1>a, <1>11
        DEF RemoveSearch, CacheTypeOK, TableInv, LocalInv
  <2>2. /\ Filled'
        /\ \A b : Kept(b)' = Kept(b)
        /\ \A b \in Buckets : ChainShape(b)'
        /\ \A s \in Threads \ {t} : CallInv(s)' /\ LocalInv(s)'
        BY <1>11, QuietStep DEF RemoveSearch, poolVars, locals
  <2>3. CallInv(t)'
        BY <1>11 DEF RemoveSearch, TableInv, CallInv, poolVars, locals
  <2>4. LocalInv(t)'
        BY <1>n, <1>a, <2>2, <1>11
        DEF RemoveSearch, TableInv, LocalInv, CacheTypeOK, poolVars
  <2> QED
      BY <2>1, <2>2, <2>3, <2>4 DEF TableInv
<1>12. ASSUME NEW t \in Threads, RemoveUnlink(t) PROVE TableInv'
  <2> DEFINE n == cur[t]
  <2>h. PICK h \in Buckets : h = Hash(arg[t][1])
        BY <1>a, <1>12 DEF RemoveUnlink
  <2>0. /\ n \in Kept(h) /\ n \in Nodes /\ n # NULL /\ owners[n] > 0
        /\ next[n] \in Kept(h) \cup {NULL} /\ next[n] # n
        /\ owners' = owners /\ addr' = addr
        BY <1>k, <1>n, <2>h, <1>12, NoSelfLoop
        DEF RemoveUnlink, Relink, TableInv, LocalInv, poolVars
  <2>1. \A s \in Threads \ {t} : ~ Critical(s)
        BY <1>12 DEF RemoveUnlink, LockInv, MutexOwner, Critical
  <2>2. Limbo = {} /\ Limbo' = {n}
        BY <1>t, <1>12, <2>1 DEF RemoveUnlink, Limbo, Critical, CacheTypeOK
  <2>3. /\ Kept(h)' = Kept(h) \ {n}
        /\ \A b \in Buckets \ {h} : Kept(b)' = Kept(b)
        BY <2>0, <2>2 DEF Kept
  <2>4. /\ ChainShape(h)'
        /\ \A b \in Buckets \ {h} : alloc_table'[b] = alloc_table[b]
        /\ \A m \in Nodes \ Kept(h) : next'[m] = next[m]
        /\ alloc_table' \in [Buckets -> Nodes \cup {NULL}]
    <3>1. CASE prev[t] = NULL
      <4>1. /\ n = alloc_table[h] /\ next' = next
            /\ alloc_table' = [alloc_table EXCEPT ![h] = next[n]]
            BY <2>h, <1>12, <3>1 DEF RemoveUnlink, TableInv, LocalInv, poolVars
      <4>2. Linked(h, Kept(h))'
            BY <2>0, <2>3, <4>1 DEF Linked, CacheTypeOK, TableInv, ChainShape
      <4>3. ASSUME NEW S \in SUBSET Nodes, Linked(h, S)' PROVE Kept(h)' \subseteq S
        <5>1. Linked(h, S \cup {n})
              BY <2>0, <4>1, <4>3 DEF Linked
        <5>2. S \cup {n} \in SUBSET Nodes
              BY <2>0
        <5> QED
            BY <2>3, <5>1, <5>2 DEF TableInv, ChainShape
      <4>4. \A m \in Kept(h)' : next'[m] = alloc_table'[h] => alloc_table'[h] = NULL
            BY <2>0, <2>3, <4>1 DEF TableInv, ChainShape
      <4> QED
          BY <1>k, <2>0, <2>3, <4>1, <4>2, <4>3
          DEF CacheTypeOK, TableInv, ChainShape
    <3>2. CASE prev[t] # NULL
      <4> DEFINE q == prev[t]
      <4>1. /\ q \in Kept(h) /\ q \in Nodes /\ next[q] = n /\ q # n
            /\ next' = [next EXCEPT ![q] = next[n]] /\ alloc_table' = alloc_table
            BY <1>k, <2>h, <1>12, <2>0, <3>2
            DEF RemoveUnlink, Relink, TableInv, LocalInv
      <4>2. /\ \A m \in Nodes \ {q} : next'[m] = next[m]
            /\ next'[q] = next[n]
            BY <1>t, <4>1 DEF TypeOK
      <4>3. alloc_table[h] # n
            BY <2>0, <4>1 DEF TableInv, ChainShape
      <4>4. Linked(h, Kept(h))'
        <5>1. alloc_table'[h] \in Kept(h)' \cup {NULL}
              BY <1>h, <2>3, <4>1, <4>3
        <5>2. ASSUME NEW m \in Kept(h)' PROVE next'[m] \in Kept(h)' \cup {NULL}
          <6>1. m \in Kept(h) /\ m # n /\ m \in Nodes
                BY <1>k, <2>3
          <6>2. m # q => next[m] # n
                BY <2>0, <4>1, <6>1 DEF TableInv, ChainShape
          <6> QED
              BY <1>n, <2>0, <2>3, <4>2, <6>1, <6>2
        <5> QED
            BY <5>1, <5>2 DEF Linked
      <4>5. ASSUME NEW S \in SUBSET Nodes, Linked(h, S)' PROVE Kept(h)' \subseteq S
        <5>1. q \in S
          <6> SUFFICES ASSUME q \notin S PROVE FALSE
              OBVIOUS
          <6>1. Linked(h, S)
                BY <4>1, <4>5 DEF Linked
          <6> QED
              BY <4>1, <6>1 DEF TableInv, ChainShape
        <5>2. Linked(h, S \cup {n})
              BY <4>1, <4>2, <4>5, <5>1 DEF Linked
        <5>3. S \cup {n} \in SUBSET Nodes
              BY <2>0
        <5> QED
            BY <2>3, <5>2, <5>3 DEF TableInv, ChainShape
      <4>6. \A m \in Kept(h)' : next'[m] = alloc_table'[h] => alloc_table'[h] = NULL
            BY <2>0, <2>3, <4>1 DEF TableInv, ChainShape
      <4>7. ASSUME NEW m \in Kept(h)', NEW o \in Kept(h)',
                   next'[m] = next'[o], next'[m] # NULL
            PROVE  m = o
            BY <2>0, <2>3, <4>1, <4>7 DEF TableInv, ChainShape
      <4> QED
          BY <1>t, <4>1, <4>4, <4>5, <4>6, <4>7 DEF ChainShape, CacheTypeOK
    <3> QED
        BY <3>1, <3>2
  <2>5. ASSUME NEW b \in Buckets PROVE ChainShape(b)'
    <3>1. CASE b = h
          BY <2>4, <3>1
    <3>2. CASE b # h
      <4>1. \A m \in Kept(b) : m \in Nodes \ Kept(h)
            BY <3>2 DEF Kept
      <4> QED
          BY <2>3, <2>4, <4>1, ChainFrame DEF TableInv
    <3> QED
        BY <3>1, <3>2
  <2>6. CacheTypeOK' /\ arg' \in [Threads -> Args]
        BY <1>t, <1>12, <2>4 DEF RemoveUnlink, CacheTypeOK, TableInv
  <2>7. Filled'
        BY <1>12, <2>0 DEF RemoveUnlink, TableInv, Filled
  <2>c. pc' = pc /\ p' = p
        BY <1>12 DEF RemoveUnlink, Relink, poolVars, locals
  <2>8. ASSUME NEW s \in Threads \ {t} PROVE CallInv(s)' /\ LocalInv(s)'
        BY <1>12, <2>1, <2>c, LocalFrame DEF RemoveUnlink, TableInv, CallInv
  <2>9. CallInv(t)' /\ LocalInv(t)'
        BY <1>12, <2>0, <2>c
        DEF RemoveUnlink, TableInv, CallInv, LocalInv, CacheTypeOK
  <2> QED
      BY <2>5, <2>6, <2>7, <2>8, <2>9 DEF TableInv
<1>13. ASSUME NEW t \in Threads, RemoveMissing(t) PROVE TableInv'
  <2>1. CacheTypeOK' /\ arg' \in [Threads -> Args]
        BY <1>t, <1>13 DEF RemoveMissing, CacheTypeOK, Args, TableInv
  <2>2. /\ Filled'
        /\ \A b : Kept(b)' = Kept(b)
        /\ \A b \in Buckets : ChainShape(b)'
        /\ \A s \in Threads \ {t} : CallInv(s)' /\ LocalInv(s)'
        BY <1>13, QuietStep DEF RemoveMissing, poolVars, locals
  <2>3. CallInv(t)'
        BY <1>13 DEF RemoveMissing, TableInv, CallInv, poolVars, locals
  <2>4. LocalInv(t)'
        BY <1>t, <1>13 DEF RemoveMissing, LocalInv, CacheTypeOK
  <2> QED
      BY <2>1, <2>2, <2>3, <2>4 DEF TableInv
<1>14. ASSUME NEW t \in Threads, RemoveUnlock(t) PROVE TableInv'
  <2> DEFINE n == cur[t]
  <2>0. n \in Nodes /\ owners[n] = 1
        BY <1>t, <1>14
        DEF RemoveUnlock, TableInv, LocalInv, ChainInv, Owned, TypeOK
  <2>1. \A s \in Threads \ {t} : ~ Critical(s)
        BY <1>14 DEF RemoveUnlock, LockInv, MutexOwner, Critical
  <2>2. /\ Limbo = {n} /\ Limbo' = {}
        /\ next' = next
        /\ \A m \in Nodes : owners'[m] = (IF m = n THEN 0 ELSE owners[m])
        BY <1>t, <1>14, <2>0, <2>1
        DEF RemoveUnlock, Release, Limbo, Critical, CacheTypeOK, TypeOK
  <2>3. (\A b : Kept(b)' = Kept(b)) /\ (\A b \in Buckets : ChainShape(b)')
        BY <1>14, <2>2, QuietChains DEF RemoveUnlock, TableInv
  <2>4. CacheTypeOK' /\ arg' \in [Threads -> Args]
        BY <1>t, <1>14 DEF RemoveUnlock, CacheTypeOK, TableInv
  <2>5. Filled'
        BY <1>14, <2>2 DEF RemoveUnlock, TableInv, Filled
  <2>6. ASSUME NEW s \in Threads \ {t} PROVE CallInv(s)' /\ LocalInv(s)'
        BY <1>14, <2>1, LocalFrame
        DEF RemoveUnlock, Release, Goto, TableInv, CallInv
  <2>7. CallInv(t)' /\ LocalInv(t)'
        BY <1>t, <1>14
        DEF RemoveUnlock, Release, Goto, CallInv, LocalInv, CacheTypeOK, TypeOK
  <2> QED
      BY <2>3, <2>4, <2>5, <2>6, <2>7 DEF TableInv
<1>15. ASSUME NEW t \in Threads, RemoveRecycle(t) PROVE TableInv'
  <2>1. CacheTypeOK' /\ arg' \in [Threads -> Args]
    <3>1. /\ TypeOK' /\ arg \in [Threads -> Args]
          /\ UNCHANGED <<alloc_table, addr, info, alloc_mutex>>
          BY <1>t, <1>15 DEF RemoveRecycle, TableInv
    <3>2. CASE UNCHANGED <<cpc, arg, prev, cur>>
          BY <1>t, <3>1, <3>2 DEF CacheTypeOK
    <3>3. CASE Return(t)
          BY <1>t, <3>1, <3>3 DEF CacheTypeOK, Args
    <3> QED
        BY <1>15, <3>2, <3>3 DEF RemoveRecycle
  <2>0. /\ owners' = owners
        /\ \A n \in Nodes : owners[n] > 0 => next'[n] = next[n]
        /\ \A s \in Threads \ {t} : pc'[s] = pc[s] /\ p'[s] = p[s]
        /\ pc'[t] \in {"push", "idle"}
        BY <1>15, PoolStepFrame DEF RemoveRecycle, TableInv, CallInv
  <2>2. /\ Filled'
        /\ \A b : Kept(b)' = Kept(b)
        /\ \A b \in Buckets : ChainShape(b)'
        /\ \A s \in Threads \ {t} : CallInv(s)' /\ LocalInv(s)'
        BY <1>15, <2>0, QuietStep DEF RemoveRecycle, CacheTypeOK, TableInv
  <2>3. CallInv(t)' /\ LocalInv(t)'
        BY <1>t, <1>15, <2>0 DEF RemoveRecycle, CacheTypeOK, CallInv, LocalInv
  <2> QED
      BY <2>1, <2>2, <2>3 DEF TableInv
<1>16. ASSUME NEW t \in Threads, PrintCall(t) PROVE TableInv'
  <2>1. CacheTypeOK' /\ arg' \in [Threads -> Args]
        BY <1>t, <1>16 DEF PrintCall, CacheTypeOK, TableInv
  <2>2. /\ Filled'
        /\ \A b : Kept(b)' = Kept(b)
        /\ \A b \in Buckets : ChainShape(b)'
        /\ \A s \in Threads \ {t} : CallInv(s)' /\ LocalInv(s)'
        BY <1>16, QuietStep DEF PrintCall, poolVars, locals
  <2>3. CallInv(t)'
        BY <1>16 DEF PrintCall, TableInv, CallInv, poolVars, locals
  <2>4. LocalInv(t)'
        BY <1>16 DEF PrintCall, TableInv, LocalInv
  <2> QED
      BY <2>1, <2>2, <2>3, <2>4 DEF TableInv
<1>17. ASSUME NEW t \in Threads, PrintOpenFails(t) PROVE TableInv'
  <2>1. CacheTypeOK' /\ arg' \in [Threads -> Args]
        BY <1>t, <1>17 DEF PrintOpenFails, CacheTypeOK, Args, TableInv
  <2>2. /\ Filled'
        /\ \A b : Kept(b)' = Kept(b)
        /\ \A b \in Buckets : ChainShape(b)'
        /\ \A s \in Threads \ {t} : CallInv(s)' /\ LocalInv(s)'
        BY <1>17, QuietStep DEF PrintOpenFails, poolVars, locals
  <2>3. CallInv(t)'
        BY <1>17 DEF PrintOpenFails, TableInv, CallInv, poolVars, locals
  <2>4. LocalInv(t)'
        BY <1>t, <1>17 DEF PrintOpenFails, LocalInv, CacheTypeOK
  <2> QED
      BY <2>1, <2>2, <2>3, <2>4 DEF TableInv
<1>18. ASSUME NEW t \in Threads, PrintLock(t) PROVE TableInv'
  <2>0. PICK b \in Buckets : b = 0
        BY DEF Buckets
  <2>a. arg' = [arg EXCEPT ![t] = <<b>>] /\ cur' = [cur EXCEPT ![t] = alloc_table[b]]
        BY <1>18, <2>0 DEF PrintLock
  <2>1. CacheTypeOK' /\ arg' \in [Threads -> Args]
        BY <1>t, <1>18, <2>a DEF PrintLock, CacheTypeOK, Args, TableInv
  <2>2. /\ Filled'
        /\ \A d : Kept(d)' = Kept(d)
        /\ \A d \in Buckets : ChainShape(d)'
        /\ \A s \in Threads \ {t} : CallInv(s)' /\ LocalInv(s)'
        BY <1>18, QuietStep DEF PrintLock, poolVars, locals
  <2>3. CallInv(t)'
        BY <1>18 DEF PrintLock, TableInv, CallInv, poolVars, locals
  <2>4. LocalInv(t)'
    <3>1. /\ cpc'[t] = "print" /\ arg'[t][1] = b
          /\ cur'[t] \in Kept(b) \cup {NULL} /\ prev'[t] = NULL
          BY <1>h, <1>18, <2>a DEF PrintLock, TableInv, LocalInv, CacheTypeOK
    <3> QED
        BY <2>2, <3>1 DEF LocalInv
  <2> QED
      BY <2>1, <2>2, <2>3, <2>4 DEF TableInv
<1>19. ASSUME NEW t \in Threads, PrintRecord(t) PROVE TableInv'
  <2>1. CacheTypeOK' /\ arg' \in [Threads -> Args]
        BY <1>t, <1>k, <1>n, <1>19
        DEF PrintRecord, CacheTypeOK, TableInv, LocalInv
  <2>2. /\ Filled'
        /\ \A b : Kept(b)' = Kept(b)
        /\ \A b \in Buckets : ChainShape(b)'
        /\ \A s \in Threads \ {t} : CallInv(s)' /\ LocalInv(s)'
        BY <1>19, QuietStep DEF PrintRecord, poolVars, locals
  <2>3. CallInv(t)'
        BY <1>19 DEF PrintRecord, TableInv, CallInv, poolVars, locals
  <2>4. LocalInv(t)'
        BY <1>t, <1>k, <1>h, <1>n, <1>a, <2>2, <1>19
        DEF PrintRecord, TableInv, LocalInv, CacheTypeOK
  <2> QED
      BY <2>1, <2>2, <2>3, <2>4 DEF TableInv
<1>20. ASSUME NEW t \in Threads, PrintNextChain(t) PROVE TableInv'
  <2>0. PICK b \in Buckets : b = arg[t][1] + 1
        BY <1>a, <1>20 DEF PrintNextChain, Buckets
  <2>a. arg' = [arg EXCEPT ![t] = <<b>>] /\ cur' = [cur EXCEPT ![t] = alloc_table[b]]
        BY <1>20, <2>0 DEF PrintNextChain
  <2>1. CacheTypeOK' /\ arg' \in [Threads -> Args]
        BY <1>t, <1>20, <2>a DEF PrintNextChain, CacheTypeOK, Args, TableInv
  <2>2. /\ Filled'
        /\ \A d : Kept(d)' = Kept(d)
        /\ \A d \in Buckets : ChainShape(d)'
        /\ \A s \in Threads \ {t} : CallInv(s)' /\ LocalInv(s)'
        BY <1>20, QuietStep DEF PrintNextChain, poolVars, locals
  <2>3. CallInv(t)'
        BY <1>20 DEF PrintNextChain, TableInv, CallInv, poolVars, locals
  <2>4. LocalInv(t)'
    <3>1. /\ cpc'[t] = "print" /\ arg'[t][1] = b
          /\ cur'[t] \in Kept(b) \cup {NULL} /\ prev'[t] = NULL
          BY <1>h, <1>20, <2>a DEF PrintNextChain, TableInv, LocalInv
    <3> QED
        BY <2>2, <3>1 DEF LocalInv
  <2> QED
      BY <2>1, <2>2, <2>3, <2>4 DEF TableInv
<1>21. ASSUME NEW t \in Threads, PrintUnlock(t) PROVE TableInv'
  <2>1. CacheTypeOK' /\ arg' \in [Threads -> Args]
        BY <1>t, <1>21 DEF PrintUnlock, CacheTypeOK, TableInv
  <2>2. /\ Filled'
        /\ \A b : Kept(b)' = Kept(b)
        /\ \A b \in Buckets : ChainShape(b)'
        /\ \A s \in Threads \ {t} : CallInv(s)' /\ LocalInv(s)'
        BY <1>21, QuietStep DEF PrintUnlock, poolVars, locals
  <2>3. CallInv(t)'
        BY <1>21 DEF PrintUnlock, TableInv, CallInv, poolVars, locals
  <2>4. LocalInv(t)'
        BY <1>21 DEF PrintUnlock, TableInv, LocalInv
  <2> QED
      BY <2>1, <2>2, <2>3, <2>4 DEF TableInv
<1>22. ASSUME NEW t \in Threads, PrintClose(t) PROVE TableInv'
  <2>1. CacheTypeOK' /\ arg' \in [Threads -> Args]
        BY <1>t, <1>22 DEF PrintClose, CacheTypeOK, Args, TableInv
  <2>2. /\ Filled'
        /\ \A b : Kept(b)' = Kept(b)
        /\ \A b \in Buckets : ChainShape(b)'
        /\ \A s \in Threads \ {t} : CallInv(s)' /\ LocalInv(s)'
        BY <1>22, QuietStep DEF PrintClose, poolVars, locals
  <2>3. CallInv(t)'
        BY <1>22 DEF PrintClose, TableInv, CallInv, poolVars, locals
  <2>4. LocalInv(t)'
        BY <1>t, <1>22 DEF PrintClose, LocalInv, CacheTypeOK
  <2> QED
      BY <2>1, <2>2, <2>3, <2>4 DEF TableInv
<1>23. ASSUME UNCHANGED vars PROVE TableInv'
  <2>1. (\A b : Kept(b)' = Kept(b)) /\ (\A b \in Buckets : ChainShape(b)')
        BY <1>23, QuietChains DEF vars, poolVars, tableVars, TableInv, Limbo
  <2>2. CacheTypeOK' /\ arg' \in [Threads -> Args] /\ Filled'
        BY <1>t, <1>23
        DEF vars, poolVars, tableVars, CacheTypeOK, TableInv, Filled
  <2>3. \A s \in Threads : CallInv(s)' /\ LocalInv(s)'
        BY <1>23, <2>1, LocalFrame
        DEF vars, poolVars, locals, tableVars, TableInv, CallInv
  <2> QED
      BY <2>1, <2>2, <2>3 DEF TableInv
<1> QED
    BY <1>1, <1>2, <1>3, <1>4, <1>5, <1>6, <1>7, <1>8, <1>9, <1>10, <1>11, <1>12,
       <1>13, <1>14, <1>15, <1>16, <1>17, <1>18, <1>19, <1>20, <1>21, <1>22, <1>23,
       CacheActions
    DEF CacheStep

\* After reset() every chain is empty.
LEMMA TableInit == CacheInit => TableInv
<1> SUFFICES ASSUME CacheInit PROVE TableInv
    OBVIOUS
<1>1. BaseInv
      BY BaseInit DEF CacheInit
<1>2. \A b : Kept(b) = {}
      BY DEF CacheInit, PoolInit, Kept
<1>3. CacheTypeOK /\ arg \in [Threads -> Args]
      BY <1>1 DEF CacheInit, CacheTypeOK, BaseInv, Args, InsertPcs, RemovePcs
<1>4. Filled
      BY DEF CacheInit, PoolInit, Filled
<1>5. \A t \in Threads : CallInv(t) /\ LocalInv(t)
      BY DEF CacheInit, PoolInit, CallInv, LocalInv
<1>6. \A b \in Buckets : ChainShape(b)
      BY <1>2 DEF CacheInit, ChainShape, Linked
<1> QED
    BY <1>3, <1>4, <1>5, <1>6 DEF TableInv

AllInv == BaseInv /\ ChainInv /\ LockInv /\ TableInv

\* The whole invariant, for one applier.  The pool's part of it is preserved
\* because each step of the cache is one that the pool allows.
LEMMA CacheInvariant == OneApplier => (CacheSpec => []AllInv)
<1> SUFFICES ASSUME OneApplier PROVE CacheSpec => []AllInv
    OBVIOUS
<1>1. CacheInit => AllInv
      BY BaseInit, ChainInit, TableInit, LockInit DEF CacheInit, AllInv
<1>2. AllInv /\ [CacheNext]_vars => AllInv'
  <2> SUFFICES ASSUME AllInv, [CacheNext]_vars PROVE AllInv'
      OBVIOUS
  <2>1. [PoolNext]_poolVars
        BY StepRefines DEF AllInv
  <2>2. BaseInv'
        BY <2>1, BaseNext DEF AllInv
  <2>3. ChainInv'
        BY <2>1, <2>2, ChainNext DEF AllInv
  <2>4. LockInv'
        BY LockNext DEF AllInv
  <2>5. TableInv'
        BY <2>2, TableNext DEF AllInv
  <2> QED
      BY <2>2, <2>3, <2>4, <2>5 DEF AllInv
<1> QED
    BY <1>1, <1>2, PTL DEF CacheSpec

\* Every variable keeps its type; no pointer of a chain, of a search or of a
\* report leaves the array or is one that only malloc() has touched.
THEOREM CacheTypes == OneApplier => (CacheSpec => []CacheTypeOK)
<1> SUFFICES ASSUME OneApplier PROVE CacheSpec => []CacheTypeOK
    OBVIOUS
<1>1. AllInv => CacheTypeOK
      BY DEF AllInv, TableInv
<1> QED
    BY <1>1, CacheInvariant, PTL

\* A walk along a chain meets exactly the records that are kept in it.
LEMMA WalkIsKept == TableInv => \A b \in Buckets : InChain(b) = Kept(b)
<1> SUFFICES ASSUME TableInv, NEW b \in Buckets PROVE InChain(b) = Kept(b)
    OBVIOUS
<1>1. Kept(b) \in SUBSET Nodes /\ Linked(b, Kept(b))
      BY DEF Kept, TableInv, ChainShape
<1>2. InChain(b) \subseteq Kept(b)
      BY <1>1 DEF InChain, Linked
<1>3. Kept(b) \subseteq InChain(b)
      BY <1>1 DEF InChain, Linked, TableInv, ChainShape
<1> QED
    BY <1>2, <1>3

\* The chains hold exactly the records the pool has given to the cache, each
\* under its hash, and share none with the pool's stack, although both are
\* linked through AllocNode::next.
THEOREM CacheChainsSound == OneApplier => (CacheSpec => []ChainsSound)
<1> SUFFICES ASSUME OneApplier PROVE CacheSpec => []ChainsSound
    OBVIOUS
<1>1. ASSUME AllInv PROVE ChainsSound
  <2> USE <1>1 DEF AllInv
  <2>1. \A b \in Buckets : InChain(b) = Kept(b)
        BY WalkIsKept
  <2>2. \A n \in Nodes : owners[n] > 0 =>
            addr[n] \in Addrs /\ info[n] \in Infos /\ Hash(addr[n]) \in Buckets
        BY HashType DEF TableInv, Filled
  <2>3. \A b \in Buckets, n \in Nodes :
            n \in InChain(b) =>
                addr[n] \in Addrs /\ Hash(addr[n]) = b /\ info[n] \in Infos
        BY <2>1, <2>2 DEF Kept
  <2>4. UNION {InChain(b) : b \in Buckets} = {n \in Nodes : owners[n] > 0} \ Limbo
    <3>1. ASSUME NEW n PROVE n \in UNION {InChain(b) : b \in Buckets}
                                <=> n \in Nodes /\ owners[n] > 0 /\ n \notin Limbo
          BY <2>1, <2>2 DEF Kept
    <3> QED
        BY <3>1
  <2>5. \A b \in Buckets : InChain(b) \cap FreeStack = {}
    <3>1. FreeStack = Free
          BY FreeIsFreeStack DEF ChainInv
    <3> QED
        BY <2>1, <3>1 DEF Kept, Free, Out
  <2> QED
      BY <2>3, <2>4, <2>5 DEF ChainsSound, Limbo
<1> QED
    BY <1>1, CacheInvariant, PTL

\* MemoryCache is a client of the pool as the pool's proofs assume one.
THEOREM CacheImplementsPool == OneApplier => (CacheSpec => ImplementsPool)
<1> SUFFICES ASSUME OneApplier PROVE CacheSpec => PoolSpec
    BY DEF ImplementsPool
<1>1. CacheInit => PoolInit
      BY DEF CacheInit
<1>2. AllInv /\ [CacheNext]_vars => [PoolNext]_poolVars
      BY StepRefines DEF AllInv
<1> QED
    BY <1>1, <1>2, CacheInvariant, PTL DEF CacheSpec, PoolSpec

\* So what is proved of the pool holds of it inside the cache: with one applying
\* thread no record is in two places, and none is lost.
THEOREM CacheKeepsPool == OneApplier => (CacheSpec => []Exclusive /\ []Conserved)
BY CacheImplementsPool, PoolExclusive, PoolConserved, PTL DEF ImplementsPool
-----------------------------------------------------------------------------
(* TrackedApp.  With one applying thread the report of a well-behaved      *)
(* application is exact: two appliers, and so the ABA on AllocPool's stack,*)
(* are the only way to the counterexample the module has for ReportExact.  *)

Statuses == {"free", "inserting", "live", "removing", "unrecorded"}

\* The records of address a, described without walking its chain.
Recs(a) == {n \in Nodes : owners[n] > 0 /\ n \notin Limbo /\ addr[n] = a}

Busy(t) == cpc[t] \in InsertPcs \cup RemovePcs

\* A search that goes on from cur[t] meets record n.
Ahead(t, n) ==
    \A S \in SUBSET Kept(Hash(arg[t][1])) :
        /\ cur[t] \in S \cup {NULL}
        /\ \A m \in S : next[m] \in S \cup {NULL}
        => n \in S

\* What thread t's operation has done so far to the records of its address.
OpInv(t) ==
    /\ cpc[t] \in InsertPcs => status[arg[t][1]] = "inserting"
    /\ cpc[t] \in RemovePcs => status[arg[t][1]] = "removing"
    /\ cpc[t] \in {"check", "enter", "search"} => \E n \in Nodes : Recs(arg[t][1]) = {n}
    /\ cpc[t] = "search" => \A n \in Recs(arg[t][1]) : Ahead(t, n)
    /\ cpc[t] \in {"leave", "recycle"} => Recs(arg[t][1]) = {}

StatusInv(a) ==
    /\ status[a] \in {"free", "unrecorded", "inserting"} => Recs(a) = {}
    /\ status[a] = "live" => \E n \in Nodes : Recs(a) = {n}

\* No two operations work on one address.
Alone ==
    \A s, t \in Threads : Busy(s) /\ Busy(t) /\ arg[s][1] = arg[t][1] => s = t

AppInv ==
    /\ status \in [Addrs -> Statuses]
    /\ Alone
    /\ \A t \in Threads : OpInv(t)
    /\ \A a \in Addrs : StatusInv(a)

-----------------------------------------------------------------------------
(* What a step does to the records. *)

\* An application's step is a step of the cache or leaves the cache alone.
LEMMA AppRefines == AppSpec => CacheSpec
<1>1. AppInit => CacheInit
      BY DEF AppInit
<1>2. [AppNext]_appVars => [CacheNext]_vars
      BY DEF AppNext, appVars, AppAllocate, AppFree, AppStep, AppFreeUnrecorded,
             AppPrint,
             CacheNext
<1> QED
    BY <1>1, <1>2, PTL DEF AppSpec, CacheSpec

\* The records of an address are in its chain.
LEMMA RecsInChain == \A a : Recs(a) = {n \in Kept(Hash(a)) : addr[n] = a}
BY DEF Recs, Kept

\* Records change neither their chain nor their address in a step that changes
\* neither which records are in a chain nor what they say.
LEMMA RecsFrame ==
    ASSUME \A n \in Nodes :
               /\ owners[n] > 0 /\ n \notin Limbo <=> owners'[n] > 0 /\ n \notin Limbo'
               /\ owners[n] > 0 => addr'[n] = addr[n]
    PROVE  (\A a : Recs(a)' = Recs(a)) /\ (\A b : Kept(b)' = Kept(b))
<1>1. ASSUME NEW a PROVE Recs(a)' = Recs(a)
      BY DEF Recs
<1>2. ASSUME NEW b PROVE Kept(b)' = Kept(b)
      BY DEF Kept, Hash
<1> QED
    BY <1>1, <1>2

\* No record enters or leaves a chain, or changes its successor in one.
Undisturbed ==
    /\ \A a : Recs(a)' = Recs(a)
    /\ \A b : Kept(b)' = Kept(b)
    /\ \A n \in Nodes : owners[n] > 0 => next'[n] = next[n]

\* A step of t changes the locals of no other thread.
LEMMA LocalsFrame ==
    ASSUME TableInv, NEW t \in Threads,
           \/ CacheStep(t) \/ PrintCall(t)
           \/ \E a \in Addrs, i \in Infos : InsertCall(t, a, i)
           \/ \E a \in Addrs : RemoveCall(t, a)
    PROVE  \A s \in Threads \ {t} :
               cpc'[s] = cpc[s] /\ arg'[s] = arg[s] /\ cur'[s] = cur[s]
<1> USE DEF CGoto, Return
<1>1. /\ cpc \in [Threads -> {"ready"} \cup InsertPcs \cup RemovePcs \cup PrintPcs]
      /\ cur \in [Threads -> Nodes \cup {NULL}]
      /\ arg \in [Threads -> Args]
      BY DEF TableInv, CacheTypeOK
<1>2. CASE InsertApply(t) \/ InsertFull(t) \/ InsertFill(t) \/ InsertLock(t)
      BY <1>1, <1>2 DEF InsertApply, tableVars, InsertFull, InsertFill, InsertLock
<1>3. CASE InsertLink(t) \/ InsertPublish(t)
      BY <1>1, <1>3 DEF InsertLink, InsertPublish
<1>4. CASE RemoveCheck(t) \/ RemoveLock(t) \/ RemoveSearch(t) \/ RemoveMissing(t)
      BY <1>1, <1>4 DEF RemoveCheck, RemoveLock, RemoveSearch, RemoveMissing
<1>5. CASE RemoveUnlink(t) \/ RemoveUnlock(t) \/ RemoveRecycle(t)
      BY <1>1, <1>5 DEF RemoveUnlink, RemoveUnlock, RemoveRecycle
<1>6. CASE PrintOpenFails(t) \/ PrintLock(t) \/ PrintRecord(t)
      BY <1>1, <1>6 DEF PrintOpenFails, PrintLock, PrintRecord
<1>7. CASE PrintNextChain(t) \/ PrintUnlock(t) \/ PrintClose(t) \/ PrintCall(t)
      BY <1>1, <1>7 DEF PrintNextChain, PrintUnlock, PrintClose, PrintCall
<1>8. ASSUME NEW a \in Addrs, NEW i \in Infos, InsertCall(t, a, i)
      PROVE  \A s \in Threads \ {t} :
                 cpc'[s] = cpc[s] /\ arg'[s] = arg[s] /\ cur'[s] = cur[s]
      BY <1>1, <1>8 DEF InsertCall
<1>9. ASSUME NEW a \in Addrs, RemoveCall(t, a)
      PROVE  \A s \in Threads \ {t} :
                 cpc'[s] = cpc[s] /\ arg'[s] = arg[s] /\ cur'[s] = cur[s]
      BY <1>1, <1>9 DEF RemoveCall
<1> QED
    BY <1>2, <1>3, <1>4, <1>5, <1>6, <1>7, <1>8, <1>9 DEF CacheStep

\* Only the steps that publish and unlink a record change a chain.
LEMMA StepUndisturbed ==
    ASSUME AllInv, NEW t \in Threads,
           \/ CacheStep(t) \/ PrintCall(t)
           \/ \E a \in Addrs, i \in Infos : InsertCall(t, a, i)
           \/ \E a \in Addrs : RemoveCall(t, a),
           ~ InsertPublish(t), ~ RemoveUnlink(t)
    PROVE  Undisturbed
<1> USE CountAssumption, NullAssumption, TableAssumption DEF CGoto, Return
<1>t. /\ TypeOK /\ CacheTypeOK /\ TableInv
      /\ cpc \in [Threads -> {"ready"} \cup InsertPcs \cup RemovePcs \cup PrintPcs]
      BY DEF AllInv, TableInv, CacheTypeOK
<1>l. \A s \in Threads \ {t} : cpc'[s] = cpc[s] /\ cur'[s] = cur[s]
      BY <1>t, LocalsFrame
<1>1. ASSUME cpc[t] \notin {"publish", "leave"}, cpc'[t] \notin {"publish", "leave"},
             owners' = owners,
             \A n \in Nodes : owners[n] > 0 => next'[n] = next[n] /\ addr'[n] = addr[n]
      PROVE  Undisturbed
  <2>1. Limbo' = Limbo
        BY <1>l, <1>1 DEF Limbo
  <2> QED
      BY <1>1, <2>1, RecsFrame DEF Undisturbed
<1>2. CASE \/ InsertLock(t) \/ RemoveCheck(t) \/ RemoveLock(t)
           \/ RemoveSearch(t) \/ RemoveMissing(t)
      BY <1>t, <1>1, <1>2
      DEF InsertLock, RemoveCheck, RemoveLock, RemoveSearch, RemoveMissing, poolVars
<1>3. CASE \/ PrintOpenFails(t) \/ PrintLock(t) \/ PrintRecord(t)
           \/ PrintNextChain(t) \/ PrintUnlock(t) \/ PrintClose(t) \/ PrintCall(t)
      BY <1>t, <1>1, <1>3
      DEF PrintOpenFails, PrintLock, PrintRecord, PrintNextChain, PrintUnlock,
          PrintClose, PrintCall, poolVars
<1>4. ASSUME NEW a \in Addrs, NEW i \in Infos, InsertCall(t, a, i) PROVE Undisturbed
      BY <1>t, <1>1, <1>4 DEF InsertCall, poolVars
<1>5. ASSUME NEW a \in Addrs, RemoveCall(t, a) PROVE Undisturbed
      BY <1>t, <1>1, <1>5 DEF RemoveCall, poolVars
<1>6. CASE InsertApply(t) \/ InsertFull(t) \/ RemoveRecycle(t)
  <2>1. ApplyLoad(t) \/ PoolStep(t) \/ Refused(t)
        BY <1>6 DEF InsertApply, InsertFull, RemoveRecycle
  <2>2. owners' = owners /\ \A n \in Nodes : owners[n] > 0 => next'[n] = next[n]
        BY <2>1, PoolStepFrame DEF AllInv
  <2>3. /\ cpc[t] \notin {"publish", "leave"} /\ cpc'[t] \notin {"publish", "leave"}
        /\ addr' = addr
        BY <1>t, <1>6 DEF InsertApply, tableVars, InsertFull, RemoveRecycle
  <2> QED
      BY <1>1, <2>2, <2>3
<1>7. CASE InsertFill(t)
  <2>1. p[t] \in Nodes /\ InHand(t, p[t])
        BY <1>t, <1>7 DEF InsertFill, TypeOK, InHand
  <2>2. owners[p[t]] = 0
        BY <2>1 DEF AllInv, ChainInv, Owned
  <2> QED
      BY <1>t, <1>1, <1>7, <2>1, <2>2 DEF InsertFill, poolVars, CacheTypeOK
<1>8. CASE InsertLink(t)
  <2>1. p[t] \in Nodes /\ InHand(t, p[t])
        BY <1>t, <1>8 DEF InsertLink, Keep, TypeOK, InHand
  <2>2. owners[p[t]] = 0
        BY <2>1 DEF AllInv, ChainInv, Owned
  <2>3. \A s \in Threads \ {t} : ~ Critical(s)
        BY <1>8 DEF InsertLink, AllInv, LockInv, MutexOwner, Critical
  <2>4. Limbo = {} /\ Limbo' = {p[t]}
        BY <1>t, <1>l, <1>8, <2>3 DEF InsertLink, Limbo, Critical, CacheTypeOK
  <2>5. /\ addr' = addr
        /\ \A n \in Nodes \ {p[t]} : owners'[n] = owners[n] /\ next'[n] = next[n]
        BY <1>t, <1>8, <2>1 DEF InsertLink, Keep, TypeOK
  <2> QED
      BY <2>1, <2>2, <2>4, <2>5, RecsFrame DEF Undisturbed
<1>9. CASE RemoveUnlock(t)
  <2>1. cur[t] \in Nodes /\ owners[cur[t]] = 1
        BY <1>t, <1>9
        DEF RemoveUnlock, AllInv, TableInv, LocalInv, ChainInv, Owned, TypeOK
  <2>2. \A s \in Threads \ {t} : ~ Critical(s)
        BY <1>9 DEF RemoveUnlock, AllInv, LockInv, MutexOwner, Critical
  <2>3. Limbo = {cur[t]} /\ Limbo' = {}
        BY <1>t, <1>l, <1>9, <2>2 DEF RemoveUnlock, Limbo, Critical
  <2>4. /\ addr' = addr /\ next' = next
        /\ \A n \in Nodes : owners'[n] = (IF n = cur[t] THEN 0 ELSE owners[n])
        BY <1>t, <1>9, <2>1 DEF RemoveUnlock, Release, TypeOK
  <2> QED
      BY <2>1, <2>3, <2>4, RecsFrame DEF Undisturbed
<1> QED
    BY <1>2, <1>3, <1>4, <1>5, <1>6, <1>7, <1>8, <1>9 DEF CacheStep

\* Publishing adds the new record to those of its address.
LEMMA PublishRecs ==
    ASSUME AllInv, NEW t \in Threads, InsertPublish(t)
    PROVE  /\ cur[t] \in Nodes
           /\ \A a : Recs(a)' = IF a = arg[t][1] THEN Recs(a) \cup {cur[t]} ELSE Recs(a)
<1>l. /\ cpc \in [Threads -> {"ready"} \cup InsertPcs \cup RemovePcs \cup PrintPcs]
      /\ \A s \in Threads \ {t} : cpc'[s] = cpc[s] /\ cur'[s] = cur[s]
      BY LocalsFrame DEF CacheStep, AllInv, TableInv, CacheTypeOK
<1>1. /\ cur[t] \in Nodes /\ owners[cur[t]] > 0 /\ addr[cur[t]] = arg[t][1]
      /\ owners' = owners /\ addr' = addr
      BY DEF InsertPublish, AllInv, TableInv, LocalInv, poolVars
<1>2. \A s \in Threads \ {t} : ~ Critical(s)
      BY DEF InsertPublish, AllInv, LockInv, MutexOwner, Critical
<1>3. Limbo = {cur[t]} /\ Limbo' = {}
      BY <1>l, <1>2 DEF InsertPublish, Return, CGoto, Limbo, Critical
<1>4. ASSUME NEW a, NEW n
      PROVE  n \in Recs(a)' <=> n \in Recs(a) \/ (n = cur[t] /\ a = arg[t][1])
      BY <1>1, <1>3 DEF Recs
<1> QED
    BY <1>1, <1>4

\* Unlinking takes the record found from those of its address.
LEMMA UnlinkRecs ==
    ASSUME AllInv, NEW t \in Threads, RemoveUnlink(t)
    PROVE  /\ cur[t] \in Recs(arg[t][1])
           /\ \A a : Recs(a)' = IF a = arg[t][1] THEN Recs(a) \ {cur[t]} ELSE Recs(a)
<1>l. /\ cpc \in [Threads -> {"ready"} \cup InsertPcs \cup RemovePcs \cup PrintPcs]
      /\ \A s \in Threads \ {t} : cpc'[s] = cpc[s] /\ cur'[s] = cur[s]
      BY LocalsFrame DEF CacheStep, AllInv, TableInv, CacheTypeOK
<1>1. /\ cur[t] \in Kept(Hash(arg[t][1])) /\ addr[cur[t]] = arg[t][1]
      /\ owners' = owners /\ addr' = addr
      BY DEF RemoveUnlink, Relink, AllInv, TableInv, LocalInv, poolVars
<1>2. \A s \in Threads \ {t} : ~ Critical(s)
      BY DEF RemoveUnlink, AllInv, LockInv, MutexOwner, Critical
<1>3. Limbo = {} /\ Limbo' = {cur[t]}
      BY <1>l, <1>2 DEF RemoveUnlink, CGoto, Limbo, Critical
<1>4. cur[t] \in Recs(arg[t][1])
      BY <1>1, RecsInChain
<1>5. ASSUME NEW a, NEW n
      PROVE  n \in Recs(a)' <=> n \in Recs(a) /\ n # cur[t]
      BY <1>1, <1>3 DEF Recs
<1>6. \A a : a # arg[t][1] => cur[t] \notin Recs(a)
      BY <1>1 DEF Recs
<1> QED
    BY <1>4, <1>5, <1>6

-----------------------------------------------------------------------------
(* The invariant. *)

\* What a step of t does to the addresses in W leaves the others as they were,
\* and the operations of the other threads with them.
LEMMA OthersFrame ==
    ASSUME TableInv, AppInv, NEW t \in Threads, NEW W,
           \A s \in Threads \ {t} :
               cpc'[s] = cpc[s] /\ arg'[s] = arg[s] /\ cur'[s] = cur[s],
           \A s \in Threads \ {t} : Busy(s) => arg[s][1] \notin W,
           \A a \in Addrs \ W : Recs(a)' = Recs(a) /\ status'[a] = status[a],
           \A s \in Threads \ {t} : cpc[s] = "search" =>
               /\ \A b : Kept(b)' = Kept(b)
               /\ \A n \in Nodes : owners[n] > 0 => next'[n] = next[n]
    PROVE  /\ \A s \in Threads \ {t} : OpInv(s)'
           /\ \A a \in Addrs \ W : StatusInv(a)'
<1>1. ASSUME NEW s \in Threads \ {t} PROVE OpInv(s)'
  <2>1. CASE ~ Busy(s)
        BY <2>1 DEF Busy, OpInv, InsertPcs, RemovePcs
  <2>2. CASE Busy(s)
    <3>1. arg[s][1] \in Addrs \ W
          BY <2>2, ArgType DEF Busy, TableInv
    <3>2. Recs(arg[s][1])' = Recs(arg[s][1]) /\ status'[arg[s][1]] = status[arg[s][1]]
          BY <3>1
    <3>3. ASSUME cpc[s] = "search", NEW n \in Recs(arg[s][1]) PROVE Ahead(s, n)'
      <4>1. /\ Kept(Hash(arg[s][1]))' = Kept(Hash(arg[s][1]))
            /\ \A m \in Kept(Hash(arg[s][1])) : next'[m] = next[m]
            BY <3>3 DEF Kept
      <4>2. Ahead(s, n)
            BY <3>3 DEF AppInv, OpInv
      <4> QED
          BY <4>1, <4>2 DEF Ahead
    <3> QED
        BY <3>2, <3>3 DEF AppInv, OpInv
  <2> QED
      BY <2>1, <2>2
<1>2. ASSUME NEW a \in Addrs \ W PROVE StatusInv(a)'
      BY <1>2 DEF AppInv, StatusInv
<1> QED
    BY <1>1, <1>2

\* A remove always finds the record: neither the look without the lock nor the
\* search ends at NULL.
LEMMA RemoveFinds ==
    ASSUME AllInv, AppInv, NEW t \in Threads
    PROVE  /\ cpc[t] = "check" => alloc_table[Hash(arg[t][1])] # NULL
           /\ cpc[t] = "search" => cur[t] # NULL
<1>1. ASSUME cpc[t] = "check", alloc_table[Hash(arg[t][1])] = NULL PROVE FALSE
  <2>1. PICK n \in Nodes : Recs(arg[t][1]) = {n}
        BY <1>1 DEF AppInv, OpInv
  <2>2. Hash(arg[t][1]) \in Buckets
        BY <1>1, ArgType DEF AllInv, TableInv, RemovePcs
  <2>3. Linked(Hash(arg[t][1]), {})
        BY <1>1 DEF Linked
  <2>4. Kept(Hash(arg[t][1])) \subseteq {}
        BY <2>2, <2>3 DEF AllInv, TableInv, ChainShape
  <2> QED
      BY <2>1, <2>4, RecsInChain
<1>2. ASSUME cpc[t] = "search", cur[t] = NULL PROVE FALSE
  <2>1. PICK n \in Nodes : Recs(arg[t][1]) = {n}
        BY <1>2 DEF AppInv, OpInv
  <2>2. Ahead(t, n)
        BY <1>2, <2>1 DEF AppInv, OpInv
  <2>3. n \in {}
    <3>1. {} \in SUBSET Kept(Hash(arg[t][1])) /\ cur[t] \in {} \cup {NULL}
          BY <1>2
    <3> QED
        BY <2>2, <3>1 DEF Ahead
  <2> QED
      BY <2>3
<1> QED
    BY <1>1, <1>2

\* After a step of its own, a thread that works on an address has worked on it
\* before.
LEMMA OwnStep ==
    ASSUME TableInv, NEW t \in Threads, CacheStep(t)
    PROVE  ~ Busy(t)' \/ (Busy(t) /\ arg'[t] = arg[t])
<1> USE DEF CGoto, Return, Busy, InsertPcs, RemovePcs
<1>1. /\ cpc \in [Threads -> {"ready"} \cup InsertPcs \cup RemovePcs \cup PrintPcs]
      /\ arg \in [Threads -> Args]
      BY DEF TableInv, CacheTypeOK
<1>2. CASE InsertApply(t) \/ InsertFull(t) \/ InsertFill(t) \/ InsertLock(t)
      BY <1>1, <1>2 DEF InsertApply, tableVars, InsertFull, InsertFill, InsertLock
<1>3. CASE InsertLink(t) \/ InsertPublish(t)
      BY <1>1, <1>3 DEF InsertLink, InsertPublish
<1>4. CASE RemoveCheck(t) \/ RemoveLock(t) \/ RemoveSearch(t) \/ RemoveMissing(t)
      BY <1>1, <1>4 DEF RemoveCheck, RemoveLock, RemoveSearch, RemoveMissing
<1>5. CASE RemoveUnlink(t) \/ RemoveUnlock(t) \/ RemoveRecycle(t)
      BY <1>1, <1>5 DEF RemoveUnlink, RemoveUnlock, RemoveRecycle
<1>6. CASE \/ PrintOpenFails(t) \/ PrintLock(t) \/ PrintRecord(t)
           \/ PrintNextChain(t) \/ PrintUnlock(t) \/ PrintClose(t)
      BY <1>1, <1>6
      DEF PrintOpenFails, PrintLock, PrintRecord, PrintNextChain, PrintUnlock,
          PrintClose
<1> QED
    BY <1>2, <1>3, <1>4, <1>5, <1>6 DEF CacheStep

\* What is left to show of a step of t, an operation on address x, that leaves
\* the chains alone: t's own part.
LEMMA QuietOp ==
    ASSUME AllInv, AppInv, NEW t \in Threads, AppStep(t),
           NEW x \in Addrs, Busy(t), x = arg[t][1],
           ~ InsertPublish(t), ~ RemoveUnlink(t),
           Recs(x)' = Recs(x), \A b : Kept(b)' = Kept(b),
           \A n \in Nodes : owners[n] > 0 => next'[n] = next[n]
    PROVE  status' \in [Addrs -> Statuses] /\ OpInv(t)' /\ StatusInv(x)'
<1> USE DEF CGoto, Return, InsertPcs, RemovePcs, PrintPcs
<1>t. /\ TableInv /\ CacheStep(t)
      /\ cpc \in [Threads -> {"ready"} \cup InsertPcs \cup RemovePcs \cup PrintPcs]
      /\ cur \in [Threads -> Nodes \cup {NULL}]
      /\ arg \in [Threads -> Args]
      /\ status \in [Addrs -> Statuses]
      /\ OpInv(t) /\ StatusInv(x)
      BY DEF AllInv, TableInv, CacheTypeOK, AppInv, AppStep
<1>h. Hash(x) \in Buckets /\ Recs(x) \subseteq Kept(Hash(x))
      BY HashType, RecsInChain
<1>1. ASSUME \/ status' = [status EXCEPT ![x] = "unrecorded"]
             \/ status' = [status EXCEPT ![x] = "free"],
             ~ Busy(t)', Recs(x) = {}
      PROVE  status' \in [Addrs -> Statuses] /\ OpInv(t)' /\ StatusInv(x)'
      BY <1>t, <1>1 DEF OpInv, StatusInv, Busy, Statuses
<1>2. ASSUME cpc'[t] # "ready", OpInv(t)'
      PROVE  status' \in [Addrs -> Statuses] /\ OpInv(t)' /\ StatusInv(x)'
      BY <1>t, <1>2 DEF AppStep, StatusInv
<1>3. CASE InsertApply(t) \/ InsertFill(t) \/ InsertLock(t) \/ InsertLink(t)
  <2>1. cpc[t] \in InsertPcs /\ cpc'[t] \in InsertPcs /\ arg'[t] = arg[t]
        BY <1>t, <1>3 DEF InsertApply, tableVars, InsertFill, InsertLock, InsertLink
  <2>2. status' = status
        BY <2>1 DEF AppStep
  <2> QED
      BY <1>t, <1>2, <2>1, <2>2 DEF OpInv
<1>4. CASE InsertFull(t)
  <2>1. cpc[t] = "apply" /\ cpc'[t] = "ready"
        BY <1>t, <1>4 DEF InsertFull
  <2>2. Settled(t) = "unrecorded"
        BY <2>1 DEF Settled
  <2>3. status' = [status EXCEPT ![x] = "unrecorded"] /\ Recs(x) = {}
        BY <1>t, <2>1, <2>2 DEF AppStep, OpInv, StatusInv
  <2> QED
      BY <1>1, <2>1, <2>3 DEF Busy
<1>5. CASE RemoveCheck(t)
  <2>1. cpc[t] = "check" /\ cpc'[t] = "enter" /\ arg'[t] = arg[t]
        BY <1>t, <1>5, RemoveFinds DEF RemoveCheck
  <2>2. status' = status
        BY <2>1 DEF AppStep
  <2> QED
      BY <1>t, <1>2, <2>1, <2>2 DEF OpInv
<1>6. CASE RemoveLock(t)
  <2>1. /\ cpc[t] = "enter" /\ cpc'[t] = "search" /\ arg'[t] = arg[t]
        /\ cur'[t] = alloc_table[Hash(x)]
        BY <1>t, <1>6 DEF RemoveLock
  <2>2. status' = status
        BY <2>1 DEF AppStep
  <2>3. ASSUME NEW n \in Recs(x) PROVE Ahead(t, n)'
    <3> SUFFICES ASSUME NEW S \in SUBSET Kept(Hash(x)), cur'[t] \in S \cup {NULL},
                        \A m \in S : next'[m] \in S \cup {NULL}
                 PROVE  n \in S
        BY <2>1 DEF Ahead, Hash
    <3>1. S \in SUBSET Nodes /\ \A m \in S : next'[m] = next[m]
          BY DEF Kept
    <3>2. Linked(Hash(x), S)
          BY <2>1, <3>1 DEF Linked
    <3> QED
        BY <1>h, <1>t, <3>1, <3>2 DEF TableInv, ChainShape
  <2> QED
      BY <1>t, <1>2, <2>1, <2>2, <2>3 DEF OpInv
<1>7. CASE RemoveSearch(t)
  <2>1. /\ cpc[t] = "search" /\ cpc'[t] = "search" /\ arg'[t] = arg[t]
        /\ cur'[t] = next[cur[t]] /\ addr[cur[t]] # x /\ cur[t] \in Kept(Hash(x))
        BY <1>t, <1>7 DEF RemoveSearch, TableInv, LocalInv
  <2>2. status' = status
        BY <2>1 DEF AppStep
  <2>3. ASSUME NEW n \in Recs(x) PROVE Ahead(t, n)'
    <3> SUFFICES ASSUME NEW S \in SUBSET Kept(Hash(x)), cur'[t] \in S \cup {NULL},
                        \A m \in S : next'[m] \in S \cup {NULL}
                 PROVE  n \in S
        BY <2>1 DEF Ahead, Hash
    <3>1. \A m \in S : next'[m] = next[m]
          BY DEF Kept
    <3>2. /\ S \cup {cur[t]} \in SUBSET Kept(Hash(x))
          /\ \A m \in S \cup {cur[t]} : next[m] \in (S \cup {cur[t]}) \cup {NULL}
          BY <2>1, <3>1
    <3>3. Ahead(t, n)
          BY <1>t, <2>1 DEF OpInv
    <3>4. n \in S \cup {cur[t]}
          BY <3>2, <3>3 DEF Ahead
    <3> QED
        BY <2>1, <3>4 DEF Recs
  <2> QED
      BY <1>t, <1>2, <2>1, <2>2, <2>3 DEF OpInv
<1>8. CASE RemoveMissing(t)
      BY <1>8, RemoveFinds DEF RemoveMissing
<1>9. CASE RemoveUnlock(t)
  <2>1. cpc[t] = "leave" /\ cpc'[t] = "recycle" /\ arg'[t] = arg[t]
        BY <1>t, <1>9 DEF RemoveUnlock
  <2>2. status' = status
        BY <2>1 DEF AppStep
  <2> QED
      BY <1>t, <1>2, <2>1, <2>2 DEF OpInv
<1>10. CASE RemoveRecycle(t)
  <2>0. cpc[t] = "recycle" /\ Recs(x) = {}
        BY <1>t, <1>10 DEF RemoveRecycle, OpInv
  <2>1. CASE pc'[t] = "idle"
    <3>1. cpc'[t] = "ready"
          BY <1>t, <1>10, <2>1 DEF RemoveRecycle
    <3>2. Settled(t) = "free"
          BY <2>0 DEF Settled
    <3> QED
        BY <1>1, <2>0, <3>1, <3>2 DEF Busy, AppStep
  <2>2. CASE pc'[t] # "idle"
    <3>1. cpc'[t] = "recycle" /\ arg'[t] = arg[t]
          BY <1>t, <1>10, <2>0, <2>2 DEF RemoveRecycle
    <3>2. status' = status
          BY <3>1 DEF AppStep
    <3> QED
        BY <1>t, <1>2, <2>0, <3>1, <3>2 DEF OpInv
  <2> QED
      BY <2>1, <2>2
<1>11. ~ (\/ PrintOpenFails(t) \/ PrintLock(t) \/ PrintRecord(t)
          \/ PrintNextChain(t) \/ PrintUnlock(t) \/ PrintClose(t))
      BY DEF Busy, PrintOpenFails, PrintLock, PrintRecord, PrintNextChain,
             PrintUnlock,
             PrintClose
<1> QED
    BY <1>t, <1>3, <1>4, <1>5, <1>6, <1>7, <1>8, <1>9, <1>10, <1>11 DEF CacheStep

\* A step of an operation in progress.
LEMMA OpStep ==
    ASSUME AllInv, AppInv, NEW t \in Threads, AppStep(t)
    PROVE  AppInv'
<1> USE DEF CGoto, Return, InsertPcs, RemovePcs, PrintPcs
<1>t. /\ TableInv /\ CacheStep(t)
      /\ cpc \in [Threads -> {"ready"} \cup InsertPcs \cup RemovePcs \cup PrintPcs]
      /\ status \in [Addrs -> Statuses]
      BY DEF AllInv, TableInv, CacheTypeOK, AppInv, AppStep
<1>l. \A s \in Threads \ {t} : cpc'[s] = cpc[s] /\ arg'[s] = arg[s] /\ cur'[s] = cur[s]
      BY <1>t, LocalsFrame
<1>1. Alone'
  <2>1. ~ Busy(t)' \/ (Busy(t) /\ arg'[t] = arg[t])
        BY <1>t, OwnStep
  <2> QED
      BY <1>l, <2>1 DEF AppInv, Alone, Busy
<1>2. CASE ~ Busy(t)
  <2>1. Undisturbed
        BY <1>2, <1>t, StepUndisturbed DEF Busy, InsertPublish, RemoveUnlink
  <2>2. status' = status /\ ~ Busy(t)'
        BY <1>2, <1>t, OwnStep DEF AppStep, Busy
  <2>3. /\ \A s \in Threads \ {t} : OpInv(s)'
        /\ \A x \in Addrs \ {} : StatusInv(x)'
        BY <1>t, <1>l, <2>1, <2>2, OthersFrame DEF Undisturbed
  <2>4. OpInv(t)'
        BY <2>2 DEF OpInv, Busy
  <2> QED
      BY <1>t, <1>1, <2>2, <2>3, <2>4 DEF AppInv
<1>3. CASE Busy(t)
  <2>1. PICK x \in Addrs : x = arg[t][1]
        BY <1>3, <1>t, ArgType DEF Busy, TableInv
  <2>2. \A s \in Threads \ {t} : Busy(s) => arg[s][1] \notin {x}
        BY <1>3, <2>1 DEF AppInv, Alone
  <2>3. \A y \in Addrs \ {x} : status'[y] = status[y]
        BY <1>t, <2>1 DEF AppStep
  <2>4. CASE ~ InsertPublish(t) /\ ~ RemoveUnlink(t)
    <3>1. Undisturbed
          BY <1>t, <2>4, StepUndisturbed
    <3>2. /\ \A s \in Threads \ {t} : OpInv(s)'
          /\ \A y \in Addrs \ {x} : StatusInv(y)'
          BY <1>t, <1>l, <2>2, <2>3, <3>1, OthersFrame DEF Undisturbed
    <3>3. status' \in [Addrs -> Statuses] /\ OpInv(t)' /\ StatusInv(x)'
          BY <1>3, <2>1, <2>4, <3>1, QuietOp DEF Undisturbed
    <3> QED
        BY <1>1, <3>2, <3>3 DEF AppInv
  <2>5. CASE InsertPublish(t) \/ RemoveUnlink(t)
    <3>1. \A s \in Threads \ {t} : cpc[s] # "search"
          BY <2>5
          DEF InsertPublish, RemoveUnlink, AllInv, LockInv, MutexOwner, Critical
    <3>2. \A y \in Addrs \ {x} : Recs(y)' = Recs(y)
          BY <2>1, <2>5, PublishRecs, UnlinkRecs
    <3>3. /\ \A s \in Threads \ {t} : OpInv(s)'
          /\ \A y \in Addrs \ {x} : StatusInv(y)'
          BY <1>t, <1>l, <2>2, <2>3, <3>1, <3>2, OthersFrame
    <3>4. status' \in [Addrs -> Statuses] /\ OpInv(t)' /\ StatusInv(x)'
      <4>o. OpInv(t) /\ StatusInv(x)
            BY DEF AppInv
      <4>1. CASE InsertPublish(t)
        <5>1. cpc[t] = "publish" /\ cpc'[t] = "ready"
              BY <1>t, <4>1 DEF InsertPublish
        <5>2. Settled(t) = "live"
              BY <5>1 DEF Settled
        <5>3. status' = [status EXCEPT ![x] = "live"] /\ Recs(x) = {}
              BY <4>o, <2>1, <5>1, <5>2 DEF AppStep, OpInv, StatusInv
        <5>4. Recs(x)' = {cur[t]} /\ cur[t] \in Nodes
              BY <2>1, <4>1, <5>3, PublishRecs
        <5> QED
            BY <1>t, <5>1, <5>3, <5>4 DEF OpInv, StatusInv, Statuses
      <4>2. CASE RemoveUnlink(t)
        <5>1. cpc[t] = "search" /\ cpc'[t] = "leave" /\ arg' = arg
              BY <1>t, <4>2 DEF RemoveUnlink
        <5>2. status' = status /\ status[x] = "removing"
              BY <4>o, <2>1, <5>1 DEF AppStep, OpInv
        <5>3. Recs(x)' = {}
          <6>1. PICK n \in Nodes : Recs(x) = {n}
                BY <4>o, <2>1, <5>1 DEF OpInv
          <6> QED
              BY <2>1, <4>2, <6>1, UnlinkRecs
        <5> QED
            BY <1>t, <2>1, <5>1, <5>2, <5>3 DEF OpInv, StatusInv
      <4> QED
          BY <2>5, <4>1, <4>2
    <3> QED
        BY <1>1, <3>3, <3>4 DEF AppInv
  <2> QED
      BY <2>4, <2>5
<1> QED
    BY <1>2, <1>3

\* A call that begins: malloc returns an address nobody has, or the application
\* frees a live one.
LEMMA OpCall ==
    ASSUME AllInv, AppInv, NEW t \in Threads, AppAllocate(t) \/ AppFree(t)
    PROVE  AppInv'
<1> USE DEF CGoto, InsertPcs, RemovePcs, PrintPcs
<1>t. /\ TableInv
      /\ cpc \in [Threads -> {"ready"} \cup InsertPcs \cup RemovePcs \cup PrintPcs]
      /\ arg \in [Threads -> Args]
      /\ status \in [Addrs -> Statuses]
      BY DEF AllInv, TableInv, CacheTypeOK, AppInv
<1>1. PICK x \in Addrs :
          \/ /\ status[x] = "free" /\ \E i \in Infos : InsertCall(t, x, i)
             /\ status' = [status EXCEPT ![x] = "inserting"]
          \/ /\ status[x] = "live" /\ RemoveCall(t, x)
             /\ status' = [status EXCEPT ![x] = "removing"]
      BY DEF AppAllocate, AppFree
<1>2. \A s \in Threads \ {t} : cpc'[s] = cpc[s] /\ arg'[s] = arg[s] /\ cur'[s] = cur[s]
      BY <1>t, <1>1, LocalsFrame
<1>3. Undisturbed
      BY <1>t, <1>1, StepUndisturbed
      DEF InsertCall, RemoveCall, InsertPublish, RemoveUnlink
<1>4. \A s \in Threads \ {t} : Busy(s) => arg[s][1] \notin {x}
      BY <1>1 DEF AppInv, OpInv, Busy
<1>5. \A y \in Addrs \ {x} : status'[y] = status[y]
      BY <1>t, <1>1
<1>6. /\ \A s \in Threads \ {t} : OpInv(s)'
      /\ \A y \in Addrs \ {x} : StatusInv(y)'
      BY <1>t, <1>2, <1>3, <1>4, <1>5, OthersFrame DEF Undisturbed
<1>7. arg'[t][1] = x /\ cpc'[t] \in {"apply", "check"}
      BY <1>t, <1>1 DEF InsertCall, RemoveCall
<1>8. Alone'
      BY <1>2, <1>4, <1>7 DEF AppInv, Alone, Busy
<1>9. Recs(x)' = Recs(x) /\ StatusInv(x)
      BY <1>3 DEF Undisturbed, AppInv
<1>10. status' \in [Addrs -> Statuses] /\ OpInv(t)' /\ StatusInv(x)'
  <2>1. ASSUME NEW i \in Infos, status[x] = "free", InsertCall(t, x, i),
               status' = [status EXCEPT ![x] = "inserting"]
        PROVE  status' \in [Addrs -> Statuses] /\ OpInv(t)' /\ StatusInv(x)'
    <3>1. cpc'[t] = "apply"
          BY <1>t, <2>1 DEF InsertCall
    <3> QED
        BY <1>t, <1>7, <1>9, <2>1, <3>1 DEF OpInv, StatusInv, Statuses
  <2>2. ASSUME status[x] = "live", RemoveCall(t, x),
               status' = [status EXCEPT ![x] = "removing"]
        PROVE  status' \in [Addrs -> Statuses] /\ OpInv(t)' /\ StatusInv(x)'
    <3>1. cpc'[t] = "check"
          BY <1>t, <2>2 DEF RemoveCall
    <3> QED
        BY <1>t, <1>7, <1>9, <2>2, <3>1 DEF OpInv, StatusInv, Statuses
  <2> QED
      BY <1>1, <2>1, <2>2
<1> QED
    BY <1>6, <1>8, <1>10 DEF AppInv

\* Every step of the application and the cache keeps the records exact.
LEMMA AppInvNext == AllInv /\ AppInv /\ [AppNext]_appVars => AppInv'
<1> SUFFICES ASSUME AllInv, AppInv, [AppNext]_appVars PROVE AppInv'
    OBVIOUS
<1>f. ASSUME UNCHANGED vars
      PROVE  /\ \A a : Recs(a)' = Recs(a)
             /\ \A s \in Threads : /\ Busy(s)' <=> Busy(s)
                                   /\ \A n : Ahead(s, n)' <=> Ahead(s, n)
             /\ Alone' <=> Alone
             /\ cpc' = cpc /\ arg' = arg
  <2> USE <1>f DEF vars, poolVars, tableVars
  <2>1. Limbo' = Limbo
        BY DEF Limbo
  <2>2. (\A a : Recs(a)' = Recs(a)) /\ (\A b : Kept(b)' = Kept(b))
        BY <2>1, RecsFrame
  <2> QED
      BY <2>2 DEF Busy, Ahead, Alone, Hash
<1>1. ASSUME NEW t \in Threads, AppAllocate(t) \/ AppFree(t) PROVE AppInv'
      BY <1>1, OpCall
<1>2. ASSUME NEW t \in Threads, AppStep(t) PROVE AppInv'
      BY <1>2, OpStep
<1>3. ASSUME NEW t \in Threads, AppPrint(t) PROVE AppInv'
  <2>t. /\ TableInv
        /\ cpc \in [Threads -> {"ready"} \cup InsertPcs \cup RemovePcs \cup PrintPcs]
        BY DEF AllInv, TableInv, CacheTypeOK
  <2>1. PrintCall(t) /\ status' = status
        BY <1>3 DEF AppPrint
  <2>2. \A s \in Threads \ {t} : cpc'[s] = cpc[s] /\ arg'[s] = arg[s] /\ cur'[s] = cur[s]
        BY <2>t, <2>1, LocalsFrame
  <2>3. Undisturbed
        BY <2>1, StepUndisturbed DEF PrintCall, InsertPublish, RemoveUnlink
  <2>4. cpc'[t] = "open"
        BY <2>t, <2>1 DEF PrintCall, CGoto
  <2>5. ~ Busy(t) /\ ~ Busy(t)'
        BY <2>1, <2>4 DEF PrintCall, Busy, InsertPcs, RemovePcs
  <2>6. /\ \A s \in Threads \ {t} : OpInv(s)'
        /\ \A x \in Addrs \ {} : StatusInv(x)'
        BY <2>t, <2>1, <2>2, <2>3, OthersFrame DEF Undisturbed
  <2>7. OpInv(t)'
        BY <2>4 DEF OpInv, InsertPcs, RemovePcs
  <2>8. Alone'
        BY <2>2, <2>5 DEF AppInv, Alone, Busy
  <2> QED
      BY <2>1, <2>6, <2>7, <2>8 DEF AppInv
<1>4. ASSUME NEW a \in Addrs, AppFreeUnrecorded(a) PROVE AppInv'
  <2>1. /\ status[a] = "unrecorded" /\ status' = [status EXCEPT ![a] = "free"]
        /\ UNCHANGED vars
        BY <1>4 DEF AppFreeUnrecorded
  <2>2. \A s \in Threads : Busy(s) => arg[s][1] \in Addrs /\ arg[s][1] # a
        BY <2>1, ArgType DEF AppInv, OpInv, Busy, AllInv, TableInv
  <2>3. ASSUME NEW s \in Threads PROVE OpInv(s)'
        BY <1>f, <2>1, <2>2 DEF AppInv, OpInv, Busy, InsertPcs, RemovePcs
  <2>4. ASSUME NEW x \in Addrs PROVE StatusInv(x)'
        BY <1>f, <2>1 DEF AppInv, StatusInv
  <2>5. status' \in [Addrs -> Statuses]
        BY <2>1 DEF AppInv, Statuses
  <2> QED
      BY <1>f, <2>1, <2>3, <2>4, <2>5 DEF AppInv
<1>5. ASSUME UNCHANGED appVars PROVE AppInv'
      BY <1>f, <1>5 DEF appVars, AppInv, OpInv, StatusInv
<1> QED
    BY <1>1, <1>2, <1>3, <1>4, <1>5 DEF AppNext

\* Before the first allocation every address is free and has no record.
LEMMA AppInvInit == AppInit => AppInv
<1> SUFFICES ASSUME AppInit PROVE AppInv
    OBVIOUS
<1>1. \A a : Recs(a) = {}
      BY DEF AppInit, CacheInit, PoolInit, Recs
<1> QED
    BY <1>1 DEF AppInit, CacheInit, AppInv, Alone, Busy, OpInv, StatusInv, Statuses,
                InsertPcs, RemovePcs

\* The report is exact when one thread applies: every live allocation the cache
\* did not refuse has exactly one record in the table that print() walks, and
\* no freed address has one.  So the ABA of two appliers, which the run
\* TrackedAppTwoAppliers exhibits, is the only way MemoryCache loses or
\* duplicates a record of an application that frees what it has allocated.
THEOREM AppReportExact == OneApplier => (AppSpec => []ReportExact)
<1> SUFFICES ASSUME OneApplier PROVE AppSpec => []ReportExact
    OBVIOUS
<1>1. AppSpec => []AllInv
      BY AppRefines, CacheInvariant, PTL
<1>2. AppSpec => []AppInv
      BY <1>1, AppInvInit, AppInvNext, PTL DEF AppSpec
<1>3. ASSUME AllInv, AppInv PROVE ReportExact
  <2>1. \A a \in Addrs : Recorded(a) = Recs(a)
        BY <1>3, WalkIsKept, HashType, RecsInChain DEF AllInv, Recorded
  <2>2. \A n : Cardinality({n}) = 1
        BY FS_Singleton
  <2> QED
      BY <1>3, <2>1, <2>2 DEF AppInv, StatusInv, ReportExact
<1> QED
    BY <1>1, <1>2, <1>3, PTL
=============================================================================
