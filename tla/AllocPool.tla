------------------------------ MODULE AllocPool ------------------------------
(***************************************************************************)
(* The lock-free pool of AllocNode records (AllocPool.hpp): a bump index   *)
(* mIndex over the preallocated array mCache, and a Treiber stack mStack   *)
(* of recycled records, linked through AllocNode::next.                    *)
(*                                                                         *)
(* Every shared-memory access of apply() and recycle() is one step: the    *)
(* evaluation of p->next on line 43 and the compare-exchange that uses it  *)
(* are two.  compare_exchange_weak may fail spuriously, so its failing     *)
(* branch has no guard.                                                    *)
(*                                                                         *)
(* The client is MemoryCache: a record returned by apply() is linked into  *)
(* a hash chain THROUGH THE SAME FIELD next, and rewritten there until it  *)
(* is unlinked and given to recycle().  Here the client is any such        *)
(* client: it may write next of every record it owns.                      *)
(***************************************************************************)
EXTENDS Integers, FiniteSets

CONSTANTS
    Threads,     \* threads whose proxies use the cache
    Allocators,  \* those that call apply(); every thread may call recycle()
    mCount,      \* number of records (ALLOC_CACHE_SIZE)
    MaxOwners,   \* bound on how often one record may be handed out at a time
    NULL,        \* nullptr
    UNINIT       \* content of malloc()ed memory nobody has written

ASSUME ThreadsAssumption == Allocators \subseteq Threads
ASSUME CountAssumption   == mCount \in Nat
ASSUME OwnersAssumption  == MaxOwners \in Nat \ {0}

Nodes == 0 .. mCount - 1

ASSUME NullAssumption == NULL \notin Int /\ UNINIT \notin Int /\ NULL # UNINIT

VARIABLES
    mIndex,  \* records mCache[0 .. mIndex-1] have been handed out once
    mStack,  \* top of the stack of recycled records
    next,    \* AllocNode::next of every record
    owners,  \* owners[n]: how many client structures hold record n
    pc,      \* where each thread is inside apply() or recycle()
    p,       \* local p: the record examined, obtained or being recycled
    nx,      \* value of p->next passed to the compare-exchange on line 43
    ii       \* local ii of apply()

locals   == <<pc, p, nx, ii>>
poolVars == <<mIndex, mStack, next, owners, locals>>

\* Threads that own p[t] without having stored it anywhere.
InHand(t, n) == p[t] = n /\ pc[t] \in {"applied", "recycle", "push"}

Goto(t, label) == pc' = [pc EXCEPT ![t] = label]

\* Mutant: reset() does not clear mStack.
PoolInitNoReset ==
    /\ mIndex = 0
    /\ mStack \in Nodes
    /\ next   = [n \in Nodes |-> UNINIT]
    /\ owners = [n \in Nodes |-> 0]
    /\ pc = [t \in Threads |-> "idle"]
    /\ p  = [t \in Threads |-> NULL]
    /\ nx = [t \in Threads |-> NULL]
    /\ ii = [t \in Threads |-> 0]

PoolInit ==
    /\ mIndex = 0
    /\ mStack = NULL
    /\ next   = [n \in Nodes |-> UNINIT]
    /\ owners = [n \in Nodes |-> 0]
    /\ pc = [t \in Threads |-> "idle"]
    /\ p  = [t \in Threads |-> NULL]
    /\ nx = [t \in Threads |-> NULL]
    /\ ii = [t \in Threads |-> 0]

-----------------------------------------------------------------------------
(* apply() *)

\* The outcome of reading mStack: a record to pop, or fall through to mIndex.
Examine(t) ==
    /\ p' = [p EXCEPT ![t] = mStack]
    /\ Goto(t, IF mStack = NULL THEN "index" ELSE "next")

ApplyLoad(t) ==
    /\ t \in Allocators
    /\ pc[t] = "idle"
    /\ Examine(t)
    /\ UNCHANGED <<mIndex, mStack, next, owners, nx, ii>>

ApplyNext(t) ==
    /\ pc[t] = "next"
    /\ nx' = [nx EXCEPT ![t] = next[p[t]]]
    /\ Goto(t, "cas")
    /\ UNCHANGED <<mIndex, mStack, next, owners, p, ii>>

\* Mutant: the pop is a plain store, not a compare-exchange.
ApplyPopStore(t) ==
    /\ pc[t] = "cas"
    /\ mStack' = nx[t]
    /\ Goto(t, "applied")
    /\ nx' = [nx EXCEPT ![t] = NULL]
    /\ UNCHANGED <<mIndex, next, owners, p, ii>>

\* The compare-exchange on line 43 succeeds: p is the caller's.
ApplyPop(t) ==
    /\ pc[t] = "cas"
    /\ mStack = p[t]
    /\ mStack' = nx[t]
    /\ Goto(t, "applied")
    /\ nx' = [nx EXCEPT ![t] = NULL]
    /\ UNCHANGED <<mIndex, next, owners, p, ii>>

\* It fails, perhaps spuriously, and rewrites p with the value it found.
ApplyRetry(t) ==
    /\ pc[t] = "cas"
    /\ Examine(t)
    /\ nx' = [nx EXCEPT ![t] = NULL]
    /\ UNCHANGED <<mIndex, mStack, next, owners, ii>>

\* Mutants: the bound of the array is off by one, upwards and downwards.
TestIndexPastEnd(t, i) ==
    \/ i <= mCount /\ Goto(t, "fresh")   /\ ii' = [ii EXCEPT ![t] = i]
    \/ i >  mCount /\ Goto(t, "applied") /\ ii' = [ii EXCEPT ![t] = 0]
TestIndexShort(t, i) ==
    \/ i <  mCount - 1 /\ Goto(t, "fresh")   /\ ii' = [ii EXCEPT ![t] = i]
    \/ i >= mCount - 1 /\ Goto(t, "applied") /\ ii' = [ii EXCEPT ![t] = 0]

\* The loop condition on line 49.  At the limit apply() returns nullptr.
TestIndex(t, i) ==
    \/ i <  mCount /\ Goto(t, "fresh")   /\ ii' = [ii EXCEPT ![t] = i]
    \/ i >= mCount /\ Goto(t, "applied") /\ ii' = [ii EXCEPT ![t] = 0]

IndexLoad(t) ==
    /\ pc[t] = "index"
    /\ TestIndex(t, mIndex)
    /\ UNCHANGED <<mIndex, mStack, next, owners, p, nx>>

IndexTake(t) ==
    /\ pc[t] = "fresh"
    /\ mIndex = ii[t]
    /\ mIndex' = ii[t] + 1
    /\ p'  = [p EXCEPT ![t] = ii[t]]
    /\ ii' = [ii EXCEPT ![t] = 0]
    /\ Goto(t, "applied")
    /\ UNCHANGED <<mStack, next, owners, nx>>

IndexRetry(t) ==
    /\ pc[t] = "fresh"
    /\ TestIndex(t, mIndex)
    /\ UNCHANGED <<mIndex, mStack, next, owners, p, nx>>

-----------------------------------------------------------------------------
(* recycle(p), entered with p in hand *)

RecycleLoad(t) ==
    /\ pc[t] = "recycle"
    /\ next' = [next EXCEPT ![p[t]] = mStack]
    /\ Goto(t, "push")
    /\ UNCHANGED <<mIndex, mStack, owners, p, nx, ii>>

\* Mutant: the push is a plain store.
RecyclePushStore(t) ==
    /\ pc[t] = "push"
    /\ mStack' = p[t]
    /\ Goto(t, "idle")
    /\ p' = [p EXCEPT ![t] = NULL]
    /\ UNCHANGED <<mIndex, next, owners, nx, ii>>

RecyclePush(t) ==
    /\ pc[t] = "push"
    /\ mStack = next[p[t]]
    /\ mStack' = p[t]
    /\ Goto(t, "idle")
    /\ p' = [p EXCEPT ![t] = NULL]
    /\ UNCHANGED <<mIndex, next, owners, nx, ii>>

\* Mutant: the failing compare-exchange works on a copy of p->next.
RecycleRetryStale(t) ==
    /\ pc[t] = "push"
    /\ UNCHANGED poolVars

\* The failing compare-exchange stores the value it found in p->next itself.
RecycleRetry(t) ==
    /\ pc[t] = "push"
    /\ next' = [next EXCEPT ![p[t]] = mStack]
    /\ UNCHANGED <<mIndex, mStack, owners, locals>>

-----------------------------------------------------------------------------
(* The client *)

\* What the client may store in a next field: a record it owns (the head of
\* a hash chain), or a copy of the next field of one (what unlinking does).
Linkable ==
    LET stored == {n \in Nodes : owners[n] > 0}
    IN  stored \cup {next[n] : n \in stored} \cup {NULL}

\* The client stores the record apply() returned, with p->next = v.
Keep(t, v) ==
    /\ pc[t] = "applied"
    /\ p[t] # NULL
    /\ owners[p[t]] < MaxOwners
    /\ owners' = [owners EXCEPT ![p[t]] = @ + 1]
    /\ next' = [next EXCEPT ![p[t]] = v]
    /\ Goto(t, "idle")
    /\ p' = [p EXCEPT ![t] = NULL]
    /\ UNCHANGED <<mIndex, mStack, nx, ii>>

\* apply() returned nullptr: the client gives up.
Refused(t) ==
    /\ pc[t] = "applied"
    /\ p[t] = NULL
    /\ Goto(t, "idle")
    /\ UNCHANGED <<mIndex, mStack, next, owners, p, nx, ii>>

\* The client rewrites next of a record it owns.
Relink(n, v) ==
    /\ owners[n] > 0
    /\ next' = [next EXCEPT ![n] = v]
    /\ UNCHANGED <<mIndex, mStack, owners, locals>>

\* The client gives up a record and calls recycle() with it.
Release(t, n) ==
    /\ pc[t] = "idle"
    /\ owners[n] > 0
    /\ owners' = [owners EXCEPT ![n] = @ - 1]
    /\ p' = [p EXCEPT ![t] = n]
    /\ Goto(t, "recycle")
    /\ UNCHANGED <<mIndex, mStack, next, nx, ii>>

-----------------------------------------------------------------------------
\* A step of t inside apply() or recycle(), once the call has begun.
PoolStep(t) ==
    \/ ApplyNext(t) \/ ApplyPop(t) \/ ApplyRetry(t)
    \/ IndexLoad(t) \/ IndexTake(t) \/ IndexRetry(t)
    \/ RecycleLoad(t) \/ RecyclePush(t) \/ RecycleRetry(t)

PoolNext ==
    \/ \E t \in Threads :
          \/ ApplyLoad(t) \/ PoolStep(t) \/ Refused(t)
          \/ \E v \in Linkable : Keep(t, v)
          \/ \E n \in Nodes : Release(t, n)
    \/ \E n \in Nodes, v \in Linkable : Relink(n, v)

PoolSpec == PoolInit /\ [][PoolNext]_poolVars

(* Every thread keeps running, and no compare-exchange that is possible     *)
(* again and again fails for ever: the hardware does not fail spuriously    *)
(* without end, nor does the scheduler favour the same rival each time.     *)
Fairness ==
    \A t \in Threads :
        /\ WF_poolVars(PoolStep(t) \/ Refused(t) \/ \E v \in Linkable : Keep(t, v))
        /\ SF_poolVars(ApplyPop(t) \/ IndexTake(t) \/ RecyclePush(t))

FairPoolSpec == PoolSpec /\ Fairness

-----------------------------------------------------------------------------
(* Properties *)

\* Records that belong to a client or to a call in progress.
Out == {n \in Nodes : owners[n] > 0 \/ \E t \in Threads : InHand(t, n)}

\* The records a traversal of the stack meets: the least set that holds
\* mStack and is closed under next.
Chained(S) ==
    /\ mStack \in S \cup {NULL}
    /\ \A n \in S : next[n] \in S \cup {NULL}
FreeStack == {n \in Nodes : \A S \in SUBSET Nodes : Chained(S) => n \in S}

\* Every variable has its type.  In particular mIndex never passes mCount and
\* no pointer leaves the array, whatever the number of concurrent appliers.
TypeOK ==
    /\ mIndex \in 0 .. mCount
    /\ mStack \in Nodes \cup {NULL}
    /\ next   \in [Nodes -> Nodes \cup {NULL, UNINIT}]
    /\ owners \in [Nodes -> Nat]
    /\ pc \in [Threads -> {"idle", "next", "cas", "index", "fresh",
                           "applied", "recycle", "push"}]
    /\ p  \in [Threads -> Nodes \cup {NULL}]
    /\ nx \in [Threads -> Nodes \cup {NULL}]
    /\ ii \in [Threads -> 0 .. mCount]

\* apply() dereferences only records whose next has been written: no record
\* gets on the stack, or into a thread's p, while its next is what malloc()
\* left there (the constructor does not clear mCache).  Holds for any number
\* of appliers.
NoUninitRead ==
    /\ mStack # NULL => next[mStack] # UNINIT
    /\ \A t \in Threads : pc[t] \in {"next", "cas"} => next[p[t]] # UNINIT

\* apply() returns nullptr only when the array is used up: every one of the
\* mCount records has been handed out at least once, and none twice by mIndex.
RefusedOnlyAtLimit ==
    \A t \in Threads : pc[t] = "applied" /\ p[t] = NULL => mIndex = mCount

\* A record has one owner: two callers of apply() never get the same record,
\* a record in a client's structure is not given out again, and what is on
\* the stack belongs to nobody.
Exclusive ==
    /\ \A n \in Nodes : owners[n] <= 1
    /\ \A t \in Threads, n \in Nodes : InHand(t, n) => owners[n] = 0
    /\ \A s, t \in Threads, n \in Nodes : InHand(s, n) /\ InHand(t, n) => s = t
    /\ Out \cap FreeStack = {}

\* No record is lost: each one handed out so far belongs to somebody or can
\* be popped again, so the pool never shrinks below mCount records.
Conserved == 0 .. mIndex - 1 = Out \cup FreeStack

\* Every apply() and every recycle() returns.
CallsReturn == \A t \in Threads : pc[t] # "idle" ~> pc[t] = "idle"
=============================================================================
