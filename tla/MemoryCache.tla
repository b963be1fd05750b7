----------------------------- MODULE MemoryCache -----------------------------
(***************************************************************************)
(* MemoryCache (MemoryCache.cpp): a hash table of AllocNode chains under   *)
(* alloc_mutex, over the lock-free AllocPool.  insert takes its record     *)
(* from the pool before it locks; remove looks at the head of the chain    *)
(* before it locks and returns the record to the pool after it unlocks;    *)
(* print holds the lock for the whole traversal.                           *)
(*                                                                         *)
(* Chains and the pool's stack share AllocNode::next.  Every step here is  *)
(* a step of AllocPool, of its client, or leaves the pool alone: the       *)
(* specification implies PoolSpec.                                         *)
(***************************************************************************)
EXTENDS AllocPool, Sequences

CONSTANTS
    Addrs,             \* addresses the proxies pass (uintptr_t)
    Infos,             \* what insert records with an address: size and trace
    Printers,          \* threads that call print()
    ADDR_HASH_OFFSET,  \* 4 on 32 bit, 6 on 64 bit
    ALLOC_INDEX_SIZE   \* number of chains

ASSUME TableAssumption ==
    /\ Addrs \subseteq Nat
    /\ Printers \subseteq Threads /\ NULL \notin Threads
    /\ ADDR_HASH_OFFSET \in Nat
    /\ ALLOC_INDEX_SIZE \in Nat \ {0}

Buckets == 0 .. ALLOC_INDEX_SIZE - 1

VARIABLES
    alloc_table,  \* heads of the chains
    addr,         \* AllocNode::addr
    info,         \* AllocNode::size and ::trace
    alloc_mutex,  \* its owner, or NULL
    cpc,          \* where each thread is inside insert, remove or print
    arg,          \* the address (and what is recorded with it) of the call
    prev,         \* remove_alloc's p: the record before cur
    cur,          \* the record to link, compared, unlinked or printed
    out           \* what print has written to its file: <<address, info>> pairs

tableVars == <<alloc_table, addr, info, alloc_mutex, cpc, arg, prev, cur, out>>
vars == <<poolVars, tableVars>>

Hash(a) == (a \div 2 ^ ADDR_HASH_OFFSET) % ALLOC_INDEX_SIZE

\* Mutant: the loop in reset() stops one chain early.
CacheInitShort ==
    /\ PoolInit
    /\ alloc_table = [b \in Buckets |-> IF b = ALLOC_INDEX_SIZE - 1 THEN UNINIT ELSE NULL]
    /\ addr = [n \in Nodes |-> UNINIT]
    /\ info = [n \in Nodes |-> UNINIT]
    /\ alloc_mutex = NULL
    /\ cpc  = [t \in Threads |-> "ready"]
    /\ arg  = [t \in Threads |-> NULL]
    /\ prev = [t \in Threads |-> NULL]
    /\ cur  = [t \in Threads |-> NULL]
    /\ out  = [t \in Threads |-> <<>>]

CacheInit ==
    /\ PoolInit
    /\ alloc_table = [b \in Buckets |-> NULL]
    /\ addr = [n \in Nodes |-> UNINIT]
    /\ info = [n \in Nodes |-> UNINIT]
    /\ alloc_mutex = NULL
    /\ cpc  = [t \in Threads |-> "ready"]
    /\ arg  = [t \in Threads |-> NULL]
    /\ prev = [t \in Threads |-> NULL]
    /\ cur  = [t \in Threads |-> NULL]
    /\ out  = [t \in Threads |-> <<>>]

CGoto(t, label) == cpc' = [cpc EXCEPT ![t] = label]

\* The call returns: its locals are gone.
Return(t) ==
    /\ CGoto(t, "ready")
    /\ arg'  = [arg  EXCEPT ![t] = NULL]
    /\ prev' = [prev EXCEPT ![t] = NULL]
    /\ cur'  = [cur  EXCEPT ![t] = NULL]

Lock(t)   == alloc_mutex = NULL /\ alloc_mutex' = t
Unlock(t) == alloc_mutex' = NULL

-----------------------------------------------------------------------------
(* insert(address, size, backtrace) *)

InsertCall(t, a, i) ==
    /\ t \in Allocators
    /\ cpc[t] = "ready"
    /\ arg' = [arg EXCEPT ![t] = <<a, i>>]
    /\ CGoto(t, "apply")
    /\ UNCHANGED <<poolVars, alloc_table, addr, info, alloc_mutex, prev, cur, out>>

InsertApply(t) ==
    /\ cpc[t] = "apply"
    /\ ApplyLoad(t) \/ PoolStep(t)
    /\ UNCHANGED tableVars

\* "Alloc cache is full": the allocation goes unrecorded.
InsertFull(t) ==
    /\ cpc[t] = "apply"
    /\ Refused(t)
    /\ Return(t)
    /\ UNCHANGED <<alloc_table, addr, info, alloc_mutex, out>>

InsertFill(t) ==
    /\ cpc[t] = "apply"
    /\ pc[t] = "applied" /\ p[t] # NULL
    /\ addr' = [addr EXCEPT ![p[t]] = arg[t][1]]
    /\ info' = [info EXCEPT ![p[t]] = arg[t][2]]
    /\ CGoto(t, "lock")
    /\ UNCHANGED <<poolVars, alloc_table, alloc_mutex, arg, prev, cur, out>>

InsertLock(t) ==
    /\ cpc[t] = "lock"
    /\ Lock(t)
    /\ CGoto(t, "link")
    /\ UNCHANGED <<poolVars, alloc_table, addr, info, arg, prev, cur, out>>

\* Mutant: the new record does not point to the rest of its chain.
InsertLinkDropsChain(t) ==
    /\ cpc[t] = "link"
    /\ Keep(t, NULL)
    /\ cur' = [cur EXCEPT ![t] = p[t]]
    /\ CGoto(t, "publish")
    /\ UNCHANGED <<alloc_table, addr, info, alloc_mutex, arg, prev, out>>

InsertLink(t) ==
    /\ cpc[t] = "link"
    /\ Keep(t, alloc_table[Hash(arg[t][1])])
    /\ cur' = [cur EXCEPT ![t] = p[t]]
    /\ CGoto(t, "publish")
    /\ UNCHANGED <<alloc_table, addr, info, alloc_mutex, arg, prev, out>>

InsertPublish(t) ==
    /\ cpc[t] = "publish"
    /\ alloc_table' = [alloc_table EXCEPT ![Hash(arg[t][1])] = cur[t]]
    /\ Unlock(t)
    /\ Return(t)
    /\ UNCHANGED <<poolVars, addr, info, out>>

-----------------------------------------------------------------------------
(* remove(address), with remove_alloc inlined *)

RemoveCall(t, a) ==
    /\ cpc[t] = "ready"
    /\ arg' = [arg EXCEPT ![t] = <<a>>]
    /\ CGoto(t, "check")
    /\ UNCHANGED <<poolVars, alloc_table, addr, info, alloc_mutex, prev, cur, out>>

\* Mutant: the look without the lock also gives up when the head is another
\* address's record.
RemoveCheckHead(t) ==
    /\ cpc[t] = "check"
    /\ LET head == alloc_table[Hash(arg[t][1])] IN
       IF head = NULL \/ (head # NULL /\ addr[head] # arg[t][1])
       THEN Return(t)
       ELSE CGoto(t, "enter") /\ UNCHANGED <<arg, prev, cur>>
    /\ UNCHANGED <<poolVars, alloc_table, addr, info, alloc_mutex, out>>

\* The look at the chain's head without the lock.
RemoveCheck(t) ==
    /\ cpc[t] = "check"
    /\ IF alloc_table[Hash(arg[t][1])] = NULL
       THEN Return(t)
       ELSE CGoto(t, "enter") /\ UNCHANGED <<arg, prev, cur>>
    /\ UNCHANGED <<poolVars, alloc_table, addr, info, alloc_mutex, out>>

\* Mutant: remove does not lock.
RemoveLockNot(t) ==
    /\ cpc[t] = "enter"
    /\ cur' = [cur EXCEPT ![t] = alloc_table[Hash(arg[t][1])]]
    /\ CGoto(t, "search")
    /\ UNCHANGED <<poolVars, alloc_table, addr, info, alloc_mutex, arg, prev, out>>

RemoveLock(t) ==
    /\ cpc[t] = "enter"
    /\ Lock(t)
    /\ cur' = [cur EXCEPT ![t] = alloc_table[Hash(arg[t][1])]]
    /\ CGoto(t, "search")
    /\ UNCHANGED <<poolVars, alloc_table, addr, info, arg, prev, out>>

RemoveSearch(t) ==
    /\ cpc[t] = "search"
    /\ cur[t] # NULL
    /\ addr[cur[t]] # arg[t][1]
    /\ prev' = [prev EXCEPT ![t] = cur[t]]
    /\ cur'  = [cur  EXCEPT ![t] = next[cur[t]]]
    /\ UNCHANGED <<poolVars, alloc_table, addr, info, alloc_mutex, cpc, arg, out>>

\* Mutant: a record is always unlinked as if it were the head.
RemoveUnlinkHead(t) ==
    /\ cpc[t] = "search"
    /\ cur[t] # NULL
    /\ addr[cur[t]] = arg[t][1]
    /\ alloc_table' = [alloc_table EXCEPT ![Hash(arg[t][1])] = next[cur[t]]]
    /\ UNCHANGED poolVars
    /\ CGoto(t, "leave")
    /\ UNCHANGED <<addr, info, alloc_mutex, arg, prev, cur, out>>

\* The first match is unlinked: from the head of the chain, or from prev.
RemoveUnlink(t) ==
    /\ cpc[t] = "search"
    /\ cur[t] # NULL
    /\ addr[cur[t]] = arg[t][1]
    /\ \/ /\ prev[t] = NULL
          /\ alloc_table' = [alloc_table EXCEPT ![Hash(arg[t][1])] = next[cur[t]]]
          /\ UNCHANGED poolVars
       \/ /\ prev[t] # NULL
          /\ Relink(prev[t], next[cur[t]])
          /\ UNCHANGED alloc_table
    /\ CGoto(t, "leave")
    /\ UNCHANGED <<addr, info, alloc_mutex, arg, prev, cur, out>>

\* Mutant: the lock is not given back when nothing is found.
RemoveMissingLocked(t) ==
    /\ cpc[t] = "search"
    /\ cur[t] = NULL
    /\ Return(t)
    /\ UNCHANGED <<poolVars, alloc_table, addr, info, alloc_mutex, out>>

RemoveMissing(t) ==
    /\ cpc[t] = "search"
    /\ cur[t] = NULL
    /\ Unlock(t)
    /\ Return(t)
    /\ UNCHANGED <<poolVars, alloc_table, addr, info, out>>

RemoveUnlock(t) ==
    /\ cpc[t] = "leave"
    /\ Unlock(t)
    /\ Release(t, cur[t])
    /\ CGoto(t, "recycle")
    /\ UNCHANGED <<alloc_table, addr, info, arg, prev, cur, out>>

RemoveRecycle(t) ==
    /\ cpc[t] = "recycle"
    /\ PoolStep(t)
    /\ IF pc'[t] = "idle" THEN Return(t) ELSE UNCHANGED <<cpc, arg, prev, cur>>
    /\ UNCHANGED <<alloc_table, addr, info, alloc_mutex, out>>

-----------------------------------------------------------------------------
(* print(): arg is the chain being traversed, cur the record *)

PrintCall(t) ==
    /\ t \in Printers
    /\ cpc[t] = "ready"
    /\ CGoto(t, "open")
    /\ UNCHANGED <<poolVars, alloc_table, addr, info, alloc_mutex, arg, prev, cur, out>>

PrintOpenFails(t) ==
    /\ cpc[t] = "open"
    /\ Return(t)
    /\ UNCHANGED <<poolVars, alloc_table, addr, info, alloc_mutex, out>>

\* Mutant: print does not lock.
PrintLockNot(t) ==
    /\ cpc[t] = "open"
    /\ arg' = [arg EXCEPT ![t] = <<0>>]
    /\ cur' = [cur EXCEPT ![t] = alloc_table[0]]
    /\ CGoto(t, "print")
    /\ UNCHANGED <<poolVars, alloc_table, addr, info, alloc_mutex, prev, out>>

PrintLock(t) ==
    /\ cpc[t] = "open"
    /\ Lock(t)
    /\ arg' = [arg EXCEPT ![t] = <<0>>]
    /\ cur' = [cur EXCEPT ![t] = alloc_table[0]]
    /\ CGoto(t, "print")
    /\ UNCHANGED <<poolVars, alloc_table, addr, info, prev, out>>

PrintRecord(t) ==
    /\ cpc[t] = "print"
    /\ cur[t] # NULL
    /\ out' = [out EXCEPT ![t] = Append(@, <<addr[cur[t]], info[cur[t]]>>)]
    /\ cur' = [cur EXCEPT ![t] = next[cur[t]]]
    /\ UNCHANGED <<poolVars, alloc_table, addr, info, alloc_mutex, cpc, arg, prev>>

PrintNextChain(t) ==
    /\ cpc[t] = "print"
    /\ cur[t] = NULL
    /\ arg[t][1] + 1 < ALLOC_INDEX_SIZE
    /\ arg' = [arg EXCEPT ![t] = <<@[1] + 1>>]
    /\ cur' = [cur EXCEPT ![t] = alloc_table[arg[t][1] + 1]]
    /\ UNCHANGED <<poolVars, alloc_table, addr, info, alloc_mutex, cpc, prev, out>>

PrintUnlock(t) ==
    /\ cpc[t] = "print"
    /\ cur[t] = NULL
    /\ arg[t][1] + 1 = ALLOC_INDEX_SIZE
    /\ Unlock(t)
    /\ CGoto(t, "close")
    /\ UNCHANGED <<poolVars, alloc_table, addr, info, arg, prev, cur, out>>

PrintClose(t) ==
    /\ cpc[t] = "close"
    /\ out' = [out EXCEPT ![t] = <<>>]
    /\ Return(t)
    /\ UNCHANGED <<poolVars, alloc_table, addr, info, alloc_mutex>>

-----------------------------------------------------------------------------
\* A step of t inside an operation.
CacheStep(t) ==
    \/ InsertApply(t) \/ InsertFull(t) \/ InsertFill(t)
    \/ InsertLock(t) \/ InsertLink(t) \/ InsertPublish(t)
    \/ RemoveCheck(t) \/ RemoveLock(t) \/ RemoveSearch(t) \/ RemoveUnlink(t)
    \/ RemoveMissing(t) \/ RemoveUnlock(t) \/ RemoveRecycle(t)
    \/ PrintOpenFails(t) \/ PrintLock(t) \/ PrintRecord(t)
    \/ PrintNextChain(t) \/ PrintUnlock(t) \/ PrintClose(t)

CacheNext ==
    \E t \in Threads :
        \/ \E a \in Addrs, i \in Infos : InsertCall(t, a, i)
        \/ \E a \in Addrs : RemoveCall(t, a)
        \/ PrintCall(t)
        \/ CacheStep(t)

CacheSpec == CacheInit /\ [][CacheNext]_vars

(* The thread scheduler runs every thread, and alloc_mutex, like a          *)
(* compare-exchange, is not denied for ever to a thread that keeps trying.  *)
CacheFairness ==
    \A t \in Threads :
        /\ WF_vars(CacheStep(t))
        /\ SF_vars(InsertLock(t) \/ RemoveLock(t) \/ PrintLock(t))
        /\ SF_vars(CacheStep(t) /\ (ApplyPop(t) \/ IndexTake(t) \/ RecyclePush(t)))

FairCacheSpec == CacheSpec /\ CacheFairness

-----------------------------------------------------------------------------
(* Properties *)

InsertPcs == {"apply", "lock", "link", "publish"}
RemovePcs == {"check", "enter", "search", "leave", "recycle"}
PrintPcs  == {"open", "print", "close"}

\* Every variable has its type.
CacheTypeOK ==
    /\ TypeOK
    /\ alloc_table \in [Buckets -> Nodes \cup {NULL}]
    /\ addr \in [Nodes -> Addrs \cup {UNINIT}]
    /\ info \in [Nodes -> Infos \cup {UNINIT}]
    /\ alloc_mutex \in Threads \cup {NULL}
    /\ cpc \in [Threads -> {"ready"} \cup InsertPcs \cup RemovePcs \cup PrintPcs]
    /\ prev \in [Threads -> Nodes \cup {NULL}]
    /\ cur  \in [Threads -> Nodes \cup {NULL}]
    /\ \A t \in Threads :
          /\ cpc[t] \in InsertPcs => arg[t] \in Addrs \X Infos
          /\ cpc[t] \in RemovePcs => \E a \in Addrs : arg[t] = <<a>>
          /\ cpc[t] = "print" => \E b \in Buckets : arg[t] = <<b>>

\* The thread inside a critical section is the owner of alloc_mutex, so there
\* is one at most, and a thread that left every section has given it back.
Critical(t) == cpc[t] \in {"link", "publish", "search", "leave", "print"}
MutexOwner == \A t \in Threads : Critical(t) <=> alloc_mutex = t

\* The records the table leads to.
InChain(b) ==
    {n \in Nodes : \A S \in SUBSET Nodes :
        /\ alloc_table[b] \in S \cup {NULL}
        /\ \A m \in S : next[m] \in S \cup {NULL}
        => n \in S}

\* The chains and the pool share the field next without ever sharing a
\* record: what the table leads to is exactly what the pool has given to it
\* (but for the record a thread is linking or has just unlinked), each chain
\* has only records whose address hashes to it, and none is the pool's.
ChainsSound ==
    /\ \A b \in Buckets, n \in Nodes :
          n \in InChain(b) => /\ addr[n] \in Addrs
                              /\ Hash(addr[n]) = b
                              /\ info[n] \in Infos
    /\ UNION {InChain(b) : b \in Buckets} =
          {n \in Nodes : owners[n] > 0}
              \ {cur[t] : t \in {s \in Threads : cpc[s] \in {"publish", "leave"}}}
    /\ \A b \in Buckets : InChain(b) \cap FreeStack = {}

\* MemoryCache is a client the pool is proved correct for: it writes next only
\* of records it owns, with values such a client may write, and recycles only
\* what it has unlinked.
ImplementsPool == PoolSpec

\* Every insert, remove and print returns: no thread waits for ever on
\* alloc_mutex, in a traversal or in a compare-exchange loop.
OperationsReturn == \A t \in Threads : cpc[t] # "ready" ~> cpc[t] = "ready"
=============================================================================
