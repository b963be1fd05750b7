--------------------------- MODULE HookProxyProofs ---------------------------
(***************************************************************************)
(* Proofs about the proxies, for every number of threads and of addresses, *)
(* every choice of sizes and every limit.                                  *)
(***************************************************************************)
EXTENDS HookProxy, FiniteSetTheorems, SequenceTheorems, TLAPS

\* Sizes below 2^32: AllocNode::size keeps them.
SizesFit == \A s \in Sizes : s < UintRange

-----------------------------------------------------------------------------
(* The inductive invariant. *)

Call == [kind : Kinds \cup {"none"}, ptr : Addrs \cup {NULL},
         size : Sizes \cup {0}, proxied : BOOLEAN]

TypeInv ==
    /\ isPss \in BOOLEAN /\ isVss \in BOOLEAN /\ withheld \in BOOLEAN
    /\ isPss \/ isVss
    /\ guard \in [Threads -> BOOLEAN]
    /\ live \in [Addrs -> Alloc \cup {NULL}]
    /\ recs \in [Addrs -> Seq(0 .. UintRange - 1)]
    /\ held \subseteq Addrs
    /\ at \in [Threads -> {"idle", "origin", "remove", "insert", "return"}]
    /\ req \in [Threads -> Call]
    /\ ret \in [Threads -> Addrs \cup {NULL}]

\* Which calls are proxied, once the proxy has made its test.
ProxiedInv(t) ==
    /\ req[t].kind \in HeapKinds /\ req[t].proxied => isPss
    /\ req[t].kind = "realloc" => (req[t].proxied <=> isPss)
    /\ req[t].kind = "free" => (req[t].proxied <=> req[t].ptr # NULL)
    /\ req[t].kind \in {"mmap", "munmap", "pthread_exit"} => (req[t].proxied <=> isVss)

\* Where each sort of call may be, and what it has by then.
CallInv(t) ==
    /\ at[t] = "idle" => req[t] = NoCall /\ ret[t] = NULL /\ ~ guard[t]
    /\ at[t] # "idle" => req[t].kind \in Kinds /\ req[t].size \in Sizes
    /\ req[t].kind \in HeapKinds \cup {"mmap"} => req[t].ptr = NULL
    /\ req[t].kind \in {"munmap", "pthread_exit"} => req[t].ptr # NULL
    /\ req[t].kind = "pthread_exit" => at[t] \in {"origin", "remove"} /\ ret[t] = NULL
    /\ at[t] = "origin" => ret[t] = NULL
    /\ req[t].kind # "pthread_exit" => (guard[t] <=> req[t].proxied)
    /\ at[t] = "remove" =>
          /\ req[t].proxied /\ req[t].ptr # NULL
          /\ req[t].kind \in {"free", "munmap", "realloc", "pthread_exit"}
          /\ ret[t] # NULL => req[t].kind = "realloc"
    /\ at[t] = "insert" =>
          /\ req[t].proxied /\ ret[t] # NULL /\ req[t].kind \in SizedKinds
          /\ req[t].kind = "realloc" => req[t].size >= limit

\* The allocation a call has in its hands: the one it was given, until that
\* is released, or the one it will return.
Releasing(t) == at[t] = "origin" \/ (at[t] = "remove" /\ req[t].kind = "pthread_exit")
Owned(t) == IF Releasing(t) THEN req[t].ptr ELSE ret[t]

\* An allocation is held by the application or in the hands of one call.
OwnInv ==
    /\ \A a \in held : live[a] # NULL
    /\ \A t \in Threads : Owned(t) # NULL =>
          /\ live[Owned(t)] # NULL
          /\ Owned(t) \notin held
          /\ \A u \in Threads \ {t} : Owned(u) # Owned(t)

SortFor(kind) == IF kind \in {"mmap", "munmap", "pthread_exit"} THEN "map" ELSE "heap"

\* Its sort is that of the call, and what is not monitored is not recorded.
SortInv ==
    /\ \A t \in Threads : Releasing(t) /\ req[t].ptr # NULL =>
          live[req[t].ptr].sort = SortFor(req[t].kind)
    /\ \A t \in Threads : at[t] \in {"remove", "insert"} /\ ret[t] # NULL =>
          /\ live[ret[t]].sort = SortFor(req[t].kind)
          /\ live[ret[t]].size = req[t].size
          /\ live[ret[t]].recorded <=> (req[t].kind = "realloc" => req[t].size >= limit)
    /\ \A a \in Addrs : live[a] # NULL /\ live[a].recorded =>
          IF live[a].sort = "heap" THEN isPss ELSE isVss

BaseInv == TypeInv /\ (\A t \in Threads : ProxiedInv(t) /\ CallInv(t)) /\ OwnInv /\ SortInv

\* Calls that have released a and have yet to remove its record.
Removers(a) == {t \in Threads : at[t] = "remove" /\ req[t].kind # "pthread_exit" /\ req[t].ptr = a}

\* a is in use, may have a record, and no call is still to insert it or has
\* removed it already.
MayHaveRecord(a) ==
    /\ live[a] # NULL
    /\ live[a].sort = "heap" => isPss
    /\ live[a].sort = "map" => isVss
    /\ \A t \in Threads :
          /\ at[t] = "insert" => ret[t] # a
          /\ at[t] = "remove" => ret[t] # a
          /\ at[t] = "origin" /\ req[t].kind = "pthread_exit" /\ req[t].proxied => req[t].ptr # a

\* No address has more records than one for its present use and one for every
\* call that will remove one.
Bounded(a) ==
    Len(recs[a]) <= Cardinality(Removers(a)) + (IF MayHaveRecord(a) THEN 1 ELSE 0)
CountInv == \A a \in Addrs : Bounded(a)

\* Addresses that matter to t's call.
Concern(t) == {req[t].ptr, ret[t]} \ {NULL}

\* If released addresses are withheld, no two calls have an address in common.
ApartInv ==
    /\ \A t \in Threads : Concern(t) \cap held = {}
    /\ \A t, u \in Threads : t # u => Concern(t) \cap Concern(u) = {}
    /\ \A t \in Threads : at[t] = "remove" /\ req[t].kind # "pthread_exit" /\ req[t].ptr # ret[t]
          => live[req[t].ptr] = NULL

\* The record of a is still to be removed, respectively inserted.
Stale(t, a) == at[t] = "remove" /\ req[t].kind # "pthread_exit" /\ req[t].ptr = a
Pending(t, a) ==
    \/ at[t] = "insert" /\ ret[t] = a
    \/ at[t] = "remove" /\ ret[t] = a /\ req[t].ptr # a
    \/ at[t] = "origin" /\ req[t].kind = "pthread_exit" /\ req[t].proxied /\ req[t].ptr = a

\* What the report should say of a.
Record(a) == IF live[a] # NULL /\ live[a].recorded THEN <<live[a].size>> ELSE <<>>

\* Then every record is right, but for the addresses of a call that is about
\* to put its own right.
Exact(a) ==
    /\ (\A t \in Threads : ~ Stale(t, a) /\ ~ Pending(t, a)) => recs[a] = Record(a)
    /\ \A t \in Threads : Stale(t, a) => Len(recs[a]) <= 1
    /\ \A t \in Threads : Pending(t, a) => recs[a] = <<>>
ExactInv == \A a \in Addrs : Exact(a)

-----------------------------------------------------------------------------
(* Types and ownership. *)

\* What Proxied says of a thread that is in no proxy.
LEMMA ProxiedBy ==
    ASSUME TypeInv, NEW t \in Threads, NEW kind \in Kinds,
           NEW ptr \in Addrs \cup {NULL}, NEW size \in Sizes, ~ guard[t]
    PROVE  /\ Proxied(t, kind, ptr, size) \in BOOLEAN
           /\ kind \in HeapKinds /\ Proxied(t, kind, ptr, size) => isPss
           /\ kind = "realloc" => (Proxied(t, kind, ptr, size) <=> isPss)
           /\ kind = "free" => (Proxied(t, kind, ptr, size) <=> ptr # NULL)
           /\ kind \in {"mmap", "munmap", "pthread_exit"} /\ (kind = "munmap" => ptr # NULL) =>
                 (Proxied(t, kind, ptr, size) <=> isVss)
<1> USE DEF TypeInv, Proxied, HeapKinds
<1>1. CASE kind \in HeapKinds
      BY <1>1
<1>2. CASE kind = "realloc"
      BY <1>2
<1>3. CASE kind = "free"
      BY <1>3
<1>4. CASE kind = "mmap"
      BY <1>4
<1>5. CASE kind = "munmap"
      BY <1>5
<1>6. CASE kind = "pthread_exit"
      BY <1>6
<1> QED
    BY <1>1, <1>2, <1>3, <1>4, <1>5, <1>6 DEF Kinds, SizedKinds

\* What the application passes: nothing, or a pointer it holds of the sort
\* that the call releases.
LEMMA Passed ==
    ASSUME NEW kind \in Kinds, NEW ptr, ptr \in Releasable(kind)
    PROVE  /\ kind \in HeapKinds \cup {"mmap"} => ptr = NULL
           /\ kind \in {"munmap", "pthread_exit"} => ptr \in held
           /\ ptr # NULL => ptr \in held /\ live[ptr].sort = SortFor(kind)
<1> USE DEF Releasable, SortFor, HeapKinds
<1>1. CASE kind \in HeapKinds \cup {"mmap"}
      BY <1>1
<1>2. CASE kind \in {"realloc", "free"}
      BY <1>2
<1>3. CASE kind \in {"munmap", "pthread_exit"}
      BY <1>3
<1> QED
    BY <1>1, <1>2, <1>3 DEF Kinds, SizedKinds

\* Nothing is allocated, held or recorded.
LEMMA BaseInit == ProxyInit => BaseInv
<1> SUFFICES ASSUME ProxyInit PROVE BaseInv
    OBVIOUS
<1> USE DEF ProxyInit
<1>1. NoCall \in Call
      BY DEF NoCall, Call
<1>2. TypeInv
      BY <1>1 DEF TypeInv
<1>3. \A t \in Threads : ProxiedInv(t) /\ CallInv(t)
      BY DEF ProxiedInv, CallInv, NoCall, Kinds, SizedKinds, HeapKinds
<1>4. OwnInv
      BY DEF OwnInv, Owned, Releasing
<1>5. SortInv
      BY DEF SortInv, Releasing
<1> QED
    BY <1>2, <1>3, <1>4, <1>5 DEF BaseInv

\* Every step of every thread keeps to it.
LEMMA BaseNext == BaseInv /\ [ProxyNext]_proxyVars => BaseInv'
<1> SUFFICES ASSUME BaseInv, [ProxyNext]_proxyVars PROVE BaseInv'
    OBVIOUS
<1> USE DEF BaseInv, config, At
<1>a. /\ NULL \notin Addrs /\ NULL \notin Alloc /\ Sizes \subseteq Nat /\ limit \in Nat
      /\ UintRange \in Nat \ {0} /\ 0 .. UintRange - 1 \subseteq Nat
      BY ProxyAssumption
<1>k. /\ HeapKinds = {"malloc", "calloc"} /\ SizedKinds = {"malloc", "calloc", "realloc", "mmap"}
      /\ Kinds = {"malloc", "calloc", "realloc", "mmap", "free", "munmap", "pthread_exit"}
      BY DEF HeapKinds, SizedKinds, Kinds
<1>1. ASSUME NEW t \in Threads, NEW kind \in Kinds, NEW ptr \in Addrs \cup {NULL},
             NEW size \in Sizes, Enter(t, kind, ptr, size)
      PROVE  BaseInv'
  <2>a. at[t] = "idle" /\ ~ guard[t] /\ ret[t] = NULL /\ req[t] = NoCall
        BY <1>1 DEF Enter, CallInv
  <2>b. PICK p \in BOOLEAN :
            /\ req' = [req EXCEPT ![t] = [kind |-> kind, ptr |-> ptr, size |-> size, proxied |-> p]]
            /\ guard' = [guard EXCEPT ![t] = p]
            /\ at' = [at EXCEPT ![t] = IF kind = "pthread_exit" /\ p THEN "remove" ELSE "origin"]
            /\ p = Proxied(t, kind, ptr, size)
    <3>1. Proxied(t, kind, ptr, size) \in BOOLEAN
          BY <2>a, ProxiedBy
    <3>2. guard[t] = FALSE
          BY <2>a
    <3>3. CASE Proxied(t, kind, ptr, size) = TRUE
          BY <1>1, <3>3 DEF Enter
    <3>4. CASE Proxied(t, kind, ptr, size) = FALSE
          BY <1>1, <3>2, <3>4 DEF Enter
    <3> QED
        BY <3>1, <3>3, <3>4
  <2>c. /\ kind \in HeapKinds \cup {"mmap"} => ptr = NULL
        /\ kind \in {"munmap", "pthread_exit"} => ptr \in held
        /\ ptr # NULL => ptr \in held /\ live[ptr].sort = SortFor(kind)
        BY <1>1, Passed DEF Enter
  <2>d. /\ held' = held \ {ptr} /\ live' = live /\ recs' = recs /\ ret' = ret
        /\ isPss' = isPss /\ isVss' = isVss /\ withheld' = withheld
        BY <1>1 DEF Enter
  <2>e. /\ req'[t] = [kind |-> kind, ptr |-> ptr, size |-> size, proxied |-> p]
        /\ at'[t] \in {"origin", "remove"} /\ (at'[t] = "remove" <=> kind = "pthread_exit" /\ p)
        /\ \A s \in Threads \ {t} : req'[s] = req[s] /\ at'[s] = at[s] /\ guard'[s] = guard[s]
        BY <2>b DEF TypeInv
  <2>1. TypeInv'
    <3>1. [kind |-> kind, ptr |-> ptr, size |-> size, proxied |-> p] \in Call
          BY DEF Call
    <3> QED
        BY <2>b, <2>d, <3>1 DEF TypeInv
  <2>2. \A s \in Threads : ProxiedInv(s)' /\ CallInv(s)'
    <3>1. CallInv(t)'
          BY <1>a, <2>a, <2>b, <2>c, <2>d DEF TypeInv, CallInv
    <3>2. ProxiedInv(t)'
      <4>1. kind = "munmap" => ptr # NULL
            BY <1>a, <2>c DEF TypeInv
      <4>2. /\ kind \in HeapKinds /\ p => isPss
            /\ kind = "realloc" => (p <=> isPss)
            /\ kind = "free" => (p <=> ptr # NULL)
            /\ kind \in {"mmap", "munmap", "pthread_exit"} => (p <=> isVss)
            BY <2>a, <2>b, <4>1, ProxiedBy
      <4> QED
          BY <2>d, <2>e, <4>2 DEF ProxiedInv
    <3>3. \A s \in Threads \ {t} : CallInv(s)' /\ ProxiedInv(s)'
          BY <2>d, <2>e DEF CallInv, ProxiedInv
    <3> QED
        BY <3>1, <3>2, <3>3
  <2>3. OwnInv'
    <3>1. Owned(t)' = ptr /\ \A s \in Threads \ {t} : Owned(s)' = Owned(s)
          BY <2>d, <2>e DEF Owned, Releasing
    <3>2. ptr # NULL => ptr \in held /\ live[ptr] # NULL /\ \A s \in Threads : Owned(s) # ptr
          BY <2>c DEF OwnInv
    <3> QED
        BY <2>d, <3>1, <3>2 DEF OwnInv
  <2>4. SortInv'
    <3>1. Releasing(t)' /\ \A s \in Threads \ {t} : Releasing(s)' <=> Releasing(s)
          BY <2>e DEF Releasing
    <3>2. live[ptr].sort = SortFor(kind) \/ ptr = NULL
          BY <2>c
    <3> QED
        BY <2>a, <2>d, <2>e, <3>1, <3>2 DEF SortInv
  <2> QED
      BY <2>1, <2>2, <2>3, <2>4
<1>2. ASSUME NEW t \in Threads, OriginAllocates(t)
      PROVE  BaseInv'
  <2>a. PICK a \in Addrs :
            /\ live[a] = NULL /\ ret' = [ret EXCEPT ![t] = a]
            /\ live' = [live EXCEPT ![a] = Allocation(t, IF req[t].kind = "mmap" THEN "map" ELSE "heap")]
        BY <1>2 DEF OriginAllocates, Available
  <2>b. /\ at[t] = "origin" /\ req' = req /\ held' = held /\ guard' = guard /\ recs' = recs
        /\ req[t].kind \in SizedKinds /\ req[t].ptr = NULL
        /\ isPss' = isPss /\ isVss' = isVss /\ withheld' = withheld
        /\ at' = [at EXCEPT ![t] = IF req[t].proxied /\ ~ (req[t].kind = "realloc" /\ req[t].size < limit)
                                   THEN "insert" ELSE "return"]
        BY <1>k, <1>2 DEF OriginAllocates, After, CallInv
  <2>c. Allocation(t, IF req[t].kind = "mmap" THEN "map" ELSE "heap") \in Alloc
        BY <2>b DEF Allocation, Alloc, CallInv
  <2>d. /\ at'[t] \in {"insert", "return"} /\ ret'[t] = a
        /\ at'[t] = "insert" =>
              req[t].proxied /\ (req[t].kind = "realloc" => req[t].size >= limit)
        /\ \A s \in Threads \ {t} : ret'[s] = ret[s] /\ at'[s] = at[s]
        /\ live'[a] = Allocation(t, IF req[t].kind = "mmap" THEN "map" ELSE "heap")
        /\ \A b \in Addrs \ {a} : live'[b] = live[b]
    <3>1. req[t].size \in Nat
          BY <1>a, <2>b DEF CallInv
    <3> QED
        BY <1>a, <2>a, <2>b, <3>1 DEF TypeInv
  <2>1. TypeInv'
        BY <2>a, <2>b, <2>c DEF TypeInv
  <2>2. \A s \in Threads : ProxiedInv(s)' /\ CallInv(s)'
    <3>1. CallInv(t)'
          BY <1>a, <2>b, <2>d DEF CallInv
    <3> QED
        BY <2>b, <2>d, <3>1 DEF CallInv, ProxiedInv
  <2>3. OwnInv'
    <3>1. Owned(t)' = a /\ \A s \in Threads \ {t} : Owned(s)' = Owned(s)
          BY <2>b, <2>d DEF Owned, Releasing
    <3>2. live'[a] # NULL /\ a # NULL /\ a \notin held /\ \A s \in Threads : Owned(s) # a
          BY <1>a, <2>a, <2>c, <2>d DEF OwnInv
    <3>3. \A b \in Addrs : live[b] # NULL => live'[b] # NULL
          BY <2>a
    <3>4. \A s \in Threads : Owned(s) \in Addrs \cup {NULL}
          BY DEF Owned, TypeInv, Call
    <3>5. \A s \in Threads \ {t} : Owned(s) # NULL => live'[Owned(s)] # NULL
          BY <3>3, <3>4 DEF OwnInv
    <3> QED
        BY <2>b, <3>1, <3>2, <3>3, <3>5 DEF OwnInv, TypeInv
  <2>4. SortInv'
    <3>1. ~ Releasing(t)' /\ \A s \in Threads \ {t} : Releasing(s)' <=> Releasing(s)
          BY <2>b, <2>d DEF Releasing
    <3>2. \A s \in Threads \ {t} : Releasing(s)' /\ req'[s].ptr # NULL => live'[req'[s].ptr].sort = SortFor(req'[s].kind)
      <4>1. \A s \in Threads \ {t} : Releasing(s) /\ req[s].ptr # NULL => req[s].ptr \in Addrs \ {a}
            BY <2>a DEF OwnInv, Owned, TypeInv, Call
      <4> QED
          BY <2>b, <2>d, <3>1, <4>1 DEF SortInv
    <3>3. ASSUME NEW s \in Threads, at'[s] \in {"remove", "insert"}, ret'[s] # NULL
          PROVE  /\ live'[ret'[s]].sort = SortFor(req'[s].kind)
                 /\ live'[ret'[s]].size = req'[s].size
                 /\ live'[ret'[s]].recorded <=> (req'[s].kind = "realloc" => req'[s].size >= limit)
      <4>1. CASE s = t
            BY <1>k, <2>b, <2>d, <3>3, <4>1 DEF Allocation, SortFor
      <4>2. CASE s # t
        <5>1. ret[s] \in Addrs \ {a}
              BY <2>a, <3>3, <4>2 DEF OwnInv, Owned, Releasing, CallInv, TypeInv
        <5> QED
            BY <2>b, <2>d, <3>3, <4>2, <5>1 DEF SortInv
      <4> QED
          BY <4>1, <4>2
    <3>4. ASSUME NEW b \in Addrs, live'[b] # NULL, live'[b].recorded
          PROVE  IF live'[b].sort = "heap" THEN isPss' ELSE isVss'
      <4>1. CASE b = a
            BY <1>k, <2>b, <2>d, <3>4, <4>1 DEF Allocation, ProxiedInv
      <4> QED
          BY <2>b, <2>d, <3>4, <4>1 DEF SortInv
    <3> QED
        BY <3>1, <3>2, <3>3, <3>4 DEF SortInv
  <2> QED
      BY <2>1, <2>2, <2>3, <2>4
<1>3. ASSUME NEW t \in Threads, OriginFails(t)
      PROVE  BaseInv'
  <2>1. TypeInv'
        BY <1>3 DEF OriginFails, TypeInv, Call
  <2>2. \A s \in Threads : ProxiedInv(s)' /\ CallInv(s)'
        BY <1>3 DEF OriginFails, TypeInv, ProxiedInv, CallInv
  <2>3. OwnInv'
        BY <1>3 DEF OriginFails, CallInv, OwnInv, Owned, Releasing
  <2>4. SortInv'
        BY <1>3 DEF OriginFails, SortInv, Releasing
  <2> QED
      BY <2>1, <2>2, <2>3, <2>4
<1>4. ASSUME NEW t \in Threads, OriginReleases(t)
      PROVE  BaseInv'
  <2>1. TypeInv'
        BY <1>4 DEF OriginReleases, After, TypeInv
  <2>2. \A s \in Threads : ProxiedInv(s)' /\ CallInv(s)'
        BY <1>4 DEF OriginReleases, After, TypeInv, ProxiedInv, CallInv
  <2>3. OwnInv'
        BY <1>a, <1>4
        DEF OriginReleases, After, TypeInv, CallInv, OwnInv, Owned, Releasing
  <2>4. SortInv'
        BY <1>a, <1>k, <1>4
        DEF OriginReleases, After, TypeInv, CallInv, OwnInv, Owned, SortInv,
            Releasing, NoCall
  <2> QED
      BY <2>1, <2>2, <2>3, <2>4
<1>5. ASSUME NEW t \in Threads, OriginExits(t)
      PROVE  BaseInv'
  <2>1. TypeInv'
        BY <1>5 DEF OriginExits, TypeInv, Call, NoCall
  <2>2. \A s \in Threads : ProxiedInv(s)' /\ CallInv(s)'
        BY <1>5 DEF OriginExits, TypeInv, ProxiedInv, CallInv, NoCall
  <2>3. OwnInv'
        BY <1>5 DEF OriginExits, TypeInv, CallInv, OwnInv, Owned, Releasing
  <2>4. SortInv'
        BY <1>a, <1>5
        DEF OriginExits, TypeInv, CallInv, OwnInv, Owned, SortInv, Releasing
  <2> QED
      BY <2>1, <2>2, <2>3, <2>4
<1>6. ASSUME NEW t \in Threads, OriginResizes(t)
      PROVE  BaseInv'
  <2>a. PICK a \in Addrs :
            /\ live[a] = NULL \/ a = req[t].ptr
            /\ ret' = [ret EXCEPT ![t] = a]
            /\ live' = [[live EXCEPT ![req[t].ptr] = NULL] EXCEPT ![a] = Allocation(t, "heap")]
        BY <1>6 DEF OriginResizes, Available, TypeInv, Call
  <2>b. /\ at[t] = "origin" /\ req' = req /\ held' = held /\ guard' = guard /\ recs' = recs
        /\ req[t].kind = "realloc" /\ req[t].ptr # NULL /\ req[t].ptr \in Addrs
        /\ isPss' = isPss /\ isVss' = isVss /\ withheld' = withheld
        /\ at' = [at EXCEPT ![t] = IF req[t].proxied THEN "remove" ELSE "return"]
        BY <1>6 DEF OriginResizes, After, TypeInv, Call
  <2>c. Allocation(t, "heap") \in Alloc
        BY <2>b DEF Allocation, Alloc, CallInv
  <2>d. /\ at'[t] \in {"remove", "return"} /\ ret'[t] = a
        /\ at'[t] = "remove" => req[t].proxied
        /\ \A s \in Threads \ {t} : ret'[s] = ret[s] /\ at'[s] = at[s]
        /\ live'[a] = Allocation(t, "heap") /\ DOMAIN live' = Addrs
        /\ req[t].ptr # a => live'[req[t].ptr] = NULL
        /\ \A b \in Addrs \ {a, req[t].ptr} : live'[b] = live[b]
        BY <2>a, <2>b DEF TypeInv
  <2>e. \A s \in Threads : Owned(s) \in Addrs \cup {NULL}
        BY DEF Owned, TypeInv, Call
  <2>f. /\ Owned(t) = req[t].ptr
        /\ \A s \in Threads \ {t} : Owned(s) # NULL => Owned(s) # req[t].ptr /\ Owned(s) # a
        BY <2>a, <2>b DEF OwnInv, Owned, Releasing
  <2>1. TypeInv'
    <3>1. live' \in [Addrs -> Alloc \cup {NULL}]
          BY <2>a, <2>c DEF TypeInv
    <3> QED
        BY <2>a, <2>b, <3>1 DEF TypeInv
  <2>2. \A s \in Threads : ProxiedInv(s)' /\ CallInv(s)'
        BY <1>6 DEF OriginResizes, After, TypeInv, ProxiedInv, CallInv
  <2>3. OwnInv'
    <3>1. Owned(t)' = a /\ \A s \in Threads \ {t} : Owned(s)' = Owned(s)
          BY <2>b, <2>d DEF Owned, Releasing
    <3>2. live'[a] # NULL /\ a # NULL /\ a \notin held /\ req[t].ptr \notin held
          BY <1>a, <2>a, <2>b, <2>c, <2>d, <2>f DEF OwnInv
    <3>3. \A b \in Addrs \ {req[t].ptr} : live[b] # NULL => live'[b] # NULL
          BY <2>d, <3>2
    <3> QED
        BY <2>b, <2>e, <2>f, <3>1, <3>2, <3>3 DEF OwnInv, TypeInv
  <2>4. SortInv'
    <3>1. ~ Releasing(t)' /\ \A s \in Threads \ {t} : Releasing(s)' <=> Releasing(s)
          BY <2>b, <2>d DEF Releasing
    <3>2. \A s \in Threads \ {t} : Owned(s) # NULL => live'[Owned(s)] = live[Owned(s)]
          BY <2>d, <2>e, <2>f
    <3>3. \A s \in Threads \ {t} : Releasing(s)' /\ req'[s].ptr # NULL => live'[req'[s].ptr].sort = SortFor(req'[s].kind)
          BY <2>b, <3>1, <3>2 DEF SortInv, Owned
    <3>4. ASSUME NEW s \in Threads, at'[s] \in {"remove", "insert"}, ret'[s] # NULL
          PROVE  /\ live'[ret'[s]].sort = SortFor(req'[s].kind)
                 /\ live'[ret'[s]].size = req'[s].size
                 /\ live'[ret'[s]].recorded <=> (req'[s].kind = "realloc" => req'[s].size >= limit)
      <4>1. CASE s = t
            BY <2>b, <2>d, <3>4, <4>1 DEF Allocation, SortFor
      <4>2. CASE s # t
        <5>1. Owned(s) = ret[s]
              BY <2>d, <3>4, <4>2 DEF Owned, Releasing, CallInv
        <5> QED
            BY <2>b, <2>d, <3>2, <3>4, <4>2, <5>1 DEF SortInv
      <4> QED
          BY <4>1, <4>2
    <3>5. ASSUME NEW b \in Addrs, live'[b] # NULL, live'[b].recorded
          PROVE  IF live'[b].sort = "heap" THEN isPss' ELSE isVss'
      <4>1. CASE b = a
            BY <2>b, <2>d, <3>5, <4>1 DEF Allocation, ProxiedInv
      <4> QED
          BY <2>b, <2>d, <3>5, <4>1 DEF SortInv
    <3> QED
        BY <3>1, <3>3, <3>4, <3>5 DEF SortInv
  <2> QED
      BY <2>1, <2>2, <2>3, <2>4
<1>7. ASSUME NEW t \in Threads, OriginMaps(t)
      PROVE  BaseInv'
  <2>1. TypeInv'
    <3>1. TypeInv /\ req[t].proxied \in BOOLEAN
          BY DEF TypeInv, Call
    <3>2. PICK a \in Available, z \in Sizes :
              /\ live' = [live EXCEPT ![a] =
                             [sort |-> "arena", size |-> z,
                              recorded |-> isVss /\ ~ req[t].proxied]]
              /\ \/ recs' = [recs EXCEPT ![a] = <<z % UintRange>> \o @]
                 \/ recs' = recs
          BY <1>7 DEF OriginMaps
    <3>3. a \in Addrs /\ z % UintRange \in 0 .. UintRange - 1
          BY <1>a DEF Available
    <3>4. live' \in [Addrs -> Alloc \cup {NULL}]
          BY <3>1, <3>2, <3>3 DEF TypeInv, Alloc
    <3>5. recs' \in [Addrs -> Seq(0 .. UintRange - 1)]
      <4>1. recs[a] \in Seq(0 .. UintRange - 1)
            BY <3>1, <3>3 DEF TypeInv
      <4>2. <<z % UintRange>> \in Seq(0 .. UintRange - 1)
            BY <3>3
      <4>3. <<z % UintRange>> \o recs[a] \in Seq(0 .. UintRange - 1)
            BY <4>1, <4>2
      <4> QED
          BY <3>1, <3>2, <4>3 DEF TypeInv
    <3> QED
        BY <1>7, <3>1, <3>4, <3>5 DEF OriginMaps, TypeInv
  <2>2. \A s \in Threads : ProxiedInv(s)' /\ CallInv(s)'
        BY <1>7
        DEF OriginMaps, Available, TypeInv, ProxiedInv, CallInv, Call, NoCall
  <2>3. OwnInv'
        BY <1>7 DEF OriginMaps, Available, OwnInv, Owned, Releasing
  <2>4. SortInv'
        BY <1>a, <1>7
        DEF OriginMaps, Available, TypeInv, CallInv, OwnInv, Owned, SortInv,
            Releasing, NoCall
  <2> QED
      BY <2>1, <2>2, <2>3, <2>4
<1>8. ASSUME NEW t \in Threads, CacheRemove(t)
      PROVE  BaseInv'
  <2>1. TypeInv'
    <3>1. req[t].ptr \in Addrs
          BY <1>8 DEF CacheRemove, TypeInv, CallInv, Call
    <3>2. recs[req[t].ptr] # <<>> => Tail(recs[req[t].ptr]) \in Seq(0 .. UintRange - 1)
          BY <3>1, HeadTailProperties DEF TypeInv
    <3>3. recs' \in [Addrs -> Seq(0 .. UintRange - 1)]
          BY <1>8, <3>2 DEF CacheRemove, TypeInv
    <3> QED
        BY <1>8, <3>3 DEF CacheRemove, TypeInv
  <2>2. \A s \in Threads : ProxiedInv(s)' /\ CallInv(s)'
        BY <1>k, <1>8 DEF CacheRemove, TypeInv, ProxiedInv, CallInv
  <2>3. OwnInv'
        BY <1>a, <1>k, <1>8
        DEF CacheRemove, TypeInv, CallInv, OwnInv, Owned, Releasing, NoCall
  <2>4. SortInv'
        BY <1>8 DEF CacheRemove, TypeInv, SortInv, Releasing
  <2> QED
      BY <2>1, <2>2, <2>3, <2>4
<1>9. ASSUME NEW t \in Threads, CacheInsert(t)
      PROVE  BaseInv'
  <2>1. TypeInv'
    <3>1. ret[t] \in Addrs /\ req[t].size \in Nat
          BY <1>a, <1>9 DEF CacheInsert, TypeInv, CallInv
    <3>2. SizeOf(req[t].kind, req[t].size) \in Nat
          BY <1>a, <3>1 DEF SizeOf
    <3>3. SizeOf(req[t].kind, req[t].size) % UintRange \in 0 .. UintRange - 1
          BY <1>a, <3>2
    <3>4. recs' \in [Addrs -> Seq(0 .. UintRange - 1)]
          BY <1>9, <3>1, <3>3 DEF CacheInsert, TypeInv
    <3> QED
        BY <1>9, <3>4 DEF CacheInsert, TypeInv
  <2>2. \A s \in Threads : ProxiedInv(s)' /\ CallInv(s)'
        BY <1>9 DEF CacheInsert, TypeInv, ProxiedInv, CallInv
  <2>3. OwnInv'
        BY <1>9 DEF CacheInsert, TypeInv, OwnInv, Owned, Releasing
  <2>4. SortInv'
        BY <1>9 DEF CacheInsert, SizeOf, TypeInv, SortInv, Releasing
  <2> QED
      BY <2>1, <2>2, <2>3, <2>4
<1>10. ASSUME NEW t \in Threads, Leave(t)
      PROVE  BaseInv'
  <2>1. TypeInv'
        BY <1>10 DEF Leave, TypeInv, Call, NoCall
  <2>2. \A s \in Threads : ProxiedInv(s)' /\ CallInv(s)'
    <3>1. /\ req'[t] = NoCall /\ ret'[t] = NULL /\ at'[t] = "idle"
          /\ guard'[t] = (guard[t] /\ ~ req[t].proxied)
          /\ \A s \in Threads \ {t} : /\ req'[s] = req[s] /\ ret'[s] = ret[s] /\ at'[s] = at[s]
                                     /\ guard'[s] = guard[s]
          BY <1>10 DEF Leave, TypeInv
    <3>2. ~ guard'[t]
          BY <1>10, <3>1 DEF Leave, CallInv
    <3>3. CallInv(t)' /\ ProxiedInv(t)'
          BY <3>1, <3>2 DEF CallInv, ProxiedInv, NoCall
    <3> QED
        BY <1>10, <3>3 DEF Leave, CallInv, ProxiedInv
  <2>3. OwnInv'
        BY <1>10 DEF Leave, TypeInv, CallInv, OwnInv, Owned, Releasing, NoCall
  <2>4. SortInv'
        BY <1>10
        DEF Leave, CallInv, ProxiedInv, SortInv, Releasing, SortFor, NoCall
  <2> QED
      BY <2>1, <2>2, <2>3, <2>4
<1>11. ASSUME UNCHANGED proxyVars PROVE BaseInv'
  <2>1. TypeInv' /\ \A s \in Threads : ProxiedInv(s)' /\ CallInv(s)'
        BY <1>11 DEF proxyVars, TypeInv, ProxiedInv, CallInv
  <2>2. OwnInv' /\ SortInv'
        BY <1>11 DEF proxyVars, OwnInv, Owned, SortInv, Releasing
  <2> QED
      BY <2>1, <2>2
<1> QED
    BY <1>1, <1>2, <1>3, <1>4, <1>5, <1>6, <1>7, <1>8, <1>9, <1>10, <1>11
    DEF ProxyNext, ProxyStep

-----------------------------------------------------------------------------
(* Records and the calls that will remove them. *)

\* Cardinalities of the calls about to remove a record of a.
LEMMA RemoversFinite ==
    \A a : IsFiniteSet(Removers(a)) /\ Cardinality(Removers(a)) \in Nat
<1> TAKE a
<1>1. Removers(a) \subseteq Threads
      BY DEF Removers
<1>2. IsFiniteSet(Removers(a))
      BY <1>1, ProxyAssumption, FS_Subset
<1> QED
    BY <1>2, FS_CardinalityType

\* A step that gives a at most one record more, one more remover or the right
\* to one more record, or takes them away together, keeps the bound.
LEMMA BoundedStep ==
    ASSUME TypeInv, TypeInv', NEW a \in Addrs, Bounded(a), NEW t,
           \/ /\ Len(recs'[a]) <= Len(recs[a]) /\ Removers(a)' = Removers(a)
              /\ MayHaveRecord(a) => MayHaveRecord(a)'
           \/ /\ Len(recs'[a]) <= Len(recs[a]) + 1 /\ Removers(a)' = Removers(a)
              /\ ~ MayHaveRecord(a) /\ MayHaveRecord(a)'
           \/ /\ Len(recs'[a]) <= Len(recs[a])
              /\ t \notin Removers(a) /\ Removers(a)' = Removers(a) \cup {t}
           \/ /\ Len(recs'[a]) <= Len(recs[a]) - 1 \/ Len(recs'[a]) = 0
              /\ Removers(a)' = Removers(a)
           \/ /\ Len(recs'[a]) <= Len(recs[a]) - 1 \/ Len(recs'[a]) = 0
              /\ t \in Removers(a) /\ Removers(a)' = Removers(a) \ {t}
              /\ MayHaveRecord(a) => MayHaveRecord(a)'
    PROVE  Bounded(a)'
<1>1. Len(recs[a]) \in Nat /\ Len(recs'[a]) \in Nat
      OBVIOUS
<1>2. Cardinality(Removers(a)) \in Nat /\ IsFiniteSet(Removers(a))
      BY RemoversFinite
<1>3. t \notin Removers(a) => Cardinality(Removers(a) \cup {t}) = Cardinality(Removers(a)) + 1
      BY <1>2, FS_AddElement
<1>4. t \in Removers(a) => Cardinality(Removers(a) \ {t}) = Cardinality(Removers(a)) - 1
      BY <1>2, FS_RemoveElement
<1>5. t \in Removers(a) => Cardinality(Removers(a) \ {t}) \in Nat
      BY <1>2, FS_RemoveElement, FS_CardinalityType
<1>6. PICK m \in {0, 1} : /\ MayHaveRecord(a) <=> m = 1
                          /\ Len(recs[a]) <= Cardinality(Removers(a)) + m
      BY DEF Bounded
<1>7. PICK n \in {0, 1} : /\ MayHaveRecord(a)' => n = 1
                          /\ Bounded(a)' <=> Len(recs'[a]) <= Cardinality(Removers(a)') + n
      BY DEF Bounded
<1>8. MayHaveRecord(a) => m = 1
      BY <1>6
<1>9. MayHaveRecord(a)' => n = 1
      BY <1>7
<1>10. ~ MayHaveRecord(a) => m = 0
      BY <1>6
<1>11. CASE /\ Len(recs'[a]) <= Len(recs[a]) /\ Removers(a)' = Removers(a)
            /\ MayHaveRecord(a) => MayHaveRecord(a)'
  <2>1. m <= n
        BY <1>9, <1>10, <1>11
  <2> QED
      BY <1>2, <1>6, <1>7, <1>11
<1>12. CASE /\ Len(recs'[a]) <= Len(recs[a]) + 1 /\ Removers(a)' = Removers(a)
            /\ ~ MayHaveRecord(a) /\ MayHaveRecord(a)'
  <2>1. m = 0 /\ n = 1
        BY <1>9, <1>10, <1>12
  <2> QED
      BY <1>2, <1>6, <1>7, <1>12
<1>13. CASE /\ Len(recs'[a]) <= Len(recs[a])
            /\ t \notin Removers(a) /\ Removers(a)' = Removers(a) \cup {t}
      BY <1>1, <1>2, <1>3, <1>6, <1>7, <1>13
<1>14. CASE /\ Len(recs'[a]) <= Len(recs[a]) - 1 \/ Len(recs'[a]) = 0
            /\ Removers(a)' = Removers(a)
      BY <1>1, <1>2, <1>6, <1>7, <1>14
<1>15. CASE /\ Len(recs'[a]) <= Len(recs[a]) - 1 \/ Len(recs'[a]) = 0
            /\ t \in Removers(a) /\ Removers(a)' = Removers(a) \ {t}
            /\ MayHaveRecord(a) => MayHaveRecord(a)'
  <2>1. m <= n
        BY <1>9, <1>10, <1>15
  <2> QED
      BY <1>1, <1>2, <1>4, <1>5, <1>6, <1>7, <1>15, <2>1
<1> QED
    BY <1>11, <1>12, <1>13, <1>14, <1>15

\* An address that a call has in its hands is in use.
LEMMA InHand ==
    ASSUME BaseInv, NEW s \in Threads, NEW a \in Addrs,
           \/ at[s] \in {"origin", "remove"} /\ Releasing(s) /\ req[s].ptr = a
           \/ at[s] \in {"remove", "insert", "return"} /\ ret[s] = a
    PROVE  live[a] # NULL /\ a \notin held /\ Owned(s) = a
<1>1. Owned(s) = a
      BY ProxyAssumption DEF BaseInv, CallInv, Owned, Releasing
<1> QED
    BY <1>1, ProxyAssumption DEF BaseInv, OwnInv

\* What was not monitored has no record.
LEMMA Unrecordable ==
    ASSUME BaseInv, NEW t \in Threads, at[t] = "origin", req[t].ptr \in Addrs, ~ req[t].proxied
    PROVE  ~ MayHaveRecord(req[t].ptr) /\ ~ live[req[t].ptr].recorded
<1>1. live[req[t].ptr].sort = SortFor(req[t].kind) /\ live[req[t].ptr] # NULL
      BY ProxyAssumption, InHand DEF BaseInv, SortInv, Releasing
<1>2. req[t].kind \in {"realloc", "munmap", "pthread_exit"}
      BY ProxyAssumption DEF BaseInv, CallInv, ProxiedInv, Kinds, SizedKinds
<1>3. /\ live[req[t].ptr].sort = "heap" => ~ isPss
      /\ live[req[t].ptr].sort # "heap" => ~ isVss
      /\ live[req[t].ptr].sort \in {"heap", "map"}
      BY <1>1, <1>2 DEF BaseInv, ProxiedInv, SortFor
<1> QED
    BY <1>1, <1>3 DEF MayHaveRecord, BaseInv, SortInv

\* Every step keeps the bound, although memory is released before its record
\* is removed, and the address may be in use again by then.
LEMMA CountNext == BaseInv /\ BaseInv' /\ CountInv /\ [ProxyNext]_proxyVars => CountInv'
<1> SUFFICES ASSUME BaseInv, BaseInv', CountInv, [ProxyNext]_proxyVars, NEW a \in Addrs
             PROVE  Bounded(a)'
    BY DEF CountInv
<1> USE DEF config, At
<1>a. /\ a # NULL /\ NULL \notin Alloc /\ Sizes \subseteq Nat /\ limit \in Nat
      /\ Bounded(a) /\ TypeInv /\ TypeInv' /\ Len(recs[a]) \in Nat
      BY ProxyAssumption DEF BaseInv, CountInv
<1>1. ASSUME NEW t \in Threads, NEW kind \in Kinds, NEW ptr \in Addrs \cup {NULL},
             NEW size \in Sizes, Enter(t, kind, ptr, size)
      PROVE  Bounded(a)'
  <2>1. at[t] = "idle" /\ ret[t] = NULL /\ ~ guard[t] /\ req'[t].kind = kind
        BY <1>1 DEF Enter, BaseInv, CallInv, TypeInv
  <2>2. at'[t] \in {"origin", "remove"} /\ (at'[t] = "remove" => kind = "pthread_exit")
        BY <1>1 DEF Enter, BaseInv, TypeInv
  <2>3. ~ (at'[t] = "origin" /\ kind = "pthread_exit" /\ req'[t].proxied)
    <3>1. ASSUME kind = "pthread_exit", at'[t] = "origin" PROVE ~ isVss
      <4>1. Proxied(t, kind, ptr, size) <=> isVss
            BY <1>a, <2>1, <3>1, ProxiedBy
      <4>2. isVss => at'[t] = "remove"
            BY <1>1, <3>1, <4>1 DEF Enter
      <4> QED
          BY <3>1, <4>2
    <3>2. kind = "pthread_exit" => (req'[t].proxied <=> isVss)
          BY <1>1, <2>1 DEF Enter, BaseInv, ProxiedInv
    <3> QED
        BY <3>1, <3>2
  <2>4. /\ \A s \in Threads \ {t} : at'[s] = at[s] /\ req'[s] = req[s]
        /\ UNCHANGED <<recs, live, ret, isPss, isVss>>
        BY <1>1 DEF Enter
  <2>5. Removers(a)' = Removers(a)
        BY <2>1, <2>2, <2>4 DEF Removers
  <2>6. MayHaveRecord(a) => MayHaveRecord(a)'
        BY <1>a, <2>1, <2>3, <2>4 DEF MayHaveRecord
  <2> QED
      BY <1>a, <2>4, <2>5, <2>6, BoundedStep
<1>2. ASSUME NEW t \in Threads, OriginAllocates(t) PROVE Bounded(a)'
  <2>1. PICK b \in Addrs :
            /\ live[b] = NULL /\ ret'[t] = b
            /\ \A d \in Addrs \ {b} : live'[d] = live[d]
        BY <1>2 DEF OriginAllocates, Available, BaseInv, TypeInv
  <2>2. /\ at[t] = "origin" /\ at'[t] \in {"insert", "return"} /\ req[t].kind # "pthread_exit"
        /\ \A s \in Threads \ {t} : at'[s] = at[s] /\ ret'[s] = ret[s]
        /\ UNCHANGED <<recs, req, isPss, isVss>>
        BY <1>2 DEF OriginAllocates, After, BaseInv, TypeInv, HeapKinds
  <2>3. Removers(a)' = Removers(a)
        BY <2>2 DEF Removers
  <2>4. MayHaveRecord(a) => MayHaveRecord(a)'
        BY <2>1, <2>2 DEF MayHaveRecord
  <2> QED
      BY <1>a, <2>2, <2>3, <2>4, BoundedStep
<1>3. ASSUME NEW t \in Threads, OriginFails(t) PROVE Bounded(a)'
  <2>1. /\ at[t] = "origin" /\ at'[t] = "return"
        /\ \A s \in Threads \ {t} : at'[s] = at[s] /\ ret'[s] = ret[s]
        /\ UNCHANGED <<recs, live, req, isPss, isVss>>
        BY <1>3 DEF OriginFails, BaseInv, TypeInv
  <2>2. Removers(a)' = Removers(a)
        BY <2>1 DEF Removers
  <2>3. MayHaveRecord(a) => MayHaveRecord(a)'
        BY <2>1 DEF MayHaveRecord
  <2> QED
      BY <1>a, <2>1, <2>2, <2>3, BoundedStep
<1>4. ASSUME NEW t \in Threads, OriginReleases(t) PROVE Bounded(a)'
  <2>1. /\ at[t] = "origin" /\ at' = [at EXCEPT ![t] = IF req[t].proxied THEN "remove" ELSE "return"]
        /\ req[t].kind # "pthread_exit" /\ ret[t] = NULL
        /\ UNCHANGED <<recs, req, ret, isPss, isVss>>
        /\ \A d \in Addrs : d # req[t].ptr => live'[d] = live[d]
        BY <1>4 DEF OriginReleases, After, BaseInv, CallInv
  <2>2. /\ \A s \in Threads \ {t} : at'[s] = at[s]
        /\ at'[t] \in {"remove", "return"} /\ (at'[t] = "remove" <=> req[t].proxied)
        BY <2>1 DEF BaseInv, TypeInv
  <2>3. CASE req[t].ptr = a
    <3>1. CASE req[t].proxied
      <4>1. t \notin Removers(a) /\ Removers(a)' = Removers(a) \cup {t}
            BY <2>1, <2>2, <2>3, <3>1 DEF Removers
      <4> QED
          BY <1>a, <2>1, <4>1, BoundedStep
    <3>2. CASE ~ req[t].proxied
      <4>1. Removers(a)' = Removers(a)
            BY <2>1, <3>2 DEF Removers
      <4>2. ~ MayHaveRecord(a)
            BY <2>1, <2>3, <3>2, Unrecordable
      <4> QED
          BY <1>a, <2>1, <4>1, <4>2, BoundedStep
    <3> QED
        BY <3>1, <3>2
  <2>4. CASE req[t].ptr # a
    <3>1. Removers(a)' = Removers(a)
          BY <2>1, <2>4 DEF Removers
    <3>2. MayHaveRecord(a) => MayHaveRecord(a)'
          BY <1>a, <2>1, <2>4 DEF MayHaveRecord
    <3> QED
        BY <1>a, <2>1, <3>1, <3>2, BoundedStep
  <2> QED
      BY <2>3, <2>4
<1>5. ASSUME NEW t \in Threads, OriginExits(t) PROVE Bounded(a)'
  <2>1. /\ at[t] = "origin" /\ at'[t] = "idle" /\ req[t].kind = "pthread_exit"
        /\ \A s \in Threads \ {t} : at'[s] = at[s] /\ req'[s] = req[s]
        /\ UNCHANGED <<recs, ret, isPss, isVss>>
        /\ \A d \in Addrs : d # req[t].ptr => live'[d] = live[d]
        BY <1>5 DEF OriginExits, BaseInv, TypeInv
  <2>2. Removers(a)' = Removers(a)
        BY <2>1 DEF Removers
  <2>3. req[t].ptr = a => ~ MayHaveRecord(a)
    <3>1. req[t].ptr = a /\ req[t].proxied => ~ MayHaveRecord(a)
          BY <2>1 DEF MayHaveRecord
    <3> QED
        BY <2>1, <3>1, Unrecordable
  <2>4. MayHaveRecord(a) => MayHaveRecord(a)'
        BY <2>1, <2>3 DEF MayHaveRecord
  <2> QED
      BY <1>a, <2>1, <2>2, <2>4, BoundedStep
<1>6. ASSUME NEW t \in Threads, OriginResizes(t) PROVE Bounded(a)'
  <2>1. PICK b \in Addrs :
            /\ live[b] = NULL \/ b = req[t].ptr
            /\ ret'[t] = b
            /\ \A d \in Addrs \ {b, req[t].ptr} : live'[d] = live[d]
        BY <1>6 DEF OriginResizes, Available, BaseInv, TypeInv
  <2>2. /\ at[t] = "origin" /\ req[t].kind = "realloc" /\ req[t].ptr \in Addrs
        /\ \A s \in Threads \ {t} : at'[s] = at[s] /\ ret'[s] = ret[s]
        /\ at'[t] \in {"remove", "return"} /\ (at'[t] = "remove" <=> req[t].proxied)
        /\ UNCHANGED <<recs, req, isPss, isVss>>
        BY <1>6 DEF OriginResizes, After, BaseInv, TypeInv, Call
  <2>3. CASE req[t].ptr = a
    <3>1. CASE req[t].proxied
      <4>1. t \notin Removers(a) /\ Removers(a)' = Removers(a) \cup {t}
            BY <2>2, <2>3, <3>1 DEF Removers
      <4> QED
          BY <1>a, <2>2, <4>1, BoundedStep
    <3>2. CASE ~ req[t].proxied
      <4>1. Removers(a)' = Removers(a)
            BY <2>2, <3>2 DEF Removers
      <4>2. ~ MayHaveRecord(a)
            BY <2>2, <2>3, <3>2, Unrecordable
      <4> QED
          BY <1>a, <2>2, <4>1, <4>2, BoundedStep
    <3> QED
        BY <3>1, <3>2
  <2>4. CASE req[t].ptr # a
    <3>1. Removers(a)' = Removers(a)
          BY <2>2, <2>4 DEF Removers
    <3>2. MayHaveRecord(a) => MayHaveRecord(a)'
          BY <2>1, <2>2, <2>4 DEF MayHaveRecord
    <3> QED
        BY <1>a, <2>2, <3>1, <3>2, BoundedStep
  <2> QED
      BY <2>3, <2>4
<1>7. ASSUME NEW t \in Threads, OriginMaps(t) PROVE Bounded(a)'
  <2>1. PICK b \in Addrs, s \in Sizes :
            /\ live[b] = NULL
            /\ live' = [live EXCEPT ![b] = [sort |-> "arena", size |-> s,
                                            recorded |-> isVss /\ ~ req[t].proxied]]
            /\ \/ recs' = recs
               \/ recs' = [recs EXCEPT ![b] = <<s % UintRange>> \o @]
        BY <1>7 DEF OriginMaps, Available
  <2>2. UNCHANGED <<at, req, ret, isPss, isVss>>
        BY <1>7 DEF OriginMaps
  <2>3. Removers(a)' = Removers(a)
        BY <2>2 DEF Removers
  <2>4. CASE a = b
    <3>1. Len(recs'[a]) <= Len(recs[a]) + 1
          BY <1>a, <2>1, <2>4 DEF TypeInv
    <3>2. live'[a] # NULL /\ live'[a].sort = "arena"
      <4> DEFINE r == [sort |-> "arena", size |-> s, recorded |-> isVss /\ ~ req[t].proxied]
      <4>1. (isVss /\ ~ req[t].proxied) \in BOOLEAN
            OBVIOUS
      <4>2. r \in Alloc
            BY DEF Alloc
      <4> QED
          BY <1>a, <2>1, <2>4, <4>2 DEF TypeInv
    <3>3. \A s1 \in Threads :
             /\ at[s1] = "insert" => ret[s1] # a
             /\ at[s1] = "remove" => ret[s1] # a
             /\ at[s1] = "origin" => req[s1].ptr # a
          BY <2>1, <2>4, InHand DEF Releasing
    <3>4. ~ MayHaveRecord(a) /\ MayHaveRecord(a)'
          BY <2>1, <2>2, <2>4, <3>2, <3>3 DEF MayHaveRecord
    <3> QED
        BY <1>a, <2>3, <3>1, <3>4, BoundedStep
  <2>5. CASE a # b
    <3>1. recs'[a] = recs[a] /\ live'[a] = live[a]
          BY <1>a, <2>1, <2>5 DEF TypeInv
    <3>2. MayHaveRecord(a) => MayHaveRecord(a)'
          BY <2>2, <3>1 DEF MayHaveRecord
    <3> QED
        BY <1>a, <2>3, <3>1, <3>2, BoundedStep
  <2> QED
      BY <2>4, <2>5
<1>8. ASSUME NEW t \in Threads, CacheRemove(t) PROVE Bounded(a)'
  <2>1. /\ at[t] = "remove" /\ req[t].ptr \in Addrs
        /\ \A s \in Threads \ {t} : at'[s] = at[s]
        /\ UNCHANGED <<live, req, ret, isPss, isVss>>
        /\ at'[t] \in {"origin", "insert", "return"} /\ (at'[t] = "origin" <=> req[t].kind = "pthread_exit")
        BY <1>8 DEF CacheRemove, BaseInv, TypeInv
  <2>2. /\ \A d \in Addrs : d # req[t].ptr => recs'[d] = recs[d]
        /\ Len(recs'[req[t].ptr]) <= Len(recs[req[t].ptr]) - 1 \/ Len(recs'[req[t].ptr]) = 0
    <3>1. /\ recs[req[t].ptr] = <<>> => recs'[req[t].ptr] = <<>>
          /\ recs[req[t].ptr] # <<>> => recs'[req[t].ptr] = Tail(recs[req[t].ptr])
          /\ \A d \in Addrs : d # req[t].ptr => recs'[d] = recs[d]
          BY <1>8, <1>a DEF CacheRemove, TypeInv
    <3>2. recs[req[t].ptr] # <<>> => Len(Tail(recs[req[t].ptr])) = Len(recs[req[t].ptr]) - 1
          OBVIOUS
    <3>3. Len(recs[req[t].ptr]) \in Nat /\ Len(<<>>) = 0
          BY <1>a, <2>1 DEF TypeInv
    <3>4. CASE recs[req[t].ptr] = <<>>
          BY <3>1, <3>4
    <3>5. CASE recs[req[t].ptr] # <<>>
      <4>1. Len(recs'[req[t].ptr]) = Len(recs[req[t].ptr]) - 1
            BY <3>1, <3>2, <3>5, Zenon
      <4> QED
          BY <3>1, <4>1
    <3> QED
        BY <3>4, <3>5
  <2>3. CASE req[t].kind = "pthread_exit"
    <3>1. Removers(a)' = Removers(a)
          BY <2>1, <2>3 DEF Removers
    <3>2. req[t].ptr # a => (MayHaveRecord(a) => MayHaveRecord(a)')
          BY <2>1 DEF MayHaveRecord
    <3> QED
        BY <1>a, <2>2, <3>1, <3>2, BoundedStep
  <2>4. CASE req[t].kind # "pthread_exit"
    <3>1. MayHaveRecord(a) => MayHaveRecord(a)'
          BY <2>1, <2>4 DEF MayHaveRecord
    <3>2. CASE req[t].ptr = a
      <4>1. t \in Removers(a) /\ Removers(a)' = Removers(a) \ {t}
            BY <2>1, <2>4, <3>2 DEF Removers
      <4> QED
          BY <1>a, <2>2, <3>1, <3>2, <4>1, BoundedStep
    <3>3. CASE req[t].ptr # a
      <4>1. Removers(a)' = Removers(a)
            BY <2>1, <3>3 DEF Removers
      <4> QED
          BY <1>a, <2>2, <3>1, <4>1, BoundedStep
    <3> QED
        BY <3>2, <3>3
  <2> QED
      BY <2>3, <2>4
<1>9. ASSUME NEW t \in Threads, CacheInsert(t) PROVE Bounded(a)'
  <2>1. /\ at[t] = "insert" /\ at'[t] = "return" /\ ret[t] \in Addrs
        /\ \A s \in Threads \ {t} : at'[s] = at[s]
        /\ UNCHANGED <<live, req, ret, isPss, isVss>>
        /\ req[t].proxied /\ req[t].kind \in SizedKinds
        BY <1>9 DEF CacheInsert, BaseInv, CallInv, TypeInv
  <2>2. Removers(a)' = Removers(a)
        BY <2>1 DEF Removers
  <2>3. CASE ret[t] = a
    <3>1. Len(recs'[a]) <= Len(recs[a]) + 1
          BY <1>9 DEF CacheInsert
    <3>2. ~ MayHaveRecord(a)
          BY <2>1, <2>3 DEF MayHaveRecord
    <3>3. Owned(t) = a /\ live[a] # NULL
          BY <2>1, <2>3, InHand
    <3>4. \A s \in Threads \ {t} : Owned(s) # a
          BY <1>a, <3>3 DEF BaseInv, OwnInv
    <3>5. \A s \in Threads \ {t} :
             /\ at[s] = "insert" => ret[s] # a
             /\ at[s] = "remove" => ret[s] # a
             /\ at[s] = "origin" => req[s].ptr # a
          BY <3>4, InHand DEF Releasing
    <3>6. (live[a].sort = "heap" => isPss) /\ (live[a].sort = "map" => isVss)
      <4>1. live[a].sort = SortFor(req[t].kind)
            BY <1>a, <2>1, <2>3 DEF BaseInv, SortInv
      <4> QED
          BY <2>1, <4>1 DEF BaseInv, ProxiedInv, SortFor, SizedKinds
    <3>7. MayHaveRecord(a)'
          BY <2>1, <3>3, <3>5, <3>6 DEF MayHaveRecord
    <3> QED
        BY <1>a, <2>2, <3>1, <3>2, <3>7, BoundedStep
  <2>4. CASE ret[t] # a
    <3>1. recs'[a] = recs[a]
          BY <1>9, <2>4 DEF CacheInsert
    <3>2. MayHaveRecord(a) => MayHaveRecord(a)'
          BY <2>1 DEF MayHaveRecord
    <3> QED
        BY <1>a, <2>2, <3>1, <3>2, BoundedStep
  <2> QED
      BY <2>3, <2>4
<1>10. ASSUME NEW t \in Threads, Leave(t) PROVE Bounded(a)'
  <2>1. /\ at[t] = "return" /\ at'[t] = "idle"
        /\ \A s \in Threads \ {t} : at'[s] = at[s] /\ ret'[s] = ret[s] /\ req'[s] = req[s]
        /\ UNCHANGED <<recs, live, isPss, isVss>>
        BY <1>10 DEF Leave, BaseInv, TypeInv
  <2>2. Removers(a)' = Removers(a)
        BY <2>1 DEF Removers
  <2>3. MayHaveRecord(a) => MayHaveRecord(a)'
        BY <2>1 DEF MayHaveRecord
  <2> QED
      BY <1>a, <2>1, <2>2, <2>3, BoundedStep
<1>11. ASSUME UNCHANGED proxyVars PROVE Bounded(a)'
  <2>1. Removers(a)' = Removers(a) /\ (MayHaveRecord(a) => MayHaveRecord(a)') /\ recs' = recs
        BY <1>11 DEF proxyVars, Removers, MayHaveRecord
  <2> QED
      BY <1>a, <2>1, BoundedStep
<1> QED
    BY <1>1, <1>2, <1>3, <1>4, <1>5, <1>6, <1>7, <1>8, <1>9, <1>10, <1>11
    DEF ProxyNext, ProxyStep

-----------------------------------------------------------------------------
(* With withheld addresses, the records are exact. *)

\* An address that may be handed out is nobody's.
LEMMA AvailableFree ==
    ASSUME BaseInv, withheld, NEW a \in Available
    PROVE  a \in Addrs /\ live[a] = NULL /\ a \notin held /\ \A s \in Threads : a \notin Concern(s)
<1>1. a \in Addrs /\ live[a] = NULL /\ a # NULL /\ a \notin held
      BY ProxyAssumption DEF Available, BaseInv, OwnInv
<1>2. ASSUME NEW s \in Threads, ret[s] = a PROVE FALSE
  <2>1. at[s] \in {"remove", "insert", "return"}
        BY <1>1, <1>2 DEF BaseInv, CallInv, TypeInv
  <2> QED
      BY <1>1, <1>2, <2>1, InHand
<1> QED
    BY <1>1, <1>2 DEF Available, Concern

\* Calls stay apart: an address passes from the application to one call and
\* back, and a new one is nobody's.
LEMMA ApartNext ==
    BaseInv /\ BaseInv' /\ withheld /\ ApartInv /\ [ProxyNext]_proxyVars => ApartInv'
<1> SUFFICES ASSUME BaseInv, BaseInv', withheld, ApartInv, [ProxyNext]_proxyVars
             PROVE  ApartInv'
    OBVIOUS
<1> USE DEF config, At
<1>a. /\ NULL \notin Addrs /\ TypeInv /\ TypeInv'
      BY ProxyAssumption DEF BaseInv
<1>b. /\ \A s \in Threads : Concern(s) \cap held = {}
      /\ \A s, u \in Threads : s # u => Concern(s) \cap Concern(u) = {}
      /\ \A s \in Threads : at[s] = "remove" /\ req[s].kind # "pthread_exit" /\ req[s].ptr # ret[s]
            => live[req[s].ptr] = NULL
      BY DEF ApartInv
<1>1. ASSUME NEW t \in Threads, NEW kind \in Kinds, NEW ptr \in Addrs \cup {NULL},
             NEW size \in Sizes, Enter(t, kind, ptr, size)
      PROVE  ApartInv'
  <2>1. /\ req'[t].ptr = ptr /\ req'[t].kind = kind /\ ret'[t] = NULL
        /\ at'[t] = "remove" => kind = "pthread_exit"
        /\ \A s \in Threads \ {t} : req'[s] = req[s] /\ at'[s] = at[s]
        /\ UNCHANGED <<live, ret>> /\ held' = held \ {ptr}
        BY <1>1 DEF Enter, BaseInv, CallInv, TypeInv
  <2>2. Concern(t)' \subseteq {ptr} \ {NULL} /\ \A s \in Threads \ {t} : Concern(s)' = Concern(s)
        BY <2>1 DEF Concern
  <2>3. ptr # NULL => ptr \in held
        BY <1>1, Passed DEF Enter
  <2>4. \A s \in Threads \ {t} : ptr # NULL => ptr \notin Concern(s)
        BY <1>b, <2>3
  <2> QED
      BY <2>1, <2>2, <2>4 DEF ApartInv
<1>2. ASSUME NEW t \in Threads, OriginAllocates(t) \/ OriginResizes(t) PROVE ApartInv'
  <2>1. PICK a \in Available \cup {req[t].ptr} :
            /\ a \in Addrs /\ ret'[t] = a
            /\ \A d \in Addrs : live[d] = NULL /\ d # a => live'[d] = NULL
            /\ at'[t] = "remove" /\ req[t].ptr # a => live'[req[t].ptr] = NULL
    <3>1. CASE OriginAllocates(t)
      <4>1. PICK a \in Available :
                /\ ret' = [ret EXCEPT ![t] = a]
                /\ live' = [live EXCEPT ![a] = Allocation(t, IF req[t].kind = "mmap" THEN "map" ELSE "heap")]
            BY <3>1 DEF OriginAllocates
      <4>2. a \in Addrs /\ ret'[t] = a /\ \A d \in Addrs : d # a => live'[d] = live[d]
            BY <1>a, <4>1 DEF TypeInv
      <4>3. at'[t] # "remove"
            BY <3>1 DEF OriginAllocates, After
      <4> QED
          BY <4>2, <4>3
    <3>2. CASE OriginResizes(t)
      <4>1. PICK a \in Available \cup {req[t].ptr} :
                /\ ret' = [ret EXCEPT ![t] = a]
                /\ live' = [[live EXCEPT ![req[t].ptr] = NULL] EXCEPT ![a] = Allocation(t, "heap")]
            BY <3>2 DEF OriginResizes
      <4>2. req[t].ptr \in Addrs /\ a \in Addrs /\ ret'[t] = a
            BY <1>a, <3>2, <4>1 DEF OriginResizes, TypeInv, Call
      <4>3. /\ \A d \in Addrs : live[d] = NULL /\ d # a => live'[d] = NULL
            /\ req[t].ptr # a => live'[req[t].ptr] = NULL
            BY <1>a, <4>1, <4>2 DEF TypeInv
      <4> QED
          BY <4>2, <4>3
    <3> QED
        BY <1>2, <3>1, <3>2
  <2>2. /\ UNCHANGED <<req, held>>
        /\ \A s \in Threads \ {t} : at'[s] = at[s] /\ ret'[s] = ret[s]
        /\ ret[t] = NULL
        BY <1>2, <1>a
        DEF OriginAllocates, OriginResizes, After, BaseInv, CallInv, TypeInv
  <2>3. a \notin held /\ \A s \in Threads \ {t} : a \notin Concern(s)
    <3>1. CASE a \in Available
          BY <3>1, AvailableFree
    <3>2. CASE a = req[t].ptr
          BY <1>a, <1>b, <2>1, <3>2 DEF Concern
    <3> QED
        BY <3>1, <3>2
  <2>4. /\ Concern(t)' \subseteq Concern(t) \cup {a}
        /\ \A s \in Threads \ {t} : Concern(s)' = Concern(s)
        BY <2>1, <2>2 DEF Concern
  <2>5. \A s \in Threads \ {t} : at[s] = "remove" => req[s].ptr \in Addrs /\ req[s].ptr # a
        BY <2>3 DEF BaseInv, CallInv, TypeInv, Call, Concern
  <2>6. \A s \in Threads : at'[s] = "remove" /\ req'[s].kind # "pthread_exit" /\ req'[s].ptr # ret'[s]
            => live'[req'[s].ptr] = NULL
        BY <1>b, <2>1, <2>2, <2>5
  <2> QED
      BY <2>2, <2>3, <2>4, <2>6 DEF ApartInv
<1>3. ASSUME NEW t \in Threads, OriginFails(t) PROVE ApartInv'
  <2>1. /\ UNCHANGED <<req, held, live>> /\ ret'[t] = req[t].ptr /\ at'[t] = "return"
        /\ \A s \in Threads \ {t} : at'[s] = at[s] /\ ret'[s] = ret[s]
        BY <1>3, <1>a DEF OriginFails, TypeInv
  <2>2. Concern(t)' \subseteq Concern(t) /\ \A s \in Threads \ {t} : Concern(s)' = Concern(s)
        BY <2>1 DEF Concern
  <2> QED
      BY <2>1, <2>2 DEF ApartInv
<1>4. ASSUME NEW t \in Threads, OriginReleases(t) PROVE ApartInv'
  <2>1. /\ UNCHANGED <<req, held, ret>>
        /\ \A s \in Threads \ {t} : at'[s] = at[s]
        /\ \A d \in Addrs : live[d] = NULL => live'[d] = NULL
        /\ req[t].ptr # NULL => live'[req[t].ptr] = NULL
        BY <1>4, <1>a DEF OriginReleases, After, TypeInv
  <2>2. \A s \in Threads : Concern(s)' = Concern(s)
        BY <2>1 DEF Concern
  <2>3. \A s \in Threads : at'[s] = "remove" => req[s].ptr \in Addrs
        BY <2>1 DEF BaseInv, CallInv, TypeInv, Call
  <2> QED
      BY <1>a, <2>1, <2>2, <2>3 DEF ApartInv
<1>5. ASSUME NEW t \in Threads, OriginExits(t) PROVE ApartInv'
  <2>1. /\ UNCHANGED <<held, ret>> /\ at'[t] = "idle" /\ req'[t].ptr = NULL /\ ret[t] = NULL
        /\ \A s \in Threads \ {t} : at'[s] = at[s] /\ req'[s] = req[s]
        /\ \A d \in Addrs : live[d] = NULL => live'[d] = NULL
        BY <1>5 DEF OriginExits, TypeInv, BaseInv, CallInv, NoCall
  <2>2. Concern(t)' = {} /\ \A s \in Threads \ {t} : Concern(s)' = Concern(s)
        BY <2>1 DEF Concern
  <2>3. \A s \in Threads : at'[s] = "remove" => req'[s].ptr \in Addrs
        BY DEF BaseInv, CallInv, TypeInv, Call
  <2> QED
      BY <2>1, <2>2, <2>3 DEF ApartInv
<1>6. ASSUME NEW t \in Threads, OriginMaps(t) PROVE ApartInv'
  <2>1. PICK a \in Available : \A d \in Addrs : d # a => live'[d] = live[d]
        BY <1>6 DEF OriginMaps
  <2>2. UNCHANGED <<held, ret, req, at>>
        BY <1>6 DEF OriginMaps
  <2>3. \A s \in Threads : Concern(s)' = Concern(s)
        BY <2>2 DEF Concern
  <2>4. \A s \in Threads : at[s] = "remove" => req[s].ptr \in Addrs /\ req[s].ptr # a
        BY AvailableFree DEF BaseInv, CallInv, TypeInv, Call, Concern
  <2> QED
      BY <2>1, <2>2, <2>3, <2>4 DEF ApartInv
<1>7. ASSUME NEW t \in Threads, CacheRemove(t) \/ CacheInsert(t) PROVE ApartInv'
  <2>1. /\ UNCHANGED <<held, ret, req, live>> /\ at'[t] # "remove"
        /\ \A s \in Threads \ {t} : at'[s] = at[s]
        BY <1>7, <1>a DEF CacheRemove, CacheInsert, TypeInv
  <2>2. \A s \in Threads : Concern(s)' = Concern(s)
        BY <2>1 DEF Concern
  <2> QED
      BY <2>1, <2>2 DEF ApartInv
<1>8. ASSUME NEW t \in Threads, Leave(t) PROVE ApartInv'
  <2>1. /\ held' = held \cup ({ret[t]} \ {NULL}) /\ UNCHANGED live
        /\ at'[t] = "idle" /\ req'[t].ptr = NULL /\ ret'[t] = NULL
        /\ \A s \in Threads \ {t} : at'[s] = at[s] /\ req'[s] = req[s] /\ ret'[s] = ret[s]
        BY <1>8, <1>a DEF Leave, TypeInv, NoCall
  <2>2. Concern(t)' = {} /\ \A s \in Threads \ {t} : Concern(s)' = Concern(s)
        BY <2>1 DEF Concern
  <2>3. {ret[t]} \ {NULL} \subseteq Concern(t)
        BY DEF Concern
  <2> QED
      BY <2>1, <2>2, <2>3 DEF ApartInv
<1>9. ASSUME UNCHANGED proxyVars PROVE ApartInv'
      BY <1>9 DEF proxyVars, ApartInv, Concern
<1> QED
    BY <1>1, <1>2, <1>3, <1>4, <1>5, <1>6, <1>7, <1>8, <1>9
    DEF ProxyNext, ProxyStep

\* A call with business at an address is concerned with it.
LEMMA BusyConcern ==
    ASSUME NEW s \in Threads, NEW a \in Addrs, a \notin Concern(s)
    PROVE  ~ Stale(s, a) /\ ~ Pending(s, a)
BY ProxyAssumption DEF Concern, Stale, Pending

\* What Exact(a) says when only t may have business at a.
LEMMA ExactMine ==
    ASSUME NEW t \in Threads, NEW a \in Addrs, Exact(a),
           \A s \in Threads \ {t} : a \notin Concern(s)
    PROVE  /\ ~ Stale(t, a) /\ ~ Pending(t, a) => recs[a] = Record(a)
           /\ Stale(t, a) => Len(recs[a]) <= 1
           /\ Pending(t, a) => recs[a] = <<>>
BY BusyConcern DEF Exact

\* And what is to be shown of it after a step of t.
LEMMA ExactAlone ==
    ASSUME NEW t \in Threads, NEW a \in Addrs,
           \A s \in Threads \ {t} : a \notin Concern(s)',
           (~ Stale(t, a) /\ ~ Pending(t, a))' => recs'[a] = Record(a)',
           Stale(t, a)' => Len(recs'[a]) <= 1,
           Pending(t, a)' => recs'[a] = <<>>
    PROVE  Exact(a)'
<1>1. \A s \in Threads \ {t} : ~ Stale(s, a)' /\ ~ Pending(s, a)'
      BY ProxyAssumption DEF Concern, Stale, Pending
<1> QED
    BY <1>1 DEF Exact

\* A step of t leaves alone the addresses that are not its concern.
LEMMA ExactFrame ==
    ASSUME NEW t \in Threads, NEW a \in Addrs, Exact(a),
           a \notin Concern(t), a \notin Concern(t)',
           \A s \in Threads \ {t} : at'[s] = at[s] /\ req'[s] = req[s] /\ ret'[s] = ret[s],
           recs'[a] = recs[a], live'[a] = live[a]
    PROVE  Exact(a)'
<1>1. ~ Stale(t, a) /\ ~ Pending(t, a) /\ ~ Stale(t, a)' /\ ~ Pending(t, a)'
      BY ProxyAssumption DEF Concern, Stale, Pending
<1>2. \A s \in Threads : (Stale(s, a)' <=> Stale(s, a)) /\ (Pending(s, a)' <=> Pending(s, a))
      BY <1>1 DEF Stale, Pending
<1>3. Record(a)' = Record(a)
      BY DEF Record
<1> QED
    BY <1>2, <1>3 DEF Exact

\* Every step keeps the records exact, but for the addresses of its own call.
LEMMA ExactNext ==
    /\ SizesFit /\ BaseInv /\ BaseInv' /\ withheld /\ ApartInv /\ ApartInv' /\ ExactInv
    /\ [ProxyNext]_proxyVars
    => ExactInv'
<1> SUFFICES ASSUME SizesFit, BaseInv, BaseInv', withheld, ApartInv, ApartInv', ExactInv,
                    [ProxyNext]_proxyVars, NEW a \in Addrs
             PROVE  Exact(a)'
    BY DEF ExactInv
<1> USE DEF config, At
<1>a. /\ a # NULL /\ NULL \notin Addrs /\ NULL \notin Alloc /\ Sizes \subseteq Nat /\ limit \in Nat
      /\ UintRange \in Nat \ {0} /\ Exact(a) /\ TypeInv /\ TypeInv'
      BY ProxyAssumption DEF BaseInv, ExactInv
<1>b. \A s \in Sizes : s % UintRange = s
      BY <1>a DEF SizesFit
<1>c. \A t \in Threads : a \in Concern(t) => \A s \in Threads \ {t} : a \notin Concern(s)
      BY DEF ApartInv
<1>d. \A t \in Threads : a \in Concern(t)' => \A s \in Threads \ {t} : a \notin Concern(s)'
      BY DEF ApartInv
<1>1. ASSUME NEW t \in Threads, NEW kind \in Kinds, NEW ptr \in Addrs \cup {NULL},
             NEW size \in Sizes, Enter(t, kind, ptr, size)
      PROVE  Exact(a)'
  <2>1. /\ at[t] = "idle" /\ req[t] = NoCall /\ ret[t] = NULL /\ ~ guard[t]
        /\ at'[t] \in {"origin", "remove"} /\ req'[t].ptr = ptr /\ req'[t].kind = kind
        /\ at'[t] = "remove" => kind = "pthread_exit"
        /\ UNCHANGED <<live, recs, ret>>
        /\ \A s \in Threads \ {t} : at'[s] = at[s] /\ req'[s] = req[s] /\ ret'[s] = ret[s]
        BY <1>1 DEF Enter, BaseInv, CallInv, TypeInv
  <2>2. ~ (at'[t] = "origin" /\ kind = "pthread_exit" /\ req'[t].proxied)
    <3>1. ASSUME kind = "pthread_exit", at'[t] = "origin" PROVE ~ isVss
      <4>1. Proxied(t, kind, ptr, size) <=> isVss
            BY <1>a, <2>1, <3>1, ProxiedBy
      <4>2. isVss => at'[t] = "remove"
            BY <1>1, <3>1, <4>1 DEF Enter
      <4> QED
          BY <3>1, <4>2
    <3>2. kind = "pthread_exit" => (req'[t].proxied <=> isVss)
          BY <1>1, <2>1 DEF Enter, BaseInv, ProxiedInv
    <3> QED
        BY <3>1, <3>2
  <2>3. ~ Stale(t, a)' /\ ~ Pending(t, a)'
        BY <1>a, <2>1, <2>2 DEF Stale, Pending
  <2>4. ~ Stale(t, a) /\ ~ Pending(t, a)
        BY <2>1 DEF Stale, Pending
  <2>5. \A s \in Threads : (Stale(s, a)' <=> Stale(s, a)) /\ (Pending(s, a)' <=> Pending(s, a))
        BY <2>1, <2>3 DEF Stale, Pending
  <2> QED
      BY <1>a, <2>1, <2>5 DEF Exact, Record
<1>2. ASSUME NEW t \in Threads, OriginAllocates(t) PROVE Exact(a)'
  <2>1. PICK b \in Available :
            /\ ret' = [ret EXCEPT ![t] = b]
            /\ live' = [live EXCEPT ![b] = Allocation(t, IF req[t].kind = "mmap" THEN "map" ELSE "heap")]
        BY <1>2 DEF OriginAllocates
  <2>2. /\ b \in Addrs /\ live[b] = NULL /\ \A s \in Threads : b \notin Concern(s)
        BY AvailableFree
  <2>3. /\ req[t].ptr = NULL /\ ret[t] = NULL /\ req' = req /\ recs' = recs
        /\ ret'[t] = b /\ \A d \in Addrs : d # b => live'[d] = live[d]
        /\ live'[b] = Allocation(t, IF req[t].kind = "mmap" THEN "map" ELSE "heap")
        /\ \A s \in Threads \ {t} : at'[s] = at[s] /\ ret'[s] = ret[s]
        /\ at'[t] \in {"insert", "return"}
        /\ at'[t] = "return" => ~ req[t].proxied \/ (req[t].kind = "realloc" /\ req[t].size < limit)
        BY <1>2, <2>1, <2>2
        DEF OriginAllocates, After, BaseInv, CallInv, TypeInv
  <2>4. CASE a = b
    <3>1. recs[a] = <<>>
      <4>1. recs[a] = Record(a)
            BY <1>a, <2>2, <2>4, BusyConcern DEF Exact
      <4> QED
          BY <2>2, <2>4, <4>1 DEF Record
    <3>2. (~ Stale(t, a) /\ ~ Pending(t, a))' => recs'[a] = Record(a)'
      <4>1. at'[t] = "insert" => Pending(t, a)'
            BY <2>3, <2>4 DEF Pending
      <4>2. req[t].size \in Nat
            BY <1>2, <1>a DEF OriginAllocates, BaseInv, CallInv
      <4>3. at'[t] = "return" => ~ live'[a].recorded
            BY <1>a, <2>3, <2>4, <4>2 DEF Allocation
      <4> QED
          BY <2>3, <3>1, <4>1, <4>3 DEF Record
    <3>3. ~ Stale(t, a)'
          BY <2>3 DEF Stale
    <3>4. a \in Concern(t)'
          BY <1>a, <2>3, <2>4 DEF Concern
    <3> QED
        BY <1>d, <2>3, <3>1, <3>2, <3>4, ExactAlone
  <2>5. CASE a # b
    <3>1. a \notin Concern(t) /\ a \notin Concern(t)'
          BY <2>3, <2>5 DEF Concern
    <3> QED
        BY <1>a, <2>3, <2>5, <3>1, ExactFrame
  <2> QED
      BY <2>4, <2>5
<1>3. ASSUME NEW t \in Threads, OriginFails(t) PROVE Exact(a)'
  <2>1. /\ at[t] = "origin" /\ at'[t] = "return" /\ req[t].kind # "pthread_exit"
        /\ UNCHANGED <<live, recs, req>>
        /\ \A s \in Threads \ {t} : at'[s] = at[s] /\ ret'[s] = ret[s]
        BY <1>3, <1>a DEF OriginFails, TypeInv
  <2>2. \A s \in Threads : (Stale(s, a)' <=> Stale(s, a)) /\ (Pending(s, a)' <=> Pending(s, a))
        BY <2>1 DEF Stale, Pending
  <2> QED
      BY <1>a, <2>1, <2>2 DEF Exact, Record
<1>4. ASSUME NEW t \in Threads, OriginReleases(t) PROVE Exact(a)'
  <2>1. /\ at[t] = "origin" /\ req[t].kind # "pthread_exit" /\ ret[t] = NULL
        /\ UNCHANGED <<recs, req, ret>>
        /\ \A s \in Threads \ {t} : at'[s] = at[s]
        /\ at'[t] \in {"remove", "return"} /\ (at'[t] = "remove" <=> req[t].proxied)
        /\ \A d \in Addrs : d # req[t].ptr => live'[d] = live[d]
        /\ req[t].ptr # NULL => live'[req[t].ptr] = NULL
        BY <1>4 DEF OriginReleases, After, BaseInv, CallInv, TypeInv
  <2>2. CASE req[t].ptr = a
    <3>1. a \in Concern(t) /\ a \in Concern(t)'
          BY <1>a, <2>1, <2>2 DEF Concern
    <3>2. recs[a] = Record(a)
      <4>1. ~ Stale(t, a) /\ ~ Pending(t, a)
            BY <2>1 DEF Stale, Pending
      <4> QED
          BY <1>a, <1>c, <3>1, <4>1, ExactMine
    <3>3. Len(recs'[a]) <= 1
          BY <2>1, <3>2 DEF Record
    <3>4. ~ Pending(t, a)'
          BY <1>a, <2>1 DEF Pending
    <3>5. (~ Stale(t, a) /\ ~ Pending(t, a))' => recs'[a] = Record(a)'
      <4>1. req[t].proxied => Stale(t, a)'
            BY <2>1, <2>2 DEF Stale
      <4>2. ~ req[t].proxied => ~ live[a].recorded
            BY <2>1, <2>2, Unrecordable
      <4> QED
          BY <1>a, <2>1, <3>2, <4>1, <4>2 DEF Record
    <3> QED
        BY <1>d, <3>1, <3>3, <3>4, <3>5, ExactAlone
  <2>3. CASE req[t].ptr # a
    <3>1. a \notin Concern(t) /\ a \notin Concern(t)'
          BY <2>1, <2>3 DEF Concern
    <3> QED
        BY <1>a, <2>1, <2>3, <3>1, ExactFrame
  <2> QED
      BY <2>2, <2>3
<1>5. ASSUME NEW t \in Threads, OriginExits(t) PROVE Exact(a)'
  <2>1. /\ at[t] = "origin" /\ req[t].kind = "pthread_exit" /\ ret[t] = NULL /\ req[t].ptr \in Addrs
        /\ UNCHANGED <<recs, ret>> /\ req'[t].ptr = NULL /\ at'[t] = "idle"
        /\ \A s \in Threads \ {t} : at'[s] = at[s] /\ req'[s] = req[s]
        /\ \A d \in Addrs : d # req[t].ptr => live'[d] = live[d]
        /\ live'[req[t].ptr] = NULL
        BY <1>5 DEF OriginExits, BaseInv, CallInv, TypeInv, Call, NoCall
  <2>2. CASE req[t].ptr = a
    <3>1. \A s \in Threads \ {t} : a \notin Concern(s) /\ a \notin Concern(s)'
          BY <1>c, <2>1, <2>2 DEF Concern
    <3>2. recs[a] = <<>>
      <4>1. CASE req[t].proxied
        <5>1. Pending(t, a)
              BY <2>1, <2>2, <4>1 DEF Pending
        <5> QED
            BY <1>a, <3>1, <5>1, ExactMine
      <4>2. CASE ~ req[t].proxied
        <5>1. ~ Stale(t, a) /\ ~ Pending(t, a)
              BY <2>1, <4>2 DEF Stale, Pending
        <5>2. ~ live[a].recorded
              BY <2>1, <2>2, <4>2, Unrecordable
        <5> QED
            BY <1>a, <3>1, <5>1, <5>2, ExactMine DEF Record
      <4> QED
          BY <4>1, <4>2
    <3>3. recs'[a] = <<>> /\ Record(a)' = <<>>
          BY <2>1, <2>2, <3>2 DEF Record
    <3> QED
        BY <3>1, <3>3, ExactAlone
  <2>3. CASE req[t].ptr # a
    <3>1. a \notin Concern(t) /\ a \notin Concern(t)'
          BY <2>1, <2>3 DEF Concern
    <3> QED
        BY <1>a, <2>1, <2>3, <3>1, ExactFrame
  <2> QED
      BY <2>2, <2>3
<1>6. ASSUME NEW t \in Threads, OriginResizes(t) PROVE Exact(a)'
  <2>1. PICK b \in Available \cup {req[t].ptr} :
            /\ ret' = [ret EXCEPT ![t] = b]
            /\ live' = [[live EXCEPT ![req[t].ptr] = NULL] EXCEPT ![b] = Allocation(t, "heap")]
        BY <1>6 DEF OriginResizes
  <2>2. /\ at[t] = "origin" /\ req[t].kind = "realloc" /\ ret[t] = NULL /\ req[t].ptr \in Addrs
        /\ UNCHANGED <<recs, req>> /\ b \in Addrs /\ ret'[t] = b
        /\ \A s \in Threads \ {t} : at'[s] = at[s] /\ ret'[s] = ret[s]
        /\ at'[t] \in {"remove", "return"} /\ (at'[t] = "remove" <=> req[t].proxied)
        BY <1>6, <1>a, <2>1
        DEF OriginResizes, After, Available, BaseInv, CallInv, TypeInv, Call
  <2>3. /\ \A d \in Addrs : d # req[t].ptr /\ d # b => live'[d] = live[d]
        /\ req[t].ptr # b => live'[req[t].ptr] = NULL
        /\ live'[b] = Allocation(t, "heap")
        BY <1>a, <2>1, <2>2 DEF TypeInv
  <2>4. CASE req[t].ptr = a
    <3>1. a \in Concern(t) /\ a \in Concern(t)'
          BY <1>a, <2>2, <2>4 DEF Concern
    <3>2. recs[a] = Record(a)
      <4>1. ~ Stale(t, a) /\ ~ Pending(t, a)
            BY <2>2 DEF Stale, Pending
      <4> QED
          BY <1>a, <1>c, <3>1, <4>1, ExactMine
    <3>3. Len(recs'[a]) <= 1
          BY <2>2, <3>2 DEF Record
    <3>4. ~ Pending(t, a)'
          BY <2>2, <2>4 DEF Pending
    <3>5. (~ Stale(t, a) /\ ~ Pending(t, a))' => recs'[a] = Record(a)'
      <4>1. req[t].proxied => Stale(t, a)'
            BY <2>2, <2>4 DEF Stale
      <4>2. ~ req[t].proxied => ~ live[a].recorded
            BY <2>2, <2>4, Unrecordable
      <4>3. ~ req[t].proxied /\ live'[a] # NULL => ~ live'[a].recorded
            BY <2>3, <2>4 DEF Allocation
      <4> QED
          BY <2>2, <3>2, <4>1, <4>2, <4>3 DEF Record
    <3> QED
        BY <1>d, <3>1, <3>3, <3>4, <3>5, ExactAlone
  <2>5. CASE b = a /\ req[t].ptr # a
    <3>1. /\ live[a] = NULL /\ \A s \in Threads : a \notin Concern(s)
          BY <2>5, AvailableFree
    <3>2. recs[a] = <<>>
      <4>1. recs[a] = Record(a)
            BY <1>a, <3>1, BusyConcern DEF Exact
      <4> QED
          BY <3>1, <4>1 DEF Record
    <3>3. ~ Stale(t, a)'
          BY <2>2, <2>5 DEF Stale
    <3>4. (~ Stale(t, a) /\ ~ Pending(t, a))' => recs'[a] = Record(a)'
      <4>1. req[t].proxied => Pending(t, a)'
            BY <2>2, <2>5 DEF Pending
      <4>2. ~ req[t].proxied => ~ live'[a].recorded
            BY <2>3, <2>5 DEF Allocation
      <4> QED
          BY <2>2, <3>2, <4>1, <4>2 DEF Record
    <3>5. a \in Concern(t)'
          BY <1>a, <2>2, <2>5 DEF Concern
    <3> QED
        BY <1>d, <2>2, <3>2, <3>4, <3>5, ExactAlone
  <2>6. CASE b # a /\ req[t].ptr # a
    <3>1. a \notin Concern(t) /\ a \notin Concern(t)'
          BY <2>2, <2>6 DEF Concern
    <3> QED
        BY <1>a, <2>2, <2>3, <2>6, <3>1, ExactFrame
  <2> QED
      BY <2>4, <2>5, <2>6
<1>7. ASSUME NEW t \in Threads, OriginMaps(t) PROVE Exact(a)'
  <2>1. PICK b \in Available, s \in Sizes :
            /\ live' = [live EXCEPT ![b] = [sort |-> "arena", size |-> s,
                                            recorded |-> isVss /\ ~ req[t].proxied]]
            /\ recs' = IF Proxied(t, "mmap", NULL, s)
                       THEN [recs EXCEPT ![b] = <<s % UintRange>> \o @] ELSE recs
        BY <1>7 DEF OriginMaps
  <2>2. b \in Addrs /\ live[b] = NULL /\ \A u \in Threads : b \notin Concern(u)
        BY AvailableFree
  <2>3. UNCHANGED <<at, req, ret>> /\ req[t].kind # "pthread_exit"
        BY <1>7 DEF OriginMaps, HeapKinds
  <2>4. \A u \in Threads : Concern(u)' = Concern(u)
        BY <2>3 DEF Concern
  <2>5. CASE a = b
    <3>1. recs[a] = <<>>
      <4>1. recs[a] = Record(a)
            BY <1>a, <2>2, <2>5, BusyConcern DEF Exact
      <4> QED
          BY <2>2, <2>5, <4>1 DEF Record
    <3>2. Proxied(t, "mmap", NULL, s) <=> isVss /\ ~ req[t].proxied
          BY <2>3 DEF Proxied, BaseInv, CallInv
    <3>3. CASE isVss /\ ~ req[t].proxied
      <4>1. recs'[a] = <<s>>
            BY <1>a, <1>b, <2>1, <2>5, <3>1, <3>2, <3>3 DEF TypeInv
      <4>2. live'[a] = [sort |-> "arena", size |-> s, recorded |-> TRUE]
            BY <1>a, <2>1, <2>5, <3>3 DEF TypeInv
      <4>3. live'[a] # NULL
        <5>1. [sort |-> "arena", size |-> s, recorded |-> TRUE] \in Alloc
              BY DEF Alloc
        <5> QED
            BY <1>a, <4>2, <5>1
      <4>4. recs'[a] = Record(a)'
            BY <4>1, <4>2, <4>3 DEF Record
      <4> QED
          BY <2>2, <2>3, <2>4, <2>5, <4>4, BusyConcern, ExactAlone
          DEF Stale, Pending
    <3>4. CASE ~ (isVss /\ ~ req[t].proxied)
      <4>1. recs'[a] = <<>>
            BY <2>1, <3>1, <3>2, <3>4
      <4>2. live'[a] = [sort |-> "arena", size |-> s, recorded |-> FALSE]
            BY <1>a, <2>1, <2>5, <3>4 DEF TypeInv
      <4>3. recs'[a] = Record(a)'
            BY <4>1, <4>2 DEF Record
      <4> QED
          BY <2>2, <2>3, <2>4, <2>5, <4>3, BusyConcern, ExactAlone
          DEF Stale, Pending
    <3> QED
        BY <3>3, <3>4
  <2>6. CASE a # b
    <3>1. recs'[a] = recs[a] /\ live'[a] = live[a]
          BY <2>1, <2>6
    <3>2. Record(a)' = Record(a)
          BY <3>1 DEF Record
    <3>3. \A u \in Threads : (Stale(u, a)' <=> Stale(u, a)) /\ (Pending(u, a)' <=> Pending(u, a))
          BY <2>3 DEF Stale, Pending
    <3> QED
        BY <1>a, <3>1, <3>2, <3>3 DEF Exact
  <2> QED
      BY <2>5, <2>6
<1>8. ASSUME NEW t \in Threads, CacheRemove(t) PROVE Exact(a)'
  <2>1. /\ at[t] = "remove" /\ req[t].ptr \in Addrs /\ req[t].proxied
        /\ req[t].kind \in {"free", "munmap", "realloc", "pthread_exit"}
        /\ ret[t] # NULL => req[t].kind = "realloc"
        /\ req[t].kind = "pthread_exit" => ret[t] = NULL
        /\ req[t].size \in Sizes
        /\ UNCHANGED <<live, req, ret>>
        /\ \A s \in Threads \ {t} : at'[s] = at[s]
        BY <1>8 DEF CacheRemove, BaseInv, CallInv, TypeInv
  <2>2. /\ at'[t] \in {"origin", "insert", "return"}
        /\ at'[t] = "origin" <=> req[t].kind = "pthread_exit"
        /\ at'[t] = "insert" <=> req[t].kind = "realloc" /\ ret[t] # NULL /\ req[t].size >= limit
        BY <1>8, <1>a DEF CacheRemove, TypeInv
  <2>3. \A d \in Addrs : d # req[t].ptr => recs'[d] = recs[d]
        BY <1>8 DEF CacheRemove
  <2>4. \A u \in Threads : Concern(u)' = Concern(u)
        BY <2>1 DEF Concern
  <2>5. CASE req[t].ptr = a
    <3>1. a \in Concern(t)
          BY <1>a, <2>5 DEF Concern
    <3>2. Len(recs[a]) <= 1
      <4>1. CASE req[t].kind = "pthread_exit"
        <5>1. ~ Stale(t, a) /\ ~ Pending(t, a)
              BY <1>a, <2>1, <4>1 DEF Stale, Pending
        <5>2. recs[a] = Record(a)
              BY <1>a, <1>c, <3>1, <5>1, ExactMine
        <5> QED
            BY <5>2 DEF Record
      <4>2. CASE req[t].kind # "pthread_exit"
        <5>1. Stale(t, a)
              BY <2>1, <2>5, <4>2 DEF Stale
        <5> QED
            BY <1>a, <1>c, <3>1, <5>1, ExactMine
      <4> QED
          BY <4>1, <4>2
    <3>3. recs'[a] = <<>>
      <4>1. CASE recs[a] = <<>>
            BY <1>8, <4>1 DEF CacheRemove
      <4>2. CASE recs[a] # <<>>
        <5>1. recs'[a] = Tail(recs[a])
              BY <1>8, <1>a, <2>5 DEF CacheRemove, TypeInv
        <5>2. Tail(recs[a]) \in Seq(0 .. UintRange - 1) /\ Len(Tail(recs[a])) = Len(recs[a]) - 1
              BY <1>a, <4>2 DEF TypeInv
        <5>3. Len(recs[a]) \in Nat /\ Len(Tail(recs[a])) \in Nat
              OBVIOUS
        <5>4. Len(Tail(recs[a])) = 0
          <6>1. \A m, n \in Nat : m = n - 1 /\ n <= 1 => m = 0
                OBVIOUS
          <6> QED
              BY <3>2, <5>2, <5>3, <6>1, Zenon
        <5> QED
            BY <5>1, <5>2, <5>4, EmptySeq
      <4> QED
          BY <4>1, <4>2
    <3>4. ~ Stale(t, a)'
          BY <2>2 DEF Stale
    <3>5. (~ Stale(t, a) /\ ~ Pending(t, a))' => Record(a)' = <<>>
      <4>1. CASE req[t].kind = "pthread_exit"
        <5>1. Pending(t, a)'
              BY <2>1, <2>2, <2>5, <4>1 DEF Pending
        <5> QED
            BY <5>1
      <4>2. CASE req[t].kind # "pthread_exit" /\ ret[t] # a
            BY <2>1, <2>5, <4>2 DEF ApartInv, Record
      <4>3. CASE req[t].kind # "pthread_exit" /\ ret[t] = a
        <5>1. at'[t] = "insert" => Pending(t, a)'
              BY <2>1, <4>3 DEF Pending
        <5>2. at'[t] # "insert" => ~ live[a].recorded
              BY <1>a, <2>1, <2>2, <4>3 DEF BaseInv, SortInv
        <5> QED
            BY <2>1, <5>1, <5>2 DEF Record
      <4> QED
          BY <4>1, <4>2, <4>3
    <3> QED
        BY <1>c, <2>4, <3>1, <3>3, <3>5, ExactAlone
  <2>6. CASE req[t].ptr # a /\ ret[t] = a
    <3>1. a \in Concern(t)
          BY <1>a, <2>6 DEF Concern
    <3>2. recs'[a] = <<>>
      <4>1. Pending(t, a)
            BY <2>1, <2>6 DEF Pending
      <4> QED
          BY <1>a, <1>c, <2>3, <2>6, <3>1, <4>1, ExactMine
    <3>3. ~ Stale(t, a)'
          BY <2>2 DEF Stale
    <3>4. (~ Stale(t, a) /\ ~ Pending(t, a))' => Record(a)' = <<>>
      <4>1. at'[t] = "insert" => Pending(t, a)'
            BY <2>1, <2>6 DEF Pending
      <4>2. at'[t] # "insert" => ~ live[a].recorded
            BY <1>a, <2>1, <2>2, <2>6 DEF BaseInv, SortInv
      <4> QED
          BY <2>1, <4>1, <4>2 DEF Record
    <3> QED
        BY <1>c, <2>4, <3>1, <3>2, <3>4, ExactAlone
  <2>7. CASE req[t].ptr # a /\ ret[t] # a
    <3>1. a \notin Concern(t) /\ a \notin Concern(t)'
          BY <2>1, <2>7 DEF Concern
    <3> QED
        BY <1>a, <2>1, <2>3, <2>7, <3>1, ExactFrame
  <2> QED
      BY <2>5, <2>6, <2>7
<1>9. ASSUME NEW t \in Threads, CacheInsert(t) PROVE Exact(a)'
  <2>1. /\ at[t] = "insert" /\ at'[t] = "return" /\ ret[t] \in Addrs /\ ret[t] # NULL
        /\ req[t].size \in Sizes /\ (req[t].kind = "realloc" => req[t].size >= limit)
        /\ UNCHANGED <<live, req, ret>>
        /\ \A s \in Threads \ {t} : at'[s] = at[s]
        /\ recs' = [recs EXCEPT ![ret[t]] = <<SizeOf(req[t].kind, req[t].size) % UintRange>> \o @]
        BY <1>9 DEF CacheInsert, BaseInv, CallInv, TypeInv
  <2>2. \A u \in Threads : Concern(u)' = Concern(u)
        BY <2>1 DEF Concern
  <2>3. ~ Stale(t, a)' /\ ~ Pending(t, a)'
        BY <2>1 DEF Stale, Pending
  <2>4. CASE ret[t] = a
    <3>1. a \in Concern(t) /\ Pending(t, a)
          BY <2>1, <2>4 DEF Concern, Pending
    <3>2. recs[a] = <<>>
          BY <1>a, <1>c, <3>1, ExactMine
    <3>3. SizeOf(req[t].kind, req[t].size) % UintRange = req[t].size
          BY <1>b, <2>1 DEF SizeOf
    <3>4. recs'[a] = <<req[t].size>>
          BY <1>a, <2>1, <2>4, <3>2, <3>3 DEF TypeInv
    <3>5. live[a] # NULL /\ live[a].recorded /\ live[a].size = req[t].size
          BY <2>1, <2>4, InHand DEF BaseInv, SortInv
    <3>6. recs'[a] = Record(a)'
          BY <2>1, <3>4, <3>5 DEF Record
    <3> QED
        BY <1>c, <2>2, <2>3, <3>1, <3>6, ExactAlone
  <2>5. CASE ret[t] # a
    <3>1. recs'[a] = recs[a]
          BY <2>1, <2>5
    <3>2. \A s \in Threads : (Stale(s, a)' <=> Stale(s, a)) /\ (Pending(s, a)' <=> Pending(s, a))
          BY <2>1, <2>5 DEF Stale, Pending
    <3> QED
        BY <1>a, <2>1, <3>1, <3>2 DEF Exact, Record
  <2> QED
      BY <2>4, <2>5
<1>10. ASSUME NEW t \in Threads, Leave(t) PROVE Exact(a)'
  <2>1. /\ at[t] = "return" /\ at'[t] = "idle" /\ UNCHANGED <<live, recs>>
        /\ \A s \in Threads \ {t} : at'[s] = at[s] /\ req'[s] = req[s] /\ ret'[s] = ret[s]
        BY <1>10, <1>a DEF Leave, TypeInv
  <2>2. \A s \in Threads : (Stale(s, a)' <=> Stale(s, a)) /\ (Pending(s, a)' <=> Pending(s, a))
        BY <2>1 DEF Stale, Pending
  <2> QED
      BY <1>a, <2>1, <2>2 DEF Exact, Record
<1>11. ASSUME UNCHANGED proxyVars PROVE Exact(a)'
      BY <1>11, <1>a DEF proxyVars, Exact, Record, Stale, Pending
<1> QED
    BY <1>1, <1>2, <1>3, <1>4, <1>5, <1>6, <1>7, <1>8, <1>9, <1>10, <1>11
    DEF ProxyNext, ProxyStep

-----------------------------------------------------------------------------
(* The results. *)

\* The invariant holds throughout.
LEMMA ProxyAlways == ProxySpec => [](BaseInv /\ CountInv)
<1>1. ProxyInit => BaseInv /\ CountInv
  <2> SUFFICES ASSUME ProxyInit, NEW a \in Addrs PROVE Bounded(a)
      BY BaseInit DEF CountInv
  <2>1. recs[a] = <<>> /\ live[a] = NULL
        BY DEF ProxyInit
  <2>2. Cardinality(Removers(a)) \in Nat
        BY RemoversFinite
  <2> QED
      BY <2>1, <2>2 DEF Bounded
<1>2. BaseInv /\ CountInv /\ [ProxyNext]_proxyVars => (BaseInv /\ CountInv)'
      BY BaseNext, CountNext
<1> QED
    BY <1>1, <1>2, PTL DEF ProxySpec

\* Every variable keeps its type, and cache->insert and cache->remove never
\* get NULL, on any number of threads.
THEOREM ProxyTypes == ProxySpec => []ProxyTypeOK
<1>1. BaseInv => ProxyTypeOK
  <2> SUFFICES ASSUME BaseInv PROVE ProxyTypeOK
      OBVIOUS
  <2>1. held \subseteq {a \in Addrs : live[a] # NULL}
        BY DEF BaseInv, TypeInv, OwnInv
  <2>2. \A t \in Threads :
           /\ ret[t] \in Addrs \cup {NULL} /\ req[t].ptr \in Addrs \cup {NULL}
           /\ at[t] = "insert" => ret[t] # NULL
           /\ at[t] = "remove" => req[t].ptr # NULL
        BY DEF BaseInv, TypeInv, CallInv, Call
  <2> QED
      BY <2>1, <2>2 DEF BaseInv, TypeInv, ProxyTypeOK
<1> QED
    BY <1>1, ProxyAlways, PTL

\* A released address is not reported once the calls in progress have
\* returned, although a proxy removes the record only after the memory is
\* gone, and whatever other threads do with the address in between.
THEOREM ProxyFreedNotReported == ProxySpec => []FreedNotReported
<1>1. BaseInv /\ CountInv => FreedNotReported
  <2> SUFFICES ASSUME BaseInv, CountInv, Quiescent, NEW a \in Addrs, live[a] = NULL
               PROVE  recs[a] = <<>>
      BY DEF FreedNotReported
  <2>1. Removers(a) = {}
        BY DEF Quiescent, Removers
  <2>2. Cardinality(Removers(a)) = 0
        BY <2>1, FS_EmptySet
  <2>3. Len(recs[a]) <= 0
        BY <2>2 DEF CountInv, Bounded, MayHaveRecord
  <2>4. recs[a] \in Seq(0 .. UintRange - 1) /\ Len(recs[a]) \in Nat
        BY DEF BaseInv, TypeInv
  <2> QED
      BY <2>3
<1> QED
    BY <1>1, ProxyAlways, PTL

\* If released addresses are withheld until their records are removed, the
\* report is, whenever no call is in progress, exactly the intercepted
\* allocations that were not released, each once and with its size, for sizes
\* that AllocNode::size can hold.
THEOREM ProxyTotalsExact == SizesFit => (ProxySpec => []TotalsExact)
<1> SUFFICES ASSUME SizesFit PROVE ProxySpec => []TotalsExact
    OBVIOUS
<1> DEFINE Inv == BaseInv /\ (withheld => ApartInv /\ ExactInv)
<1>1. ProxyInit => Inv
  <2> SUFFICES ASSUME ProxyInit PROVE ApartInv /\ ExactInv
      BY BaseInit
  <2>1. ApartInv
        BY DEF ProxyInit, ApartInv, Concern, NoCall
  <2>2. ExactInv
        BY DEF ProxyInit, ExactInv, Exact, Record
  <2> QED
      BY <2>1, <2>2
<1>2. Inv /\ [ProxyNext]_proxyVars => Inv'
  <2> SUFFICES ASSUME Inv, [ProxyNext]_proxyVars PROVE Inv'
      OBVIOUS
  <2>1. withheld' = withheld
    <3>1. ASSUME NEW t \in Threads, NEW kind, NEW ptr, NEW size, Enter(t, kind, ptr, size)
          PROVE  withheld' = withheld
          BY <3>1 DEF Enter, config
    <3>2. ASSUME NEW t \in Threads, ProxyStep(t) PROVE withheld' = withheld
          BY <3>2
          DEF ProxyStep, OriginAllocates, OriginFails, OriginReleases,
              OriginExits, OriginResizes, OriginMaps, CacheRemove, CacheInsert,
              Leave, config
    <3>3. UNCHANGED proxyVars => withheld' = withheld
          BY DEF proxyVars, config
    <3> QED
        BY <3>1, <3>2, <3>3 DEF ProxyNext
  <2> QED
      BY <2>1, BaseNext, ApartNext, ExactNext
<1>3. Inv => TotalsExact
  <2> SUFFICES ASSUME Inv, Quiescent, withheld, NEW a \in Addrs
               PROVE  recs[a] = Record(a)
      BY DEF TotalsExact, ReportIsIntercepted, Record
  <2>1. \A t \in Threads : ~ Stale(t, a) /\ ~ Pending(t, a)
        BY DEF Quiescent, Stale, Pending
  <2> QED
      BY <2>1 DEF ExactInv, Exact
<1> QED
    BY <1>1, <1>2, <1>3, PTL DEF ProxySpec
==============================================================================
