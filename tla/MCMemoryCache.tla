---------------------------- MODULE MCMemoryCache ----------------------------
(***************************************************************************)
(* Model-checking instance of MemoryCache, and the refinement mapping that *)
(* shows it to implement AllocTable.                                       *)
(***************************************************************************)
EXTENDS MemoryCache, SequencesExt

\* The records of a chain, from n on.  A chain that is longer than the pool
\* is cyclic: its unfolding is cut off there.
RECURSIVE ChainFrom(_, _)
ChainFrom(n, k) ==
    IF n = NULL \/ k = 0 THEN <<>> ELSE <<n>> \o ChainFrom(next[n], k - 1)
Chain(b) == ChainFrom(alloc_table[b], mCount + 1)

\* Records of address a, in chain order.
absRecs ==
    [a \in Addrs |->
        LET mine == SelectSeq(Chain(Hash(a)), LAMBDA n : addr[n] = a)
        IN  [k \in 1 .. Len(mine) |-> info[mine[k]]]]

\* What thread t's report says, per address.
absReport(t) ==
    [a \in Addrs |->
        LET mine == SelectSeq(out[t], LAMBDA r : r[1] = a)
        IN  [k \in 1 .. Len(mine) |-> mine[k][2]]]

\* The instant a refused insert takes effect: it has seen the stack empty,
\* and the array is used up.
NothingLeft(t) ==
    \/ pc[t] = "index" /\ mIndex = mCount
    \/ pc[t] = "applied" /\ p[t] = NULL

absCall ==
    [t \in Threads |->
        CASE cpc[t] = "ready" -> <<"ready">>
          [] cpc[t] = "apply" /\ NothingLeft(t) -> <<"refused">>
          [] cpc[t] = "apply" /\ ~ NothingLeft(t) -> <<"insert", arg[t][1], arg[t][2]>>
          [] cpc[t] \in {"lock", "link", "publish"} -> <<"insert", arg[t][1], arg[t][2]>>
          [] cpc[t] \in {"check", "enter", "search"} -> <<"remove", arg[t][1]>>
          [] cpc[t] \in {"leave", "recycle"} -> <<"removed">>
          [] cpc[t] \in {"open", "print"} -> <<"print">>
          [] cpc[t] = "close" -> <<"printed", absReport(t)>>]

Table == INSTANCE AllocTable
             WITH Capacity <- mCount, recs <- absRecs, call <- absCall

\* MemoryCache implements AllocTable: insert, remove and print each take
\* effect at one instant, remove takes the most recent record of its address
\* and misses none, print writes the table as it was at one instant, and an
\* insert is dropped only when all mCount records are in use.
ImplementsTable == Table!TableSpec
=============================================================================
