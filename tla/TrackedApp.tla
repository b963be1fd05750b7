------------------------------ MODULE TrackedApp ------------------------------
(***************************************************************************)
(* MemoryCache under a well-behaved application: an address is inserted    *)
(* only when no allocation has it, removed only when its allocation is     *)
(* live, and not reused before the remove has returned.  (HookProxy looks  *)
(* at the proxies' own ordering; here nothing but the cache can go wrong.) *)
(***************************************************************************)
EXTENDS MemoryCache

VARIABLE status   \* status[a]: the allocation at address a

appVars == <<vars, status>>

AppInit == CacheInit /\ status = [a \in Addrs |-> "free"]

AppAllocate(t) ==
    \E a \in Addrs, i \in Infos :
        /\ status[a] = "free"
        /\ InsertCall(t, a, i)
        /\ status' = [status EXCEPT ![a] = "inserting"]

AppFree(t) ==
    \E a \in Addrs :
        /\ status[a] = "live"
        /\ RemoveCall(t, a)
        /\ status' = [status EXCEPT ![a] = "removing"]

\* What the allocation is when thread t's operation on it returns: recorded,
\* dropped because the cache is full, or gone.
Settled(t) ==
    CASE cpc[t] = "publish" -> "live"
      [] cpc[t] = "apply"   -> "unrecorded"
      [] cpc[t] \in RemovePcs -> "free"

AppStep(t) ==
    /\ CacheStep(t)
    /\ status' = IF cpc[t] \in InsertPcs \cup RemovePcs /\ cpc'[t] = "ready"
                 THEN [status EXCEPT ![arg[t][1]] = Settled(t)]
                 ELSE status

\* The application releases an allocation the cache had no record for.
AppFreeUnrecorded(a) ==
    /\ status[a] = "unrecorded"
    /\ status' = [status EXCEPT ![a] = "free"]
    /\ UNCHANGED vars

AppPrint(t) == PrintCall(t) /\ UNCHANGED status

AppNext ==
    \/ \E t \in Threads : AppAllocate(t) \/ AppFree(t) \/ AppPrint(t) \/ AppStep(t)
    \/ \E a \in Addrs : AppFreeUnrecorded(a)

AppSpec == AppInit /\ [][AppNext]_appVars

-----------------------------------------------------------------------------
Recorded(a) == {n \in InChain(Hash(a)) : addr[n] = a}

\* The table that print() writes has one record for every live allocation it
\* did not refuse, and none for an address that is free.
ReportExact ==
    \A a \in Addrs :
        /\ status[a] = "live" => Cardinality(Recorded(a)) = 1
        /\ status[a] \in {"free", "unrecorded"} => Recorded(a) = {}
=============================================================================
