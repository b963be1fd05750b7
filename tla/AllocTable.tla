------------------------------ MODULE AllocTable ------------------------------
(***************************************************************************)
(* What the interface Cache (Cache.h) promises to the proxies: a table of  *)
(* the allocations that were inserted and not removed, on which insert,    *)
(* remove and print each take effect at one instant between call and       *)
(* return.  MemoryCache is shown to implement it.                          *)
(***************************************************************************)
EXTENDS Integers, Sequences, FiniteSets, FiniteSetsExt

CONSTANTS
    Threads,
    Addrs,     \* addresses of allocations
    Infos,     \* what is recorded with an address: size and backtrace
    Capacity   \* how many records there are

VARIABLES
    recs,      \* recs[a]: the records of address a, most recent first
    call       \* the operation each thread is in, and how far it is

tableVars == <<recs, call>>

Ready == <<"ready">>

\* Records in the table, and records on their way into or out of it.
Stored == FoldSet(LAMBDA a, n : n + Len(recs[a]), 0, Addrs)
Busy(t) == {s \in Threads \ {t} : call[s][1] \in {"insert", "removed"}}

TableInit ==
    /\ recs = [a \in Addrs |-> <<>>]
    /\ call = [t \in Threads |-> Ready]

Call(t, o) ==
    /\ call[t] = Ready
    /\ call' = [call EXCEPT ![t] = o]
    /\ UNCHANGED recs

\* A new record goes in front of older records of the same address.
InsertCommit(t) ==
    /\ call[t][1] = "insert"
    /\ recs' = [recs EXCEPT ![call[t][2]] = <<call[t][3]>> \o @]
    /\ call' = [call EXCEPT ![t] = Ready]

\* An insert is dropped only when every record is in use.
InsertRefuse(t) ==
    /\ call[t][1] = "insert"
    /\ Stored + Cardinality(Busy(t)) >= Capacity
    /\ call' = [call EXCEPT ![t] = <<"refused">>]
    /\ UNCHANGED recs

\* remove takes the most recent record of its address ...
RemoveHit(t) ==
    /\ call[t][1] = "remove"
    /\ recs[call[t][2]] # <<>>
    /\ recs' = [recs EXCEPT ![call[t][2]] = Tail(@)]
    /\ call' = [call EXCEPT ![t] = <<"removed">>]

\* ... and does nothing only if there is none.
RemoveMiss(t) ==
    /\ call[t][1] = "remove"
    /\ recs[call[t][2]] = <<>>
    /\ call' = [call EXCEPT ![t] = Ready]
    /\ UNCHANGED recs

\* print writes the whole table as it is at one instant ...
PrintCommit(t) ==
    /\ call[t][1] = "print"
    /\ call' = [call EXCEPT ![t] = <<"printed", recs>>]
    /\ UNCHANGED recs

\* ... or nothing, when the report file cannot be opened.
PrintFail(t) ==
    /\ call[t][1] = "print"
    /\ call' = [call EXCEPT ![t] = Ready]
    /\ UNCHANGED recs

Return(t) ==
    /\ call[t][1] \in {"removed", "refused", "printed"}
    /\ call' = [call EXCEPT ![t] = Ready]
    /\ UNCHANGED recs

Operations ==
    {<<"insert", a, i>> : a \in Addrs, i \in Infos}
        \cup {<<"remove", a>> : a \in Addrs} \cup {<<"print">>}

TableNext ==
    \E t \in Threads :
        \/ \E o \in Operations : Call(t, o)
        \/ InsertCommit(t) \/ InsertRefuse(t)
        \/ RemoveHit(t) \/ RemoveMiss(t)
        \/ PrintCommit(t) \/ PrintFail(t)
        \/ Return(t)

TableSpec == TableInit /\ [][TableNext]_tableVars
=============================================================================
