----------------------------- MODULE InlineHook32 -----------------------------
(***************************************************************************)
(* The ARM inline hook engine's table of hooks (inlineHook.c): functions   *)
(* are registered, which saves their first instructions and makes a        *)
(* trampoline of them, hooked and unhooked, one or all.  The calls come    *)
(* from one thread; what they write is seen by all threads at once, so     *)
(* that the steps of doInlineHook and doInlineUnHook are apart.            *)
(*                                                                         *)
(* The start of a function is "own" or the "jump" to its proxy, and a      *)
(* trampoline is what it was made from.                                    *)
(***************************************************************************)
EXTENDS Integers, Sequences, FiniteSets, SequencesExt

CONSTANTS
    Functions32,  \* target addresses
    MAX_ITEMS,    \* 1024
    MaxCalls32,   \* bound on calls
    NOTHING

ASSUME TableLargeEnough == Cardinality(Functions32) <= MAX_ITEMS
ASSUME NothingApart == NOTHING \notin Nat \cup {"own"}

VARIABLES
    item,         \* info.item up to info.size
    start,        \* what the function's start is
    saved,        \* orig_instructions of the function's item
    proto,        \* *proto_addr: a trampoline, or NOTHING for the function itself
    tramps,       \* the mapped trampolines: what they were made from
    unflushed,    \* functions whose code changed since the last cacheflush
    doing,        \* the call under way: [all, i, at]
    ncalls32

hvars == <<item, start, saved, proto, tramps, unflushed, doing, ncalls32>>

Idle == [all |-> FALSE, i |-> 0, at |-> "idle"]
Find(f) == {i \in DOMAIN item : item[i].target_addr = f}
Target == item[doing.i].target_addr

Hook32Init ==
    /\ item = <<>>
    /\ start = [f \in Functions32 |-> "own"]
    /\ saved = [f \in Functions32 |-> NOTHING]
    /\ proto = [f \in Functions32 |-> NOTHING]
    /\ tramps = <<>>
    /\ unflushed = {}
    /\ doing = Idle
    /\ ncalls32 = 0

CallBegins == doing = Idle /\ ncalls32 < MaxCalls32 /\ ncalls32' = ncalls32 + 1

\* The trampoline is made before the function is changed.
registerInlineHook(f) ==
    /\ CallBegins
    /\ Find(f) = {}
    /\ item' = Append(item, [target_addr |-> f, status |-> "REGISTERED", tramp |-> Len(tramps) + 1])
    /\ saved' = [saved EXCEPT ![f] = start[f]]
    /\ tramps' = Append(tramps, start[f])
    /\ UNCHANGED <<start, proto, unflushed, doing>>

\* NOT_EXECUTABLE, ALREADY_REGISTERED or ALREADY_HOOKED.
registerRefused ==
    /\ CallBegins
    /\ UNCHANGED <<item, start, saved, proto, tramps, unflushed, doing>>
-----------------------------------------------------------------------------
\* What follows an item at position i in the loop of inlineHookAll or inlineUnHookAll.
Onward(i, at) == IF doing.all THEN [doing EXCEPT !.i = i, !.at = at] ELSE Idle

inlineHook(f) ==
    /\ CallBegins
    /\ doing' = IF \E i \in Find(f) : item[i].status = "REGISTERED"
                THEN [all |-> FALSE, i |-> CHOOSE i \in Find(f) : TRUE, at |-> "proto"] ELSE Idle
    /\ UNCHANGED <<item, start, saved, proto, tramps, unflushed>>

inlineHookAll ==
    /\ CallBegins
    /\ doing' = [all |-> TRUE, i |-> 1, at |-> "hooking"]
    /\ UNCHANGED <<item, start, saved, proto, tramps, unflushed>>

HookingNext ==
    /\ doing.at = "hooking"
    /\ doing' = IF doing.i > Len(item) THEN Idle
                ELSE IF item[doing.i].status = "REGISTERED" THEN [doing EXCEPT !.at = "proto"]
                ELSE [doing EXCEPT !.i = @ + 1]
    /\ UNCHANGED <<item, start, saved, proto, tramps, unflushed, ncalls32>>

\* Mutant: the origin is published after the jump.
HookProtoLate ==
    /\ doing.at = "proto"
    /\ start' = [start EXCEPT ![Target] = "jump"]
    /\ unflushed' = unflushed \cup {Target}
    /\ doing' = [doing EXCEPT !.at = "write"]
    /\ UNCHANGED <<item, saved, proto, tramps, ncalls32>>

\* doInlineHook, one write after the other.
HookProto ==
    /\ doing.at = "proto"
    /\ proto' = [proto EXCEPT ![Target] = item[doing.i].tramp]
    /\ doing' = [doing EXCEPT !.at = "write"]
    /\ UNCHANGED <<item, start, saved, tramps, unflushed, ncalls32>>

HookWrite ==
    /\ doing.at = "write"
    /\ start' = [start EXCEPT ![Target] = "jump"]
    /\ unflushed' = unflushed \cup {Target}
    /\ doing' = [doing EXCEPT !.at = "status"]
    /\ UNCHANGED <<item, saved, proto, tramps, ncalls32>>

HookStatus ==
    /\ doing.at = "status"
    /\ item' = [item EXCEPT ![doing.i].status = "HOOKED"]
    /\ unflushed' = unflushed \ {Target}
    /\ doing' = Onward(doing.i + 1, "hooking")
    /\ UNCHANGED <<start, saved, proto, tramps, ncalls32>>
-----------------------------------------------------------------------------
inlineUnHook(f) ==
    /\ CallBegins
    /\ doing' = IF \E i \in Find(f) : item[i].status = "HOOKED"
                THEN [all |-> FALSE, i |-> CHOOSE i \in Find(f) : TRUE, at |-> "restore"] ELSE Idle
    /\ UNCHANGED <<item, start, saved, proto, tramps, unflushed>>

inlineUnHookAll ==
    /\ CallBegins
    /\ doing' = [all |-> TRUE, i |-> 1, at |-> "unhooking"]
    /\ UNCHANGED <<item, start, saved, proto, tramps, unflushed>>

UnhookingNext ==
    /\ doing.at = "unhooking"
    /\ doing' = IF doing.i > Len(item) THEN Idle
                ELSE IF item[doing.i].status = "HOOKED" THEN [doing EXCEPT !.at = "restore"]
                ELSE [doing EXCEPT !.i = @ + 1]
    /\ UNCHANGED <<item, start, saved, proto, tramps, unflushed, ncalls32>>

\* doInlineUnHook: the first instructions are put back.
UnhookRestore ==
    /\ doing.at = "restore"
    /\ start' = [start EXCEPT ![Target] = saved[Target]]
    /\ unflushed' = unflushed \cup {Target}
    /\ doing' = [doing EXCEPT !.at = "delete"]
    /\ UNCHANGED <<item, saved, proto, tramps, ncalls32>>

\* Mutant: the last item goes, whichever was unhooked.
DeletedLast(pos) == Front(item)

\* deleteInlineHookItem: the last item takes the place.
deleteInlineHookItem(pos) == Front([item EXCEPT ![pos] = Last(item)])

\* The trampoline is unmapped and the item deleted; only then is the cache
\* flushed, through a pointer to the place where another item may be now.
UnhookDelete ==
    /\ doing.at = "delete"
    /\ tramps' = [tramps EXCEPT ![item[doing.i].tramp] = NOTHING]
    /\ saved' = [saved EXCEPT ![Target] = NOTHING]
    /\ item' = deleteInlineHookItem(doing.i)
    /\ unflushed' = unflushed \ {Last(item).target_addr}
    /\ doing' = Onward(doing.i, "unhooking")
    /\ UNCHANGED <<start, proto, ncalls32>>

Hook32Next ==
    \/ \E f \in Functions32 :
         registerInlineHook(f) \/ inlineHook(f) \/ inlineUnHook(f)
    \/ registerRefused \/ inlineHookAll \/ HookingNext \/ HookProto \/ HookWrite \/ HookStatus
    \/ inlineUnHookAll \/ UnhookingNext \/ UnhookRestore \/ UnhookDelete

Hook32Spec == Hook32Init /\ [][Hook32Next]_hvars
-----------------------------------------------------------------------------
(* Properties. *)

\* Whoever meets the jump of a function, in the middle of a call too, gets
\* into a proxy whose origin is a mapped trampoline made of the function's own
\* instructions: whatever was registered, hooked and unhooked before.
OriginMapped ==
    \A f \in Functions32 :
        start[f] = "jump" => proto[f] # NOTHING /\ tramps[proto[f]] = "own"

\* Between calls the table says what is in the code: a function has one item,
\* the hooked ones are the ones with a jump that every processor sees, and the
\* mapped trampolines are the items'.
TableExact ==
    doing = Idle =>
        /\ \A f \in Functions32 : Cardinality(Find(f)) <= 1
        /\ {f \in Functions32 : start[f] = "jump"} =
             {item[i].target_addr : i \in {j \in DOMAIN item : item[j].status = "HOOKED"}}
        /\ \A f \in unflushed : start[f] = "own"
        /\ {n \in DOMAIN tramps : tramps[n] # NOTHING} = {item[i].tramp : i \in DOMAIN item}
===============================================================================
