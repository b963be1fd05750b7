----------------------------- MODULE MachineProofs ----------------------------
(******************************************************************************)
(* Proofs about the code that works on machine code and stacks: the ARM       *)
(* inline hook engine's table of hooks (InlineHook32), the unwinders (Unwind) *)
(* and the ARM64 inline hook engine (Inline64), for any functions, calls,     *)
(* stacks and depths.                                                         *)
(*                                                                            *)
(* The table: OriginMapped, in the middle of a call too, and TableExact       *)
(* between calls.  Neither is inductive.  Both rest on what a call knows of   *)
(* the item it works on while its writes are apart (AtItem), and on the items *)
(* being told apart by their functions and by their trampolines (Distinct),   *)
(* so that deleting one neither unmaps nor forgets another's.                 *)
(*                                                                            *)
(* The unwinders: UnwindInBounds on any stack, from the frame pointer and its *)
(* lower bound only growing (UnwindInv); TraceIsCallChain on an ARM64 stack   *)
(* of frame records, from the trace being the calls of the records gone by.   *)
(*                                                                            *)
(* ARM64 hooks: HookedHasOrigin, from what each moved word may become and the *)
(* literals it leaves behind (Inline64Inv).                                   *)
(******************************************************************************)
EXTENDS InlineHook32, Inline64, Unwind, FiniteSetTheorems, SequenceTheorems, TLAPS

Item == [target_addr : Functions32, status : {"REGISTERED", "HOOKED"}, tramp : Nat]

Hooking == {"proto", "write", "status"}
Unhooking == {"restore", "delete"}

TableTypes ==
    /\ item \in Seq(Item)
    /\ start \in [Functions32 -> {"own", "jump"}]
    /\ saved \in [Functions32 -> {"own", NOTHING}]
    /\ proto \in [Functions32 -> Nat \cup {NOTHING}]
    /\ tramps \in Seq({"own", NOTHING})
    /\ unflushed \subseteq Functions32
    /\ doing \in [all : BOOLEAN, i : Nat,
                  at : {"idle", "hooking", "unhooking"} \cup Hooking \cup Unhooking]

\* No two items have a function or a trampoline in common.
Distinct ==
    \A i, j \in 1 .. Len(item) :
        \/ item[i].target_addr = item[j].target_addr
        \/ item[i].tramp = item[j].tramp
        => i = j

\* The items keep their functions' own instructions and have the mapped
\* trampolines, each made of own instructions.
Mapped ==
    /\ \A i \in 1 .. Len(item) : /\ saved[item[i].target_addr] = "own"
                                 /\ item[i].tramp \in 1 .. Len(tramps)
                                 /\ tramps[item[i].tramp] = "own"
    /\ \A n \in 1 .. Len(tramps) :
         tramps[n] # NOTHING => \E i \in 1 .. Len(item) : item[i].tramp = n

\* A jump belongs to an item whose trampoline is published, hooked or about to be.
JumpsHaveItems ==
    \A f \in Functions32 : start[f] = "jump" =>
        \E i \in 1 .. Len(item) :
            /\ item[i].target_addr = f
            /\ proto[f] = item[i].tramp
            /\ item[i].status = "HOOKED" \/ (doing.at = "status" /\ doing.i = i)

\* A hooked item's function has its jump, until the item is about to be deleted.
HookedJump ==
    \A i \in 1 .. Len(item) :
        item[i].status = "HOOKED" =>
            start[item[i].target_addr] = "jump" \/ (doing.at = "delete" /\ doing.i = i)

\* What the call under way knows of the item it works on.
AtItem ==
    /\ doing.at # "idle" => doing.i > 0
    /\ doing.at \in Hooking => /\ doing.i <= Len(item)
                               /\ item[doing.i].status = "REGISTERED"
    /\ doing.at \in Unhooking => /\ doing.i <= Len(item)
                                 /\ item[doing.i].status = "HOOKED"
    /\ doing.at \in {"write", "status"} => proto[Target] = item[doing.i].tramp
    /\ doing.at = "status" => start[Target] = "jump"
    /\ doing.at = "delete" => start[Target] = "own"

\* Only a jump that is being written may be in no other processor's cache.
Flushed ==
    \A f \in unflushed : start[f] = "own" \/ (doing.at = "status" /\ f = Target)

TableInv ==
    TableTypes /\ Distinct /\ Mapped /\ JumpsHaveItems /\ HookedJump /\ AtItem /\ Flushed
-----------------------------------------------------------------------------
(* What the operations on the table return. *)

\* deleteInlineHookItem: one item less, the last one in the place of the deleted.
LEMMA Deleted ==
    ASSUME item \in Seq(Item), NEW p \in 1 .. Len(item)
    PROVE  /\ deleteInlineHookItem(p) \in Seq(Item)
           /\ Len(deleteInlineHookItem(p)) = Len(item) - 1
           /\ \A k \in 1 .. Len(item) - 1 :
                deleteInlineHookItem(p)[k] = IF k = p THEN item[Len(item)] ELSE item[k]
<1> DEFINE n == Len(item)
           moved == [item EXCEPT ![p] = item[n]]
<1>1. n \in Nat /\ n \in 1 .. n /\ item[n] \in Item
  BY ElementOfSeq
<1>2. /\ moved \in Seq(Item) /\ Len(moved) = n
      /\ \A j \in 1 .. n : moved[j] = IF j = p THEN item[n] ELSE item[j]
  BY <1>1, ExceptSeq
<1>3. \A j \in 1 .. n - 1 : moved[j] \in Item
  BY <1>1, <1>2, ElementOfSeq
<1>4. deleteInlineHookItem(p) = SubSeq(moved, 1, n - 1)
  BY <1>2 DEF deleteInlineHookItem, Front, Last
<1> HIDE DEF moved
<1>5. /\ SubSeq(moved, 1, n - 1) \in Seq(Item)
      /\ Len(SubSeq(moved, 1, n - 1)) = IF 1 <= n - 1 THEN (n - 1) - 1 + 1 ELSE 0
      /\ \A i \in 1 .. (n - 1) - 1 + 1 : SubSeq(moved, 1, n - 1)[i] = moved[1 + i - 1]
  BY <1>1, <1>3, SubSeqProperties
<1>6. QED
  BY <1>1, <1>2, <1>4, <1>5

\* The item that an index names after a deletion is one that was there before,
\* at another place than the deleted one's, and every other item stays.
LEMMA DeletedItems ==
    ASSUME item \in Seq(Item), NEW p \in 1 .. Len(item)
    PROVE  /\ \A k \in 1 .. Len(item) - 1 : \E j \in (1 .. Len(item)) \ {p} :
                 /\ deleteInlineHookItem(p)[k] = item[j]
                 /\ j = IF k = p THEN Len(item) ELSE k
           /\ \A j \in (1 .. Len(item)) \ {p} : \E k \in 1 .. Len(item) - 1 :
                 deleteInlineHookItem(p)[k] = item[j]
<1>1. Len(item) \in Nat
  OBVIOUS
<1>2. /\ Len(deleteInlineHookItem(p)) = Len(item) - 1
      /\ \A k \in 1 .. Len(item) - 1 :
           deleteInlineHookItem(p)[k] = IF k = p THEN item[Len(item)] ELSE item[k]
  BY Deleted
<1>3. ASSUME NEW k \in 1 .. Len(item) - 1
      PROVE  \E j \in (1 .. Len(item)) \ {p} :
                /\ deleteInlineHookItem(p)[k] = item[j]
                /\ j = IF k = p THEN Len(item) ELSE k
  <2>1. CASE k = p
    BY <1>1, <1>2, <2>1
  <2>2. CASE k # p
    BY <1>1, <1>2, <2>2
  <2>3. QED
    BY <2>1, <2>2
<1>4. ASSUME NEW j \in (1 .. Len(item)) \ {p}
      PROVE  \E k \in 1 .. Len(item) - 1 : deleteInlineHookItem(p)[k] = item[j]
  <2>1. CASE j = Len(item)
    BY <1>1, <1>2, <2>1
  <2>2. CASE j # Len(item)
    BY <1>1, <1>2, <2>2
  <2>3. QED
    BY <2>1, <2>2
<1>5. QED
  BY <1>3, <1>4

\* With distinct items, the item that a call finds for a function is the one
\* item of that function.
LEMMA Found ==
    ASSUME TableTypes, Distinct, NEW f, NEW i \in Find(f)
    PROVE  (CHOOSE j \in Find(f) : TRUE) = i
<1>1. PICK j \in Find(f) : j = CHOOSE k \in Find(f) : TRUE
  OBVIOUS
<1>2. DOMAIN item = 1 .. Len(item)
  BY DEF TableTypes
<1>3. QED
  BY <1>1, <1>2 DEF Find, Distinct
-----------------------------------------------------------------------------
(* The invariant. *)

\* The engine begins with no item and no jump.
LEMMA TableInit == Hook32Init => TableInv
<1> SUFFICES ASSUME Hook32Init PROVE TableInv
  OBVIOUS
<1>1. /\ item = <<>> /\ Len(item) = 0 /\ tramps = <<>> /\ Len(tramps) = 0
      /\ unflushed = {} /\ doing = Idle
      /\ start = [f \in Functions32 |-> "own"]
      /\ saved = [f \in Functions32 |-> NOTHING]
      /\ proto = [f \in Functions32 |-> NOTHING]
  BY DEF Hook32Init
<1>2. TableTypes
  BY <1>1 DEF TableTypes, Idle
<1>3. Distinct /\ Mapped /\ HookedJump
  BY <1>1 DEF Distinct, Mapped, HookedJump
<1>4. JumpsHaveItems /\ Flushed
  BY <1>1 DEF JumpsHaveItems, Flushed
<1>5. AtItem
  BY <1>1 DEF AtItem, Idle, Hooking, Unhooking
<1>6. QED
  BY <1>2, <1>3, <1>4, <1>5 DEF TableInv

\* A step that only begins, goes on with or ends a call keeps the invariant,
\* if it is not about to write a status or to delete and knows its item.
LEMMA OnlyDoing ==
    ASSUME TableInv, UNCHANGED <<item, start, saved, proto, tramps, unflushed>>,
           doing.at \in {"idle", "hooking", "unhooking"},
           doing' \in [all : BOOLEAN, i : Nat,
                       at : {"idle", "hooking", "unhooking", "proto", "restore"}],
           doing'.at # "idle" => doing'.i > 0,
           doing'.at = "proto" => /\ doing'.i <= Len(item)
                                  /\ item[doing'.i].status = "REGISTERED",
           doing'.at = "restore" => /\ doing'.i <= Len(item)
                                    /\ item[doing'.i].status = "HOOKED"
    PROVE  TableInv'
<1>1. TableTypes'
  BY DEF TableInv, TableTypes, Hooking, Unhooking
<1>2. Distinct' /\ Mapped'
  BY DEF TableInv, Distinct, Mapped
<1>3. JumpsHaveItems' /\ HookedJump' /\ Flushed'
  BY DEF TableInv, JumpsHaveItems, HookedJump, Flushed
<1>4. AtItem'
  BY DEF TableInv, AtItem, Hooking, Unhooking
<1>5. QED
  BY <1>1, <1>2, <1>3, <1>4 DEF TableInv

\* The end of a call, or the next turn of a loop.
LEMMA OnwardTypes ==
    ASSUME TableTypes, NEW i \in Nat \ {0}, NEW at \in {"hooking", "unhooking"},
           doing' = Onward(i, at)
    PROVE  /\ doing' \in [all : BOOLEAN, i : Nat, at : {"idle", "hooking", "unhooking"}]
           /\ doing'.at # "idle" => doing'.i > 0
<1>1. CASE doing.all
  <2>1. doing' = [doing EXCEPT !.i = i, !.at = at]
    BY <1>1 DEF Onward
  <2>2. doing' = [all |-> doing.all, i |-> i, at |-> at] /\ doing.all \in BOOLEAN
    BY <2>1 DEF TableTypes
  <2>3. QED
    BY <2>2
<1>2. CASE ~ doing.all
  BY <1>2 DEF Onward, Idle
<1>3. QED
  BY <1>1, <1>2

\* registerInlineHook: the trampoline and the item come together, and the
\* function, which has no item, has no jump to be copied.
LEMMA RegisterKeeps ==
    ASSUME TableInv, NEW f \in Functions32, registerInlineHook(f)
    PROVE  TableInv'
<1> DEFINE n == Len(item)
           m == Len(tramps)
           new == [target_addr |-> f, status |-> "REGISTERED", tramp |-> m + 1]
<1>1. /\ item \in Seq(Item) /\ tramps \in Seq({"own", NOTHING})
      /\ n \in Nat /\ m \in Nat /\ DOMAIN item = 1 .. n /\ doing = Idle
  BY DEF TableInv, TableTypes, registerInlineHook, CallBegins
<1>2. \A i \in 1 .. n : item[i].target_addr # f
  BY <1>1 DEF registerInlineHook, Find
<1>3. start[f] = "own"
  BY <1>2 DEF TableInv, TableTypes, JumpsHaveItems
<1>4. new \in Item
  BY <1>1 DEF Item
<1>5. /\ item' \in Seq(Item) /\ Len(item') = n + 1
      /\ \A i \in 1 .. n : item'[i] = item[i]
      /\ item'[n + 1] = new
  BY <1>1, <1>4, AppendProperties DEF registerInlineHook
<1>6. /\ tramps' \in Seq({"own", NOTHING}) /\ Len(tramps') = m + 1
      /\ \A i \in 1 .. m : tramps'[i] = tramps[i]
      /\ tramps'[m + 1] = "own"
  BY <1>1, <1>3, AppendProperties DEF registerInlineHook
<1>7. /\ saved' = [saved EXCEPT ![f] = "own"]
      /\ UNCHANGED <<start, proto, unflushed, doing>>
  BY <1>3 DEF registerInlineHook
<1>8. /\ new.target_addr = f /\ new.status = "REGISTERED" /\ new.tramp = m + 1
      /\ doing.at = "idle"
  BY <1>1 DEF Idle
<1>9. \A i \in 1 .. n : item[i] \in Item /\ item[i].tramp \in 1 .. m
  BY <1>1, ElementOfSeq DEF TableInv, Mapped
<1>10. 1 .. n + 1 = (1 .. n) \cup {n + 1} /\ 1 .. m + 1 = (1 .. m) \cup {m + 1}
  BY <1>1
<1> HIDE DEF new
<1>11. TableTypes'
  BY <1>5, <1>6, <1>7 DEF TableInv, TableTypes
<1>12. Distinct'
  <2> SUFFICES ASSUME NEW i \in 1 .. n + 1, NEW j \in 1 .. n + 1,
                      \/ item'[i].target_addr = item'[j].target_addr
                      \/ item'[i].tramp = item'[j].tramp
               PROVE  i = j
    BY <1>5 DEF Distinct
  <2>1. m + 1 \notin 1 .. m
    BY <1>1
  <2>2. QED
    BY <1>2, <1>5, <1>8, <1>9, <1>10, <2>1 DEF TableInv, Distinct
<1>13. Mapped'
  <2>1. ASSUME NEW i \in 1 .. n + 1
        PROVE  /\ saved'[item'[i].target_addr] = "own"
               /\ item'[i].tramp \in 1 .. m + 1
               /\ tramps'[item'[i].tramp] = "own"
    <3>1. CASE i \in 1 .. n
      <4>1. item'[i] = item[i] /\ item[i].tramp \in 1 .. m
        BY <1>5, <1>9, <3>1
      <4>2. tramps'[item[i].tramp] = "own"
        BY <1>6, <3>1, <4>1 DEF TableInv, Mapped
      <4>3. saved'[item[i].target_addr] = "own"
        BY <1>2, <1>7, <3>1 DEF TableInv, TableTypes, Mapped
      <4>4. QED
        BY <1>10, <4>1, <4>2, <4>3
    <3>2. CASE i = n + 1
      BY <1>5, <1>6, <1>7, <1>8, <1>10, <3>2 DEF TableInv, TableTypes
    <3>3. QED
      BY <1>10, <3>1, <3>2
  <2>2. ASSUME NEW k \in 1 .. m + 1, tramps'[k] # NOTHING
        PROVE  \E i \in 1 .. n + 1 : item'[i].tramp = k
    <3>1. CASE k \in 1 .. m
      BY <1>5, <1>6, <1>10, <2>2, <3>1 DEF TableInv, Mapped
    <3>2. CASE k = m + 1
      BY <1>5, <1>8, <1>10, <3>2
    <3>3. QED
      BY <1>10, <3>1, <3>2
  <2>3. QED
    BY <1>5, <1>6, <2>1, <2>2 DEF Mapped
<1>14. JumpsHaveItems'
  BY <1>5, <1>7, <1>8, <1>10 DEF TableInv, JumpsHaveItems
<1>15. HookedJump'
  BY <1>5, <1>7, <1>8, <1>10 DEF TableInv, HookedJump
<1>16. AtItem'
  BY <1>7, <1>8 DEF AtItem, Hooking, Unhooking
<1>17. Flushed'
  BY <1>7, <1>8 DEF TableInv, Flushed
<1>18. QED
  BY <1>11, <1>12, <1>13, <1>14, <1>15, <1>16, <1>17 DEF TableInv

\* The three writes of doInlineHook: the origin, the jump and the status.
LEMMA HookKeeps ==
    ASSUME TableInv, HookProto \/ HookWrite \/ HookStatus
    PROVE  TableInv'
<1> DEFINE p == doing.i
           n == Len(item)
<1>1. /\ p \in 1 .. n /\ n \in Nat /\ item[p].status = "REGISTERED"
      /\ item \in Seq(Item) /\ item[p] \in Item /\ Target \in Functions32
      /\ doing.at \in Hooking /\ doing \in [all : BOOLEAN, i : Nat, at : Hooking]
      /\ DOMAIN item = 1 .. n
  <2>1. doing.at \in Hooking
    BY DEF HookProto, HookWrite, HookStatus, Hooking
  <2>2. /\ p \in 1 .. n /\ n \in Nat /\ item[p].status = "REGISTERED" /\ item \in Seq(Item)
        /\ doing \in [all : BOOLEAN, i : Nat, at : Hooking] /\ DOMAIN item = 1 .. n
    BY <2>1 DEF TableInv, TableTypes, AtItem, Hooking
  <2>3. item[p] \in Item
    BY <2>2, ElementOfSeq
  <2>4. QED
    BY <2>1, <2>2, <2>3 DEF Item, Target
<1>2. \A i \in 1 .. n : item[i] \in Item
  BY <1>1, ElementOfSeq
<1>3. start[Target] = "jump" => doing.at = "status"
  <2>1. ASSUME start[Target] = "jump" PROVE doing.at = "status"
    <3>1. PICK i \in 1 .. n : /\ item[i].target_addr = Target
                              /\ item[i].status = "HOOKED" \/ (doing.at = "status" /\ p = i)
      BY <1>1, <2>1 DEF TableInv, JumpsHaveItems
    <3>2. i = p
      BY <1>1, <3>1 DEF TableInv, Distinct, Target
    <3>3. QED
      BY <1>1, <3>1, <3>2
  <2>2. QED
    BY <2>1
<1>4. CASE HookProto
  <2>1. /\ proto' = [proto EXCEPT ![Target] = item[p].tramp]
        /\ doing' = [all |-> doing.all, i |-> p, at |-> "write"] /\ doing.at = "proto"
        /\ UNCHANGED <<item, start, saved, tramps, unflushed>>
    BY <1>1, <1>4 DEF HookProto
  <2>2. /\ doing'.i = p /\ doing'.at = "write" /\ Target' = Target
        /\ doing' \in [all : BOOLEAN, i : Nat, at : Hooking] /\ item[p].tramp \in Nat
        /\ proto'[Target] = item[p].tramp
    BY <1>1, <2>1 DEF Target, Item, Hooking, TableInv, TableTypes
  <2>3. TableTypes'
    BY <1>1, <2>1, <2>2 DEF TableInv, TableTypes
  <2>4. Distinct' /\ Mapped'
    BY <2>1 DEF TableInv, Distinct, Mapped
  <2>5. JumpsHaveItems'
    BY <1>3, <2>1, <2>2 DEF TableInv, TableTypes, JumpsHaveItems
  <2>6. HookedJump' /\ Flushed'
    BY <2>1, <2>2 DEF TableInv, HookedJump, Flushed
  <2>7. AtItem'
    BY <1>1, <2>1, <2>2 DEF AtItem, Hooking, Unhooking
  <2>8. QED
    BY <2>3, <2>4, <2>5, <2>6, <2>7 DEF TableInv
<1>5. CASE HookWrite
  <2>1. /\ start' = [start EXCEPT ![Target] = "jump"]
        /\ unflushed' = unflushed \cup {Target}
        /\ doing' = [all |-> doing.all, i |-> p, at |-> "status"] /\ doing.at = "write"
        /\ UNCHANGED <<item, saved, proto, tramps>>
    BY <1>1, <1>5 DEF HookWrite
  <2>2. /\ doing'.i = p /\ doing'.at = "status" /\ Target' = Target
        /\ doing' \in [all : BOOLEAN, i : Nat, at : Hooking]
        /\ \A f \in Functions32 : start'[f] = IF f = Target THEN "jump" ELSE start[f]
        /\ proto[Target] = item[p].tramp
    BY <1>1, <2>1 DEF Target, Hooking, TableInv, TableTypes, AtItem
  <2>3. TableTypes'
    BY <1>1, <2>1, <2>2 DEF TableInv, TableTypes
  <2>4. Distinct' /\ Mapped'
    BY <2>1 DEF TableInv, Distinct, Mapped
  <2>5. JumpsHaveItems'
    <3> SUFFICES ASSUME NEW f \in Functions32, start'[f] = "jump"
                 PROVE  \E i \in 1 .. n : /\ item[i].target_addr = f
                                          /\ proto[f] = item[i].tramp
                                          /\ item[i].status = "HOOKED" \/ p = i
      BY <2>1, <2>2 DEF JumpsHaveItems
    <3>1. CASE f = Target
      BY <1>1, <2>2, <3>1 DEF Target
    <3>2. CASE f # Target
      BY <1>1, <2>1, <2>2, <3>2 DEF TableInv, JumpsHaveItems
    <3>3. QED
      BY <3>1, <3>2
  <2>6. HookedJump'
    <3> SUFFICES ASSUME NEW i \in 1 .. n, item[i].status = "HOOKED"
                 PROVE  start'[item[i].target_addr] = "jump"
      BY <2>1 DEF HookedJump
    <3>1. start[item[i].target_addr] = "jump" /\ item[i].target_addr \in Functions32
      BY <1>2, <2>1 DEF TableInv, HookedJump, Item
    <3>2. QED
      BY <2>2, <3>1
  <2>7. Flushed'
    BY <2>1, <2>2 DEF TableInv, TableTypes, Flushed
  <2>8. AtItem'
    BY <1>1, <2>1, <2>2 DEF AtItem, Hooking, Unhooking
  <2>9. QED
    BY <2>3, <2>4, <2>5, <2>6, <2>7, <2>8 DEF TableInv
<1>6. CASE HookStatus
  <2> DEFINE hooked == [item[p] EXCEPT !.status = "HOOKED"]
  <2>1. /\ item' = [item EXCEPT ![p] = hooked]
        /\ unflushed' = unflushed \ {Target}
        /\ doing' = Onward(p + 1, "hooking") /\ doing.at = "status"
        /\ UNCHANGED <<start, saved, proto, tramps>>
    BY <1>6 DEF HookStatus
  <2>2. /\ hooked \in Item /\ hooked.status = "HOOKED"
        /\ hooked.target_addr = item[p].target_addr /\ hooked.tramp = item[p].tramp
    BY <1>1 DEF Item
  <2> HIDE DEF hooked
  <2>3. /\ item' \in Seq(Item) /\ Len(item') = n
        /\ \A i \in 1 .. n : item'[i] = IF i = p THEN hooked ELSE item[i]
    BY <1>1, <2>1, <2>2, ExceptSeq
  <2>4. \A i \in 1 .. n : /\ item'[i].target_addr = item[i].target_addr
                          /\ item'[i].tramp = item[i].tramp
                          /\ item'[i].status = IF i = p THEN "HOOKED" ELSE item[i].status
    BY <2>2, <2>3
  <2>5. /\ doing' \in [all : BOOLEAN, i : Nat, at : {"idle", "hooking", "unhooking"}]
        /\ doing'.at # "idle" => doing'.i > 0
    <3>1. p + 1 \in Nat \ {0}
      BY <1>1
    <3>2. QED
      BY <2>1, <3>1, OnwardTypes DEF TableInv
  <2>6. TableTypes'
    BY <2>1, <2>3, <2>5 DEF TableInv, TableTypes
  <2>7. Distinct' /\ Mapped'
    <3>1. Distinct'
      BY <2>3, <2>4 DEF TableInv, Distinct
    <3>2. Mapped'
      BY <2>1, <2>3, <2>4 DEF TableInv, Mapped
    <3>3. QED
      BY <3>1, <3>2
  <2>8. JumpsHaveItems'
    BY <2>1, <2>3, <2>4 DEF TableInv, JumpsHaveItems
  <2>9. HookedJump'
    <3>1. start[item[p].target_addr] = "jump"
      BY <2>1 DEF TableInv, AtItem, Target
    <3>2. QED
      BY <2>1, <2>3, <2>4, <3>1 DEF TableInv, HookedJump
  <2>10. AtItem'
    BY <2>5 DEF AtItem, Hooking, Unhooking
  <2>11. Flushed'
    BY <2>1 DEF TableInv, Flushed
  <2>12. QED
    BY <2>6, <2>7, <2>8, <2>9, <2>10, <2>11 DEF TableInv
<1>7. QED
  BY <1>4, <1>5, <1>6

\* doInlineUnHook: the function's own instructions are put back.
LEMMA RestoreKeeps ==
    ASSUME TableInv, UnhookRestore
    PROVE  TableInv'
<1> DEFINE p == doing.i
           n == Len(item)
<1>1. /\ doing.at = "restore" /\ p \in 1 .. n /\ n \in Nat /\ item \in Seq(Item)
      /\ item[p].status = "HOOKED"
      /\ doing \in [all : BOOLEAN, i : Nat, at : {"restore"}]
  BY DEF UnhookRestore, TableInv, TableTypes, AtItem, Hooking, Unhooking
<1>2. \A i \in 1 .. n : item[i] \in Item /\ item[i].target_addr \in Functions32
  <2>1. \A i \in 1 .. n : item[i] \in Item
    BY <1>1, ElementOfSeq
  <2>2. QED
    BY <2>1 DEF Item
<1>3. Target \in Functions32 /\ saved[Target] = "own" /\ Target = item[p].target_addr
  BY <1>1, <1>2 DEF TableInv, Mapped, Target
<1>4. /\ start' = [start EXCEPT ![Target] = "own"]
      /\ unflushed' = unflushed \cup {Target}
      /\ doing' = [all |-> doing.all, i |-> p, at |-> "delete"]
      /\ UNCHANGED <<item, saved, proto, tramps>>
  BY <1>1, <1>3 DEF UnhookRestore
<1>5. /\ doing'.i = p /\ doing'.at = "delete" /\ Target' = Target
      /\ doing' \in [all : BOOLEAN, i : Nat, at : Unhooking]
      /\ \A f \in Functions32 : start'[f] = IF f = Target THEN "own" ELSE start[f]
  BY <1>1, <1>3, <1>4 DEF TableInv, TableTypes, Target, Unhooking
<1>6. TableTypes'
  BY <1>3, <1>4, <1>5 DEF TableInv, TableTypes
<1>7. Distinct' /\ Mapped'
  BY <1>4 DEF TableInv, Distinct, Mapped
<1>8. JumpsHaveItems'
  BY <1>1, <1>4, <1>5 DEF TableInv, JumpsHaveItems
<1>9. HookedJump'
  <2> SUFFICES ASSUME NEW i \in 1 .. n, item[i].status = "HOOKED", i # p
               PROVE  start'[item[i].target_addr] = "jump"
    BY <1>4, <1>5 DEF HookedJump
  <2>1. start[item[i].target_addr] = "jump"
    BY <1>1 DEF TableInv, HookedJump
  <2>2. item[i].target_addr # Target
    BY <1>1, <1>3 DEF TableInv, Distinct
  <2>3. QED
    BY <1>2, <1>5, <2>1, <2>2
<1>10. AtItem'
  BY <1>1, <1>3, <1>4, <1>5 DEF AtItem, Hooking, Unhooking
<1>11. Flushed'
  BY <1>1, <1>3, <1>4, <1>5 DEF TableInv, TableTypes, Flushed
<1>12. QED
  BY <1>6, <1>7, <1>8, <1>9, <1>10, <1>11 DEF TableInv

\* The item is deleted with its trampoline and nothing else: the items that
\* stay have other functions and other trampolines.
LEMMA DeleteKeeps ==
    ASSUME TableInv, UnhookDelete
    PROVE  TableInv'
<1> DEFINE p == doing.i
           n == Len(item)
           m == Len(tramps)
           from(k) == IF k = p THEN n ELSE k
<1>1. /\ doing.at = "delete" /\ p \in 1 .. n /\ n \in Nat /\ item \in Seq(Item)
      /\ m \in Nat /\ tramps \in Seq({"own", NOTHING}) /\ start[Target] = "own"
      /\ p \in Nat \ {0}
  BY DEF UnhookDelete, TableInv, TableTypes, AtItem, Hooking, Unhooking
<1>2. \A i \in 1 .. n : /\ item[i] \in Item /\ item[i].target_addr \in Functions32
                        /\ item[i].tramp \in 1 .. m /\ tramps[item[i].tramp] = "own"
  <2>1. \A i \in 1 .. n : item[i] \in Item
    BY <1>1, ElementOfSeq
  <2>2. QED
    BY <2>1 DEF TableInv, Mapped, Item
<1>3. Target = item[p].target_addr /\ Target \in Functions32
  BY <1>1, <1>2 DEF Target
<1>4. /\ tramps' = [tramps EXCEPT ![item[p].tramp] = NOTHING]
      /\ saved' = [saved EXCEPT ![Target] = NOTHING]
      /\ item' = deleteInlineHookItem(p)
      /\ unflushed' \subseteq unflushed
      /\ doing' = Onward(p, "unhooking")
      /\ UNCHANGED <<start, proto>>
  BY DEF UnhookDelete
<1>5. item' \in Seq(Item) /\ Len(item') = n - 1
  BY <1>1, <1>4, Deleted
<1>6. /\ \A k \in 1 .. n - 1 : \E j \in (1 .. n) \ {p} :
            deleteInlineHookItem(p)[k] = item[j] /\ j = from(k)
      /\ \A j \in (1 .. n) \ {p} : \E k \in 1 .. n - 1 :
            deleteInlineHookItem(p)[k] = item[j]
  BY <1>1, DeletedItems
<1>7. /\ \A k \in 1 .. n - 1 : /\ from(k) \in 1 .. n /\ from(k) # p
                               /\ item'[k] = item[from(k)]
      /\ \A j \in (1 .. n) \ {p} : \E k \in 1 .. n - 1 : item'[k] = item[j]
  <2> HIDE DEF from
  <2>1. QED
    BY <1>4, <1>6
<1>8. \A k, l \in 1 .. n - 1 : from(k) = from(l) => k = l
  BY <1>1
<1> HIDE DEF from
<1>9. \A j \in (1 .. n) \ {p} : /\ item[j].target_addr # Target
                                /\ item[j].tramp # item[p].tramp
  BY <1>1, <1>3 DEF TableInv, Distinct
<1>10. /\ tramps' \in Seq({"own", NOTHING}) /\ Len(tramps') = m
       /\ \A k \in 1 .. m : tramps'[k] = IF k = item[p].tramp THEN NOTHING ELSE tramps[k]
  BY <1>1, <1>2, <1>4, ExceptSeq
<1>11. /\ doing' \in [all : BOOLEAN, i : Nat, at : {"idle", "hooking", "unhooking"}]
       /\ doing'.at # "idle" => doing'.i > 0
  BY <1>1, <1>4, OnwardTypes DEF TableInv
<1>12. TableTypes'
  BY <1>3, <1>4, <1>5, <1>10, <1>11 DEF TableInv, TableTypes
<1>13. Distinct'
  <2> SUFFICES ASSUME NEW k \in 1 .. n - 1, NEW l \in 1 .. n - 1,
                      \/ item'[k].target_addr = item'[l].target_addr
                      \/ item'[k].tramp = item'[l].tramp
               PROVE  k = l
    BY <1>5 DEF Distinct
  <2>1. PICK i \in 1 .. n : i = from(k) /\ item'[k] = item[i]
    BY <1>7
  <2>2. PICK j \in 1 .. n : j = from(l) /\ item'[l] = item[j]
    BY <1>7
  <2>3. i = j
    BY <2>1, <2>2 DEF TableInv, Distinct
  <2>4. QED
    BY <1>8, <2>1, <2>2, <2>3
<1>14. Mapped'
  <2>1. ASSUME NEW k \in 1 .. n - 1
        PROVE  /\ saved'[item'[k].target_addr] = "own"
               /\ item'[k].tramp \in 1 .. m
               /\ tramps'[item'[k].tramp] = "own"
    <3>1. PICK j \in (1 .. n) \ {p} : item'[k] = item[j]
      BY <1>7
    <3>2. /\ item[j].target_addr # Target /\ item[j].target_addr \in Functions32
          /\ item[j].tramp # item[p].tramp /\ item[j].tramp \in 1 .. m
          /\ saved[item[j].target_addr] = "own" /\ tramps[item[j].tramp] = "own"
      BY <1>2, <1>9 DEF TableInv, Mapped
    <3>3. saved'[item[j].target_addr] = "own"
      BY <1>3, <1>4, <3>2 DEF TableInv, TableTypes
    <3>4. QED
      BY <1>10, <3>1, <3>2, <3>3
  <2>2. ASSUME NEW t \in 1 .. m, tramps'[t] # NOTHING
        PROVE  \E k \in 1 .. n - 1 : item'[k].tramp = t
    <3>1. t # item[p].tramp /\ tramps[t] # NOTHING
      BY <1>10, <2>2
    <3>2. PICK j \in 1 .. n : item[j].tramp = t
      BY <3>1 DEF TableInv, Mapped
    <3>3. j # p
      BY <3>1, <3>2
    <3>4. QED
      BY <1>7, <3>2, <3>3
  <2>3. QED
    BY <1>5, <1>10, <2>1, <2>2 DEF Mapped
<1>15. JumpsHaveItems'
  <2> SUFFICES ASSUME NEW f \in Functions32, start[f] = "jump"
               PROVE  \E k \in 1 .. n - 1 : /\ item'[k].target_addr = f
                                            /\ proto[f] = item'[k].tramp
                                            /\ item'[k].status = "HOOKED"
    BY <1>4, <1>5 DEF JumpsHaveItems
  <2>1. PICK j \in 1 .. n : /\ item[j].target_addr = f /\ proto[f] = item[j].tramp
                            /\ item[j].status = "HOOKED"
    BY <1>1 DEF TableInv, JumpsHaveItems
  <2>2. j # p
    BY <1>1, <1>3, <2>1
  <2>3. QED
    BY <1>7, <2>1, <2>2
<1>16. HookedJump'
  <2> SUFFICES ASSUME NEW k \in 1 .. n - 1, item'[k].status = "HOOKED"
               PROVE  start[item'[k].target_addr] = "jump"
    BY <1>4, <1>5 DEF HookedJump
  <2>1. PICK j \in (1 .. n) \ {p} : item'[k] = item[j]
    BY <1>7
  <2>2. QED
    BY <1>1, <2>1 DEF TableInv, HookedJump
<1>17. AtItem'
  BY <1>11 DEF AtItem, Hooking, Unhooking
<1>18. Flushed'
  BY <1>1, <1>4 DEF TableInv, Flushed
<1>19. QED
  BY <1>12, <1>13, <1>14, <1>15, <1>16, <1>17, <1>18 DEF TableInv

\* Every step keeps the invariant.
LEMMA TableNext == TableInv /\ [Hook32Next]_hvars => TableInv'
<1> SUFFICES ASSUME TableInv, [Hook32Next]_hvars PROVE TableInv'
  OBVIOUS
<1> USE DEF TableInv
<1>1. /\ Idle \in [all : BOOLEAN, i : Nat, at : {"idle"}]
      /\ Idle.at = "idle" /\ DOMAIN item = 1 .. Len(item) /\ Len(item) \in Nat
  BY DEF Idle, TableTypes
<1>2. ASSUME NEW f \in Functions32, registerInlineHook(f) PROVE TableInv'
  BY <1>2, RegisterKeeps
<1>3. CASE registerRefused
  BY <1>1, <1>3, OnlyDoing DEF registerRefused, CallBegins
<1>4. ASSUME NEW f \in Functions32, inlineHook(f) PROVE TableInv'
  <2>1. CASE \E i \in Find(f) : item[i].status = "REGISTERED"
    <3>1. PICK i \in Find(f) : item[i].status = "REGISTERED"
      BY <2>1
    <3>2. doing' = [all |-> FALSE, i |-> i, at |-> "proto"] /\ i \in 1 .. Len(item)
      BY <1>1, <1>4, <3>1, Found DEF inlineHook, Find
    <3>3. doing'.i = i /\ doing'.at = "proto" /\ i > 0 /\ i <= Len(item)
          /\ doing' \in [all : BOOLEAN, i : Nat, at : {"proto"}]
      BY <1>1, <3>2
    <3>4. QED
      BY <1>1, <1>4, <3>1, <3>3, OnlyDoing DEF inlineHook, CallBegins
  <2>2. CASE ~ \E i \in Find(f) : item[i].status = "REGISTERED"
    BY <1>1, <1>4, <2>2, OnlyDoing DEF inlineHook, CallBegins
  <2>3. QED
    BY <2>1, <2>2
<1>5. CASE inlineHookAll
  BY <1>1, <1>5, OnlyDoing DEF inlineHookAll, CallBegins
<1>6. CASE HookingNext
  <2>1. doing \in [all : BOOLEAN, i : Nat, at : {"hooking"}] /\ doing.i > 0
    BY <1>6 DEF HookingNext, TableTypes, AtItem
  <2>2. CASE doing.i > Len(item)
    BY <1>1, <1>6, <2>1, <2>2, OnlyDoing DEF HookingNext
  <2>3. CASE doing.i <= Len(item) /\ item[doing.i].status = "REGISTERED"
    <3>1. doing' = [all |-> doing.all, i |-> doing.i, at |-> "proto"]
      BY <1>1, <1>6, <2>1, <2>3 DEF HookingNext
    <3>2. QED
      BY <1>6, <2>1, <2>3, <3>1, OnlyDoing DEF HookingNext
  <2>4. CASE doing.i <= Len(item) /\ item[doing.i].status # "REGISTERED"
    <3>1. doing' = [all |-> doing.all, i |-> doing.i + 1, at |-> "hooking"]
      BY <1>1, <1>6, <2>1, <2>4 DEF HookingNext
    <3>2. QED
      BY <1>6, <2>1, <3>1, OnlyDoing DEF HookingNext
  <2>5. QED
    BY <1>1, <2>1, <2>2, <2>3, <2>4
<1>7. CASE HookProto \/ HookWrite \/ HookStatus
  BY <1>7, HookKeeps
<1>8. ASSUME NEW f \in Functions32, inlineUnHook(f) PROVE TableInv'
  <2>1. CASE \E i \in Find(f) : item[i].status = "HOOKED"
    <3>1. PICK i \in Find(f) : item[i].status = "HOOKED"
      BY <2>1
    <3>2. doing' = [all |-> FALSE, i |-> i, at |-> "restore"] /\ i \in 1 .. Len(item)
      BY <1>1, <1>8, <3>1, Found DEF inlineUnHook, Find
    <3>3. doing'.i = i /\ doing'.at = "restore" /\ i > 0 /\ i <= Len(item)
          /\ doing' \in [all : BOOLEAN, i : Nat, at : {"restore"}]
      BY <1>1, <3>2
    <3>4. QED
      BY <1>1, <1>8, <3>1, <3>3, OnlyDoing DEF inlineUnHook, CallBegins
  <2>2. CASE ~ \E i \in Find(f) : item[i].status = "HOOKED"
    BY <1>1, <1>8, <2>2, OnlyDoing DEF inlineUnHook, CallBegins
  <2>3. QED
    BY <2>1, <2>2
<1>9. CASE inlineUnHookAll
  BY <1>1, <1>9, OnlyDoing DEF inlineUnHookAll, CallBegins
<1>10. CASE UnhookingNext
  <2>1. doing \in [all : BOOLEAN, i : Nat, at : {"unhooking"}] /\ doing.i > 0
    BY <1>10 DEF UnhookingNext, TableTypes, AtItem
  <2>2. CASE doing.i > Len(item)
    BY <1>1, <1>10, <2>1, <2>2, OnlyDoing DEF UnhookingNext
  <2>3. CASE doing.i <= Len(item) /\ item[doing.i].status = "HOOKED"
    <3>1. doing' = [all |-> doing.all, i |-> doing.i, at |-> "restore"]
      BY <1>1, <1>10, <2>1, <2>3 DEF UnhookingNext
    <3>2. QED
      BY <1>10, <2>1, <2>3, <3>1, OnlyDoing DEF UnhookingNext
  <2>4. CASE doing.i <= Len(item) /\ item[doing.i].status # "HOOKED"
    <3>1. doing' = [all |-> doing.all, i |-> doing.i + 1, at |-> "unhooking"]
      BY <1>1, <1>10, <2>1, <2>4 DEF UnhookingNext
    <3>2. QED
      BY <1>10, <2>1, <3>1, OnlyDoing DEF UnhookingNext
  <2>5. QED
    BY <1>1, <2>1, <2>2, <2>3, <2>4
<1>11. CASE UnhookRestore
  BY <1>11, RestoreKeeps
<1>12. CASE UnhookDelete
  BY <1>12, DeleteKeeps
<1>13. CASE UNCHANGED hvars
  BY <1>13 DEF hvars, TableTypes, Distinct, Mapped, JumpsHaveItems, HookedJump,
               AtItem, Flushed, Target
<1>14. QED
  BY <1>2, <1>3, <1>4, <1>5, <1>6, <1>7, <1>8, <1>9, <1>10, <1>11, <1>12, <1>13
     DEF Hook32Next

\* The invariant holds of every behaviour.
LEMMA TableAlways == Hook32Spec => []TableInv
  BY TableInit, TableNext, PTL DEF Hook32Spec
-----------------------------------------------------------------------------
\* Whatever was registered, hooked and unhooked before, and in the middle of a
\* call too, whoever meets a function's jump finds an origin to call: a mapped
\* trampoline made of the function's own instructions.
THEOREM HookOriginMapped == Hook32Spec => []OriginMapped
<1>1. TableInv => OriginMapped
  <2> SUFFICES ASSUME TableInv, NEW f \in Functions32, start[f] = "jump"
               PROVE  proto[f] # NOTHING /\ tramps[proto[f]] = "own"
    BY DEF OriginMapped
  <2>1. PICK i \in 1 .. Len(item) : proto[f] = item[i].tramp
    BY DEF TableInv, JumpsHaveItems
  <2>2. item[i].tramp \in 1 .. Len(tramps) /\ tramps[item[i].tramp] = "own"
    BY DEF TableInv, Mapped
  <2>3. QED
    BY <2>1, <2>2, NothingApart DEF TableInv, TableTypes
<1>2. QED
  BY <1>1, TableAlways, PTL

\* Between two calls the table is exact: one item for a function, the hooked
\* ones are the functions with a jump, every jump is flushed, and the mapped
\* trampolines are the items'.
THEOREM HookTableExact == Hook32Spec => []TableExact
<1>1. TableInv => TableExact
  <2> SUFFICES ASSUME TableInv, doing = Idle PROVE TableExact
    BY DEF TableExact
  <2>1. /\ doing.at = "idle" /\ DOMAIN item = 1 .. Len(item)
        /\ DOMAIN tramps = 1 .. Len(tramps) /\ item \in Seq(Item)
    BY DEF TableInv, TableTypes, Idle
  <2>2. \A i \in DOMAIN item : item[i].target_addr \in Functions32
    <3>1. \A i \in DOMAIN item : item[i] \in Item
      BY <2>1, ElementOfSeq
    <3>2. QED
      BY <3>1 DEF Item
  <2>3. ASSUME NEW f \in Functions32 PROVE Cardinality(Find(f)) <= 1
    <3>1. CASE Find(f) = {}
      BY <3>1, FS_EmptySet
    <3>2. CASE Find(f) # {}
      <4>1. PICK i \in Find(f) : TRUE
        BY <3>2
      <4>2. Find(f) = {i}
        BY <2>1, <4>1 DEF Find, TableInv, Distinct
      <4>3. Cardinality({i}) = 1
        BY FS_Singleton
      <4>4. QED
        BY <4>2, <4>3
    <3>3. QED
      BY <3>1, <3>2
  <2>4. {f \in Functions32 : start[f] = "jump"} =
          {item[i].target_addr : i \in {j \in DOMAIN item : item[j].status = "HOOKED"}}
    <3>1. ASSUME NEW f \in Functions32, start[f] = "jump"
          PROVE  \E i \in DOMAIN item : item[i].status = "HOOKED" /\ item[i].target_addr = f
      BY <2>1, <3>1 DEF TableInv, JumpsHaveItems
    <3>2. ASSUME NEW i \in DOMAIN item, item[i].status = "HOOKED"
          PROVE  item[i].target_addr \in Functions32 /\ start[item[i].target_addr] = "jump"
      BY <2>1, <2>2, <3>2 DEF TableInv, HookedJump
    <3>3. QED
      BY <3>1, <3>2
  <2>5. \A f \in unflushed : start[f] = "own"
    BY <2>1 DEF TableInv, Flushed
  <2>6. {n \in DOMAIN tramps : tramps[n] # NOTHING} = {item[i].tramp : i \in DOMAIN item}
    <3>1. \A n \in DOMAIN tramps :
            tramps[n] # NOTHING => \E i \in DOMAIN item : item[i].tramp = n
      BY <2>1 DEF TableInv, Mapped
    <3>2. \A i \in DOMAIN item : /\ item[i].tramp \in DOMAIN tramps
                                 /\ tramps[item[i].tramp] # NOTHING
      BY <2>1, NothingApart DEF TableInv, Mapped
    <3>3. QED
      BY <3>1, <3>2
  <2>7. QED
    BY <2>3, <2>4, <2>5, <2>6 DEF TableExact
<1>2. QED
  BY <1>1, TableAlways, PTL
-----------------------------------------------------------------------------
(* Unwind. *)

\* The trace is not longer than asked for, and the frame pointer of an ARM64
\* walk goes up from the end of the stack.
UnwindInv ==
    /\ thread \in Threads /\ depth \in Nat
    /\ (\E S : trace \in Seq(S)) /\ Len(trace) <= max_depth
    /\ Len(stored) \in Nat /\ (Len(stored) <= 1 \/ Len(stored) <= max_depth - 2)
    /\ thread.arch = "arm64" =>
         {regs.fp, regs.sb} \subseteq Int /\ regs.fp > regs.sb /\ regs.sb >= thread.regs.sb

\* One more entry, while there is room for it.
LEMMA EntryAdded ==
    ASSUME UnwindInv, Continues(trace), NEW e, trace' = Append(trace, e)
    PROVE  (\E S : trace' \in Seq(S)) /\ Len(trace') <= max_depth
<1>1. PICK S : trace \in Seq(S)
      BY DEF UnwindInv
<1>2. trace \in Seq(S \cup {e}) /\ e \in S \cup {e}
      BY <1>1
<1>3. trace' \in Seq(S \cup {e}) /\ Len(trace') = Len(trace) + 1 /\ Len(trace) \in Nat
      BY <1>2
<1>4. Len(trace) < max_depth /\ max_depth \in Nat
      BY DEF Continues, UnwindInv, max_depth
<1> QED
    BY <1>3, <1>4

\* A turn of either unwinder, and the copy, keep the invariant.
LEMMA UnwindStep ==
    ASSUME UnwindInv, [UnwindNext]_uvars
    PROVE  UnwindInv'
<1> USE DEF UnwindInv
<1>1. CASE UnwindFrame32
  <2>1. thread' = thread /\ depth' = depth /\ stored' = stored /\ max_depth' = max_depth /\ thread.arch # "arm64"
        BY <1>1 DEF UnwindFrame32, max_depth
  <2>2. trace' = trace \/ (Continues(trace) /\ \E e : trace' = Append(trace, e))
        BY <1>1 DEF UnwindFrame32
  <2>3. (\E S : trace' \in Seq(S)) /\ Len(trace') <= max_depth
        BY <2>2, EntryAdded
  <2> QED
      BY <2>1, <2>3
<1>2. CASE UnwindFrame64
  <2>1. thread' = thread /\ depth' = depth /\ stored' = stored /\ max_depth' = max_depth /\ thread.arch = "arm64"
        BY <1>2 DEF UnwindFrame64, max_depth
  <2>2. trace' = trace \/ (Continues(trace) /\ \E e : trace' = Append(trace, e))
        BY <1>2 DEF UnwindFrame64
  <2>3. (\E S : trace' \in Seq(S)) /\ Len(trace') <= max_depth
        BY <2>2, EntryAdded
  <2>4. CASE regs' = regs
        BY <2>1, <2>3, <2>4
  <2>5. CASE regs' # regs
    <3>1. PICK fp, pre, tt :
            /\ fp = regs.fp /\ pre = thread.stack[fp] /\ tt = thread.stack[fp + 1]
            /\ isValid(fp, thread.top, regs.sb) /\ pre >= fp + 2
            /\ regs' = [fp |-> pre, sb |-> fp, pc |-> tt]
          BY <1>2, <2>5 DEF UnwindFrame64
    <3>2. {thread.top, thread.regs.sb} \subseteq Int
          BY <2>1, StackRange
    <3>3. fp \in thread.regs.sb + 1 .. thread.top - 1
          BY <2>1, <3>1, <3>2 DEF isValid
    <3>4. pre \in Int
          BY <2>1, <3>1, <3>3, StackRange
    <3>5. /\ {regs'.fp, regs'.sb} \subseteq Int
          /\ regs'.fp > regs'.sb /\ regs'.sb >= thread.regs.sb
          BY <2>1, <3>1, <3>2, <3>3, <3>4
    <3> QED
        BY <2>1, <2>3, <3>5
  <2> QED
      BY <2>4, <2>5
<1>3. CASE InsertTrace
  <2>1. /\ thread' = thread /\ depth' = depth /\ max_depth' = max_depth /\ regs' = regs
        /\ trace' = trace /\ stored' = Copied(trace)
        BY <1>3 DEF InsertTrace, max_depth
  <2>2. PICK S : trace \in Seq(S)
        OBVIOUS
  <2>3. Len(stored') \in Nat /\ (Len(stored') <= 1 \/ Len(stored') <= max_depth - 2)
    <3>1. CASE Len(trace) > 2
      <4>1. stored' = SubSeq(trace, 3, Len(trace))
            BY <2>1, <3>1 DEF Copied
      <4>2. Len(stored') = Len(trace) - 2
            BY <2>2, <3>1, <4>1
      <4> QED
          BY <2>2, <3>1, <4>2 DEF max_depth
    <3>2. CASE ~ Len(trace) > 2
          BY <2>1, <3>2 DEF Copied
    <3> QED
        BY <3>1, <3>2
  <2> QED
      BY <2>1, <2>3
<1>4. CASE UNCHANGED uvars
      BY <1>4 DEF uvars, max_depth
<1> QED
    BY <1>1, <1>2, <1>3, <1>4 DEF UnwindNext

\* The invariant holds in front of the first frame.
LEMMA UnwindStart ==
    ASSUME UnwindInit
    PROVE  UnwindInv
<1>1. PICK t \in Threads, d \in Depths : UnwindInitOf(t, d)
      BY DEF UnwindInit
<1>2. thread = t /\ depth = d /\ regs = t.regs /\ trace = <<>> /\ stored = <<>> /\ d \in Nat
      BY <1>1, TraceArrays DEF UnwindInitOf
<1>3. <<>> \in Seq({}) /\ Len(<<>>) = 0
      OBVIOUS
<1>4. t.arch = "arm64" => {t.regs.fp, t.regs.sb} \subseteq Int /\ t.regs.fp > t.regs.sb
      BY StackRange
<1> QED
    BY <1>2, <1>3, <1>4 DEF UnwindInv, max_depth

\* On any stack, whatever the frame pointers in it are, and with any exception
\* tables: the unwinders read only the thread's stack, and neither the trace
\* nor its copy leaves its array if the depth is configured below its size.
THEOREM UnwindStaysInBounds == UnwindSpec => []UnwindInBounds
<1>1. UnwindInit => UnwindInv
      BY UnwindStart
<1>2. UnwindInv /\ [UnwindNext]_uvars => UnwindInv'
      BY UnwindStep
<1>3. UnwindInv => UnwindInBounds
  <2> SUFFICES ASSUME UnwindInv
               PROVE  TraceFits /\ FramesInStack
      BY DEF UnwindInBounds
  <2>1. TraceFits
    <3>1. Len(trace) \in Nat
          BY DEF UnwindInv
    <3> QED
        BY <3>1, TraceArrays DEF UnwindInv, TraceFits, max_depth
  <2>2. ASSUME thread.arch = "arm64", isValid(regs.fp, thread.top, regs.sb)
        PROVE  {regs.fp, regs.fp + 1} \subseteq DOMAIN thread.stack
    <3>1. {thread.top, thread.regs.sb} \subseteq Int
          BY <2>2, StackRange DEF UnwindInv
    <3>2. PICK fp, sb : fp = regs.fp /\ sb = regs.sb
          OBVIOUS
    <3>3. fp \in Int /\ sb \in Int /\ sb >= thread.regs.sb /\ thread \in Threads
          BY <2>2, <3>2 DEF UnwindInv
    <3>4. fp > sb /\ fp < thread.top - 2
          BY <2>2, <3>2 DEF isValid
    <3>5. fp \in thread.regs.sb + 1 .. thread.top - 1 /\ fp + 1 \in thread.regs.sb + 1 .. thread.top - 1
          BY <3>1, <3>3, <3>4
    <3> QED
        BY <2>2, <3>2, <3>3, <3>5, StackRange
  <2> QED
      BY <2>1, <2>2 DEF UnwindInv, FramesInStack
<1> QED
    BY <1>1, <1>2, <1>3, PTL DEF UnwindSpec

-----------------------------------------------------------------------------
(* Unwind: the calls on an ARM64 stack. *)

\* A stack of N frame records: record k is at fps[k], with the address of the
\* next one and the return address returns[k] (at 0 what the unwinder starts
\* with), and what the last one points to is not a record.  The thread's calls
\* are the return addresses, each once where it is repeated; the first k
\* records give the first made[k] of them.
IsRecord(t, fp) == fp < t.top - 2 /\ t.stack[fp] % 2 = 0 /\ t.stack[fp] >= fp + 2
Chained(t, N, fps, returns, made) ==
    /\ N \in Nat /\ (\E S : t.calls \in Seq(S))
    /\ fps[0] = t.regs.sb /\ fps[1] = t.regs.fp /\ returns[0] = t.regs.pc
    /\ \A k \in 1 .. N : /\ IsRecord(t, fps[k])
                         /\ t.stack[fps[k]] = fps[k + 1] /\ t.stack[fps[k] + 1] = returns[k]
    /\ ~ IsRecord(t, fps[N + 1])
    /\ made[0] = 0 /\ made[N] = Len(t.calls)
    /\ \A k \in 0 .. N : made[k] \in 0 .. Len(t.calls)
    /\ \A k \in 1 .. N :
         IF returns[k] = returns[k - 1] THEN made[k] = made[k - 1]
         ELSE made[k] = made[k - 1] + 1 /\ t.calls[made[k]] = returns[k]
FrameRecords(t) == \E N, fps, returns, made : Chained(t, N, fps, returns, made)

\* The walk stands behind the first k records.
Behind(k, N, fps, returns, made) ==
    /\ Chained(thread, N, fps, returns, made) /\ k \in 0 .. N
    /\ regs.fp = fps[k + 1] /\ regs.sb = fps[k] /\ regs.pc = returns[k]
    /\ trace = SubSeq(thread.calls, 1, made[k]) /\ made[k] <= max_depth
Walked ==
    /\ upc \in {"unwind", "insert", "done"}
    /\ upc = "unwind" => \E k, N, fps, returns, made : Behind(k, N, fps, returns, made)
    /\ upc # "unwind" => trace = UpTo(thread.calls, max_depth)
    /\ upc = "done" => stored = Copied(trace)
ChainInv == UnwindInv /\ (thread.arch = "arm64" /\ FrameRecords(thread) => Walked)

\* One more entry of a prefix.
LEMMA PrefixGrows ==
    ASSUME NEW S, NEW s \in Seq(S), NEW n \in Nat, n + 1 <= Len(s)
    PROVE  SubSeq(s, 1, n + 1) = Append(SubSeq(s, 1, n), s[n + 1])
<1>1. /\ Len(SubSeq(s, 1, n + 1)) = n + 1 /\ SubSeq(s, 1, n + 1) \in Seq(S)
      /\ Len(SubSeq(s, 1, n)) = n /\ SubSeq(s, 1, n) \in Seq(S) /\ s[n + 1] \in S
      OBVIOUS
<1>2. PICK a, b : a = SubSeq(s, 1, n + 1) /\ b = Append(SubSeq(s, 1, n), s[n + 1])
      OBVIOUS
<1>3. a \in Seq(S) /\ b \in Seq(S) /\ Len(a) = n + 1 /\ Len(b) = n + 1
      BY <1>1, <1>2
<1>4. ASSUME NEW i \in 1 .. n + 1 PROVE a[i] = b[i]
  <2>1. CASE i = n + 1
        BY <1>1, <1>2, <2>1
  <2>2. CASE i \in 1 .. n
        BY <1>1, <1>2, <2>2
  <2> QED
      BY <2>1, <2>2
<1> QED
    BY <1>2, <1>3, <1>4, SeqEqual

\* A turn of unwind_backtrace over such a stack.
LEMMA Frame64Walked ==
    ASSUME UnwindInv, UnwindFrame64, FrameRecords(thread), Walked
    PROVE  Walked'
<1>1. /\ upc = "unwind" /\ thread.arch = "arm64" /\ thread' = thread /\ stored' = stored
      /\ max_depth' = max_depth
      BY DEF UnwindFrame64, max_depth
<1>2. PICK k, N, fps, returns, made : Behind(k, N, fps, returns, made)
      BY <1>1 DEF Walked
<1>3. PICK t, s, r, d, S : /\ t = thread /\ s = t.calls /\ r = regs /\ d = max_depth /\ s \in Seq(S)
                           /\ t \in Threads
      BY <1>2 DEF Behind, Chained, UnwindInv
<1>4. /\ N \in Nat /\ k \in 0 .. N /\ d \in Nat /\ made[k] \in 0 .. Len(s) /\ Len(s) \in Nat
      /\ r.fp = fps[k + 1] /\ r.sb = fps[k] /\ r.pc = returns[k] /\ Chained(t, N, fps, returns, made)
      /\ trace = SubSeq(s, 1, made[k]) /\ made[k] <= d
      BY <1>2, <1>3 DEF Behind, Chained, UnwindInv, max_depth
<1>5. Len(trace) = made[k]
      BY <1>3, <1>4, SubSeqProperties
<1>6. r.fp > r.sb /\ r.fp \in Int /\ r.sb \in Int /\ t.top \in Int
      BY <1>1, <1>3, StackRange DEF UnwindInv
<1>7. CASE IsRecord(t, r.fp) /\ made[k] < d
  <2>1. k + 1 \in 1 .. N
    <3>1. ~ IsRecord(t, fps[N + 1])
          BY <1>4 DEF Chained
    <3>2. k # N
          BY <1>4, <1>7, <3>1
    <3> QED
        BY <1>4, <3>2
  <2>2. /\ t.stack[r.fp] = fps[k + 2] /\ t.stack[r.fp + 1] = returns[k + 1]
        /\ made[k + 1] \in 0 .. Len(s)
        /\ IF returns[k + 1] = returns[k] THEN made[k + 1] = made[k]
           ELSE made[k + 1] = made[k] + 1 /\ s[made[k + 1]] = returns[k + 1]
    <3>1. (k + 1) + 1 = k + 2 /\ (k + 1) - 1 = k /\ k + 1 \in 0 .. N
          BY <1>4, <2>1
    <3> QED
        BY <1>3, <1>4, <2>1, <3>1 DEF Chained
  <2>3. /\ trace' = IF returns[k + 1] # returns[k] THEN Append(trace, returns[k + 1]) ELSE trace
        /\ regs' = [fp |-> fps[k + 2], sb |-> r.fp, pc |-> returns[k + 1]]
        /\ upc' = "unwind"
        BY <1>1, <1>3, <1>4, <1>5, <1>6, <1>7, <2>2
        DEF UnwindFrame64, IsRecord, isValid, Continues
  <2>4. trace' = SubSeq(s, 1, made[k + 1]) /\ made[k + 1] <= d
    <3>1. CASE returns[k + 1] = returns[k]
          BY <1>4, <2>2, <2>3, <3>1
    <3>2. CASE returns[k + 1] # returns[k]
      <4>1. PICK n \in Nat : n = made[k] /\ n + 1 <= Len(s)
            BY <1>4, <2>2, <3>2
      <4>2. SubSeq(s, 1, n + 1) = Append(SubSeq(s, 1, n), s[n + 1])
            BY <1>3, <4>1, PrefixGrows
      <4>3. made[k + 1] = n + 1 /\ s[n + 1] = returns[k + 1] /\ trace = SubSeq(s, 1, n)
            BY <1>4, <2>2, <3>2, <4>1
      <4>4. trace' = SubSeq(s, 1, made[k + 1])
            BY <2>3, <3>2, <4>2, <4>3
      <4> QED
          BY <1>4, <1>7, <4>1, <4>3, <4>4
    <3> QED
        BY <3>1, <3>2
  <2>5. Behind(k + 1, N, fps, returns, made)'
    <3>1. regs'.fp = fps[(k + 1) + 1] /\ regs'.sb = fps[k + 1] /\ regs'.pc = returns[k + 1] /\ k + 1 \in 0 .. N
          BY <1>4, <2>1, <2>3
    <3> QED
        BY <1>1, <1>3, <1>4, <2>4, <3>1 DEF Behind
  <2> QED
      BY <2>3, <2>5 DEF Walked
<1>8. CASE ~ (IsRecord(t, r.fp) /\ made[k] < d)
  <2>1. upc' = "insert" /\ trace' = trace
        BY <1>1, <1>3, <1>4, <1>5, <1>6, <1>8
        DEF UnwindFrame64, IsRecord, isValid, Continues
  <2>2. made[k] = IF Len(s) < d THEN Len(s) ELSE d
    <3>1. CASE made[k] < d
      <4>1. \A m \in 1 .. N : IsRecord(t, fps[m])
            BY <1>4 DEF Chained
      <4>2. k + 1 \notin 1 .. N
            BY <1>4, <1>8, <3>1, <4>1
      <4>3. k = N
            BY <1>4, <4>2
      <4> QED
          BY <1>3, <1>4, <3>1, <4>3 DEF Chained
    <3>2. CASE ~ made[k] < d
          BY <1>4, <3>2
    <3> QED
        BY <3>1, <3>2
  <2> QED
      BY <1>1, <1>3, <1>4, <2>1, <2>2 DEF Walked, UpTo
<1> QED
    BY <1>7, <1>8

\* For every ARM64 stack that is a chain of frame records, as long and as high
\* as it likes, and every depth: the trace is the thread's calls, innermost
\* first and up to the depth, and the record has them without the first two.
THEOREM Unwind64CallChain ==
    UnwindSpec => [](thread.arch = "arm64" /\ FrameRecords(thread) => TraceIsCallChain)
<1>1. UnwindInit => ChainInv
  <2> SUFFICES ASSUME UnwindInit, thread.arch = "arm64", FrameRecords(thread) PROVE Walked
      BY UnwindStart DEF ChainInv
  <2>1. regs = thread.regs /\ trace = <<>> /\ upc = "unwind" /\ depth \in Nat
        BY UnwindStart DEF UnwindInit, UnwindInitOf, UnwindInv
  <2>2. PICK N, fps, returns, made : Chained(thread, N, fps, returns, made)
        BY DEF FrameRecords
  <2>3. Behind(0, N, fps, returns, made)
    <3>1. PICK S : thread.calls \in Seq(S)
          BY <2>2 DEF Chained
    <3>2. SubSeq(thread.calls, 1, 0) = <<>>
          BY <3>1
    <3> QED
        BY <2>1, <2>2, <3>2 DEF Behind, Chained, max_depth
  <2> QED
      BY <2>1, <2>3 DEF Walked
<1>2. ChainInv /\ [UnwindNext]_uvars => ChainInv'
  <2> SUFFICES ASSUME ChainInv, [UnwindNext]_uvars, thread'.arch = "arm64", FrameRecords(thread)'
               PROVE  Walked'
      BY UnwindStep DEF ChainInv
  <2>1. thread' = thread
        BY DEF UnwindNext, UnwindFrame32, UnwindFrame64, InsertTrace, uvars
  <2>2. thread.arch = "arm64" /\ FrameRecords(thread) /\ Walked
        BY <2>1 DEF ChainInv
  <2>3. CASE UnwindFrame64
        BY <2>2, <2>3, Frame64Walked DEF ChainInv
  <2>4. CASE InsertTrace
        BY <2>1, <2>2, <2>4 DEF InsertTrace, Walked, max_depth
  <2>5. CASE UNCHANGED uvars
    <3>1. \A k, N, fps, returns, made :
            Behind(k, N, fps, returns, made)' <=> Behind(k, N, fps, returns, made)
          BY <2>5 DEF uvars, Behind, max_depth
    <3> QED
        BY <2>2, <2>5, <3>1 DEF uvars, Walked, max_depth
  <2> QED
      BY <2>2, <2>3, <2>4, <2>5 DEF UnwindNext, UnwindFrame32
<1>3. ChainInv => (thread.arch = "arm64" /\ FrameRecords(thread) => TraceIsCallChain)
      BY DEF ChainInv, Walked, TraceIsCallChain, Copied
<1> QED
    BY <1>1, <1>2, <1>3, PTL DEF UnwindSpec

-----------------------------------------------------------------------------
(* Inline64. *)

\* Word w can be at address a: a literal of it is aligned.
GoodAt(w, a) == IsWord(w) /\ (w.op = "ldr" => (a + w.off) % w.al = 0)

\* The words the engine makes.
LEMMA Made ==
    /\ \A n \in Int : IsWord(B(n)) /\ B(n).op # "ldr"
    /\ \A n \in Int : IsWord(AdrX30(n)) /\ AdrX30(n).op # "ldr"
    /\ \A v : IsWord(Data(v)) /\ Data(v).op = "data"
    /\ IsWord(Nop) /\ Nop.op # "ldr" /\ IsWord(BrX17) /\ BrX17.op # "ldr"
    /\ \A n \in Int, rd \in Int :
         IsWord(LdrX(rd, n)) /\ LdrX(rd, n).op = "ldr" /\ LdrX(rd, n).al = 2 /\ LdrX(rd, n).off = n
<1>1. \A op : Word(op) = [op |-> op, rd |-> 0, size |-> 0, al |-> 1, off |-> 0, low |-> 0, val |-> <<"none">>]
      BY DEF Word
<1>2. ASSUME NEW n \in Int
      PROVE  IsWord(B(n)) /\ B(n).op # "ldr" /\ IsWord(AdrX30(n)) /\ AdrX30(n).op # "ldr"
  <2>1. B(n) = [op |-> "b", rd |-> 0, size |-> 0, al |-> 1, off |-> n, low |-> 0, val |-> <<"none">>]
        BY <1>1 DEF B
  <2>2. AdrX30(n) = [op |-> "link", rd |-> 0, size |-> 0, al |-> 1, off |-> n, low |-> 0, val |-> <<"none">>]
        BY <1>1 DEF AdrX30
  <2> QED
      BY <2>1, <2>2 DEF IsWord
<1>3. ASSUME NEW v
      PROVE  IsWord(Data(v)) /\ Data(v).op = "data"
  <2>1. Data(v) = [op |-> "data", rd |-> 0, size |-> 0, al |-> 1, off |-> 0, low |-> 0, val |-> v]
        BY <1>1 DEF Data
  <2> QED
      BY <2>1 DEF IsWord
<1>4. IsWord(Nop) /\ Nop.op # "ldr" /\ IsWord(BrX17) /\ BrX17.op # "ldr"
      BY <1>1 DEF Nop, BrX17, IsWord
<1>5. ASSUME NEW n \in Int, NEW rd \in Int
      PROVE  IsWord(LdrX(rd, n)) /\ LdrX(rd, n).op = "ldr" /\ LdrX(rd, n).al = 2 /\ LdrX(rd, n).off = n
  <2>1. PICK w : w = Word("ldr")
        OBVIOUS
  <2>2. w = [op |-> "ldr", rd |-> 0, size |-> 0, al |-> 1, off |-> 0, low |-> 0, val |-> <<"none">>]
        BY <1>1, <2>1
  <2>3. LdrX(rd, n) = [w EXCEPT !.rd = rd, !.size = 2, !.al = 2, !.off = n]
        BY <2>1 DEF LdrX
  <2>4. LdrX(rd, n) = [op |-> "ldr", rd |-> rd, size |-> 2, al |-> 2, off |-> n, low |-> 0, val |-> <<"none">>]
        BY <2>2, <2>3
  <2> QED
      BY <2>4 DEF IsWord
<1> QED
    BY <1>2, <1>3, <1>4, <1>5

\* A word with another operand.
LEMMA OffChanged ==
    ASSUME NEW w, IsWord(w), NEW x \in Int, NEW v, v = [w EXCEPT !.off = x]
    PROVE  IsWord(v) /\ v.op = w.op /\ v.al = w.al /\ v.off = x /\ v.rd = w.rd /\ v.low = w.low
BY DEF IsWord

\* The words of s can be in a row from address a on.
Aligned(s, a) == \A k \in 1 .. Len(s) : GoodAt(s[k], a + k - 1)

\* One sequence of words behind another.
LEMMA Joined ==
    ASSUME NEW U, NEW s \in Seq(U), NEW t \in Seq(U), NEW a \in Int, Aligned(s, a), Aligned(t, a + Len(s))
    PROVE  /\ s \o t \in Seq(U) /\ Len(s \o t) = Len(s) + Len(t) /\ Aligned(s \o t, a)
           /\ \A k \in 1 .. Len(s) : (s \o t)[k] = s[k]
           /\ \A k \in 1 .. Len(t) : (s \o t)[Len(s) + k] = t[k]
<1>q. PICK q : q = s \o t
      OBVIOUS
<1>1. PICK n \in Nat, m \in Nat : n = Len(s) /\ m = Len(t)
      OBVIOUS
<1>2. /\ q \in Seq(U) /\ Len(q) = n + m
      /\ \A i \in 1 .. n + m : q[i] = IF i <= n THEN s[i] ELSE t[i - n]
      BY <1>q, <1>1, ConcatProperties
<1>3. ASSUME NEW k \in 1 .. n + m
      PROVE  GoodAt(q[k], a + k - 1)
  <2>1. CASE k <= n
        BY <1>1, <1>2, <2>1 DEF Aligned
  <2>2. CASE k > n
    <3>1. PICK i : i = k - n
          OBVIOUS
    <3>2. i \in 1 .. m /\ a + n + i - 1 = a + k - 1 /\ q[k] = t[i]
          BY <1>1, <1>2, <2>2, <3>1
    <3>3. GoodAt(t[i], a + n + i - 1)
          BY <1>1, <3>2 DEF Aligned
    <3> QED
        BY <3>2, <3>3
  <2> QED
      BY <1>1, <2>1, <2>2
<1>4. \A k \in 1 .. n : q[k] = s[k]
      BY <1>1, <1>2
<1>5. ASSUME NEW k \in 1 .. m
      PROVE  q[n + k] = t[k]
  <2>1. n + k \in 1 .. n + m /\ ~ (n + k <= n) /\ n + k - n = k
        BY <1>1
  <2> QED
      BY <1>2, <2>1
<1> QED
    BY <1>q, <1>1, <1>2, <1>3, <1>4, <1>5 DEF Aligned

\* A context at a row that begins at base: its words can be where they are,
\* and what waits in its fix map are words that load nothing.
FixMaps == [0 .. 4 -> SUBSET Nat]
Places == [0 .. 4 -> Int]
Cleared(M, i) == [M EXCEPT ![i] = {}]
CtxOf(S) == [in : 0 .. 5, out : Seq(S), dat : Places, first : Places, fmap : FixMaps]
CtxType(c) == \E S : c \in CtxOf(S)
Waiting(M, s) == \A j \in 0 .. 4 : \A p \in M[j] : p < Len(s) /\ s[p + 1].op # "ldr"
Moved(c, base) == Aligned(c.out, base) /\ Waiting(c.fmap, c.out)

\* The words at the places P, counted from 0, lead to the place at.
Complete(s, P, at) == [k \in DOMAIN s |-> IF k - 1 \in P THEN [s[k] EXCEPT !.off = at - (k - 1)] ELSE s[k]]

\* A sequence is one over any larger set.
LEMMA Larger ==
    ASSUME NEW S, NEW U, S \subseteq U, NEW s \in Seq(S)
    PROVE  s \in Seq(U)
OBVIOUS

\* Completing the words that wait for the place at.
LEMMA Completed ==
    ASSUME NEW U, NEW s \in Seq(U), NEW a \in Int, Aligned(s, a), NEW M \in FixMaps, Waiting(M, s),
           NEW i \in 0 .. 4, NEW at \in Int
    PROVE  /\ \E V : Complete(s, M[i], at) \in Seq(V)
           /\ Len(Complete(s, M[i], at)) = Len(s)
           /\ Aligned(Complete(s, M[i], at), a)
           /\ Waiting(Cleared(M, i), Complete(s, M[i], at))
<1>n. PICK new : new = Complete(s, M[i], at)
      OBVIOUS
<1>1. PICK N \in Nat : N = Len(s) /\ DOMAIN s = 1 .. N
      OBVIOUS
<1>2. PICK V : V = {new[k] : k \in 1 .. N}
      OBVIOUS
<1>3. new \in Seq(V) /\ Len(new) = N
  <2>1. new = [k \in 1 .. N |-> new[k]]
        BY <1>n, <1>1 DEF Complete
  <2> QED
      BY <1>1, <1>2, <2>1
<1>4. ASSUME NEW k \in 1 .. N
      PROVE  GoodAt(new[k], a + k - 1) /\ new[k].op = s[k].op
  <2>1. GoodAt(s[k], a + k - 1) /\ IsWord(s[k])
        BY <1>1 DEF Aligned, GoodAt
  <2>2. CASE k - 1 \in M[i]
    <3>1. k - 1 + 1 = k
          BY <1>1
    <3>2. s[k].op # "ldr"
          BY <2>2, <3>1 DEF Waiting
    <3>3. PICK w, v, x : w = s[k] /\ v = new[k] /\ x = at - (k - 1)
          OBVIOUS
    <3>4. v = [w EXCEPT !.off = x] /\ x \in Int /\ IsWord(w)
          BY <1>n, <1>1, <2>1, <2>2, <3>3 DEF Complete
    <3>5. IsWord(v) /\ v.op = w.op
          BY <3>4, OffChanged
    <3> QED
        BY <3>2, <3>3, <3>5 DEF GoodAt
  <2>3. CASE k - 1 \notin M[i]
        BY <1>n, <1>1, <2>1, <2>3 DEF Complete
  <2> QED
      BY <2>2, <2>3
<1>5. ASSUME NEW j \in 0 .. 4, NEW p \in [M EXCEPT ![i] = {}][j]
      PROVE  p < N /\ new[p + 1].op # "ldr"
  <2>1. p \in M[j] /\ p \in Nat
        BY DEF FixMaps
  <2>2. p < N /\ s[p + 1].op # "ldr"
        BY <1>1, <2>1 DEF Waiting
  <2>3. p + 1 \in 1 .. N
        BY <1>1, <2>1, <2>2
  <2> QED
      BY <1>4, <2>2, <2>3
<1> QED
    BY <1>n, <1>1, <1>3, <1>4, <1>5 DEF Aligned, Waiting, Cleared

\* A context is made of its parts.
LEMMA CtxMade ==
    ASSUME NEW V, NEW i \in 0 .. 5, NEW s \in Seq(V), NEW d \in Places, NEW g \in Places,
           NEW h \in FixMaps
    PROVE  [in |-> i, out |-> s, dat |-> d, first |-> g, fmap |-> h] \in CtxOf(V)
BY DEF CtxOf

\* What waits for words of the function can be the instruction that is put.
MayWait(c, lead, words) == Waiting(c.fmap, c.out) \/ (lead = 0 /\ Waiting(c.fmap, c.out \o words))
PutDone(c, lead, words, base) ==
    /\ CtxType(Put(c, lead, words)) /\ Moved(Put(c, lead, words), base)
    /\ Put(c, lead, words).in = c.in + 1
    /\ Len(Put(c, lead, words).out) = Len(c.out) + lead + Len(words)

\* Writing one fixed instruction.
LEMMA PutKeeps ==
    ASSUME NEW c, CtxType(c), c.in \in 0 .. 4, NEW base \in Int, NEW lead \in 0 .. 3,
           NEW T, NEW words \in Seq(T),
           Aligned(c.out, base), Aligned(words, base + Len(c.out) + lead), MayWait(c, lead, words)
    PROVE  PutDone(c, lead, words, base)
<1>r. PICK r : r = Put(c, lead, words)
      OBVIOUS
<1>1. PICK S : c \in CtxOf(S)
      BY DEF CtxType
<1>2. PICK o \in Seq(S), n \in Nat, m \in Nat : o = c.out /\ n = Len(o) /\ m = Len(words)
      BY <1>1 DEF CtxOf
<1>3. PICK nops : nops = [k \in 1 .. lead |-> Nop]
      OBVIOUS
<1>4. nops \in Seq({Nop}) /\ Len(nops) = lead /\ Aligned(nops, base + n)
  <2>1. nops \in Seq({Nop}) /\ Len(nops) = lead /\ \A k \in 1 .. lead : nops[k] = Nop
        BY <1>3
  <2>2. \A x : GoodAt(Nop, x)
        BY Made DEF GoodAt
  <2> QED
      BY <2>1, <2>2 DEF Aligned
<1>5. PICK U : U = S \cup {Nop} \cup T
      OBVIOUS
<1>6. o \in Seq(U) /\ nops \in Seq(U) /\ words \in Seq(U)
  <2>1. S \subseteq U /\ {Nop} \subseteq U /\ T \subseteq U
        BY <1>5
  <2> QED
      BY <1>2, <1>4, <2>1, Larger
<1>7. PICK q : q = o \o nops
      OBVIOUS
<1>8. /\ q \in Seq(U) /\ Len(q) = n + lead /\ Aligned(q, base)
      /\ \A k \in 1 .. n : q[k] = o[k]
  <2>1. Aligned(o, base) /\ Aligned(nops, base + Len(o))
        BY <1>2, <1>4
  <2>2. /\ o \o nops \in Seq(U) /\ Len(o \o nops) = Len(o) + Len(nops) /\ Aligned(o \o nops, base)
        /\ \A k \in 1 .. Len(o) : (o \o nops)[k] = o[k]
        BY <1>6, <2>1, Joined
  <2> QED
      BY <1>2, <1>4, <1>7, <2>2
<1>9. PICK out : out = q \o words
      OBVIOUS
<1>10. /\ out \in Seq(U) /\ Len(out) = n + lead + m /\ Aligned(out, base)
       /\ \A k \in 1 .. n + lead : out[k] = q[k]
  <2>1. Aligned(words, base + Len(q))
    <3>1. base + Len(q) = base + Len(c.out) + lead
          BY <1>2, <1>8
    <3> QED
        BY <3>1
  <2>2. /\ q \o words \in Seq(U) /\ Len(q \o words) = Len(q) + Len(words) /\ Aligned(q \o words, base)
        /\ \A k \in 1 .. Len(q) : (q \o words)[k] = q[k]
        BY <1>6, <1>8, <2>1, Joined
  <2> QED
      BY <1>2, <1>8, <1>9, <2>2
<1>11. PICK M \in FixMaps : M = c.fmap
      BY <1>1 DEF CtxOf
<1>12. Waiting(M, out)
  <2>1. CASE Waiting(c.fmap, c.out)
    <3> SUFFICES ASSUME NEW j \in 0 .. 4, NEW p \in M[j]
                 PROVE  p < Len(out) /\ out[p + 1].op # "ldr"
        BY DEF Waiting
    <3>1. p \in Nat /\ p < n /\ o[p + 1].op # "ldr"
          BY <1>2, <1>11, <2>1 DEF Waiting, FixMaps
    <3>2. p + 1 \in 1 .. n /\ p + 1 \in 1 .. n + lead /\ p < n + lead + m
          BY <1>2, <3>1
    <3> QED
        BY <1>8, <1>10, <3>1, <3>2
  <2>2. CASE lead = 0 /\ Waiting(c.fmap, c.out \o words)
    <3>1. nops = <<>>
          BY <1>3, <2>2
    <3>2. q = o
          BY <1>6, <1>7, <3>1, ConcatEmptySeq
    <3> QED
        BY <1>2, <1>9, <1>11, <2>2, <3>2
  <2> QED
      BY <2>1, <2>2 DEF MayWait
<1>13. PICK i \in 0 .. 4, at \in Int : i = c.in /\ at = n + lead
      BY <1>2
<1>14. PICK new : new = Complete(out, M[i], at)
      OBVIOUS
<1>15. /\ \E V : new \in Seq(V)
       /\ Len(new) = Len(out) /\ Aligned(new, base) /\ Waiting(Cleared(M, i), new)
  <2>a. out \in Seq(U) /\ Aligned(out, base)
        BY <1>10
  <2>b. M \in FixMaps /\ i \in 0 .. 4 /\ at \in Int
        BY <1>11, <1>13
  <2>1. /\ \E V : Complete(out, M[i], at) \in Seq(V)
        /\ Len(Complete(out, M[i], at)) = Len(out)
        /\ Aligned(Complete(out, M[i], at), base)
        /\ Waiting(Cleared(M, i), Complete(out, M[i], at))
        BY <1>12, <2>a, <2>b, Completed, Zenon
  <2> QED
      BY <1>14, <2>1
<1>16. PICK V : new \in Seq(V)
      BY <1>15
<1>17. PICK d, g, h : d = [c.dat EXCEPT ![i] = at] /\ g = [c.first EXCEPT ![i] = n] /\ h = [M EXCEPT ![i] = {}]
      OBVIOUS
<1>18. d \in Places /\ g \in Places /\ h \in FixMaps
  <2>1. c.dat \in Places /\ c.first \in Places /\ n \in Int
        BY <1>1, <1>2 DEF CtxOf
  <2> QED
      BY <1>11, <1>13, <1>17, <2>1 DEF Places, FixMaps
<1>19. r = [in |-> i + 1, out |-> new, dat |-> d, first |-> g, fmap |-> h]
  <2>1. r = [c EXCEPT !.out = new, !.dat[c.in] = at, !.first[c.in] = n, !.fmap[c.in] = {}, !.in = @ + 1]
        BY <1>r, <1>2, <1>3, <1>7, <1>9, <1>11, <1>13, <1>14 DEF Put, Complete
  <2> QED
      BY <1>1, <1>11, <1>13, <1>17, <2>1 DEF CtxOf, Places, FixMaps
<1>20. r \in CtxOf(V)
  <2>1. i + 1 \in 0 .. 5
        BY <1>13
  <2> QED
      BY <1>16, <1>18, <1>19, <2>1, CtxMade
<1>21. CtxType(r)
      BY <1>20 DEF CtxType
<1>22. r.out = new /\ r.fmap = h /\ r.in = c.in + 1
      BY <1>13, <1>19
<1> QED
    BY <1>r, <1>2, <1>10, <1>15, <1>17, <1>21, <1>22 DEF Moved, Cleared, PutDone

\* A context that one more word can be moved from, and what it is then.
Ready(c, base) == base \in Int /\ CtxType(c) /\ c.in \in 0 .. 4 /\ Moved(c, base)
Fixed(c, r, base) ==
    /\ CtxType(r) /\ Moved(r, base) /\ r.in = c.in + 1
    /\ Len(r.out) <= Len(c.out) + 9

\* The length of what was written.
LEMMA OutLength ==
    ASSUME NEW c, CtxType(c)
    PROVE  Len(c.out) \in Nat
BY DEF CtxType, CtxOf

\* An instruction of nine words or fewer that is aligned where it is put.
LEMMA PutFixed ==
    ASSUME NEW c, NEW base, Ready(c, base), NEW lead \in 0 .. 3, NEW T, NEW words \in Seq(T),
           Aligned(words, base + Len(c.out) + lead), lead + Len(words) <= 9
    PROVE  Fixed(c, Put(c, lead, words), base)
<1>1. base \in Int /\ CtxType(c) /\ c.in \in 0 .. 4 /\ Aligned(c.out, base) /\ MayWait(c, lead, words)
      BY DEF Ready, Moved, MayWait
<1>2. PutDone(c, lead, words, base)
      BY <1>1, PutKeeps
<1>3. Len(c.out) \in Nat /\ Len(words) \in Nat
      BY <1>1, OutLength
<1> QED
    BY <1>2, <1>3 DEF Fixed, PutDone

\* A word that loads nothing can be anywhere.
LEMMA NoLoad ==
    ASSUME NEW w, IsWord(w), w.op # "ldr"
    PROVE  \A x : GoodAt(w, x)
BY DEF GoodAt

\* One word.
LEMMA OneWord ==
    ASSUME NEW w, NEW x \in Int, GoodAt(w, x)
    PROVE  <<w>> \in Seq({w}) /\ Len(<<w>>) = 1 /\ Aligned(<<w>>, x)
BY DEF Aligned

\* Words in front of an address.
LEMMA BeforeAddress ==
    ASSUME NEW T, NEW s \in Seq(T), NEW x \in Int, Aligned(s, x), NEW a, NEW low
    PROVE  /\ \E U : s \o Address(a, low) \in Seq(U)
           /\ Len(s \o Address(a, low)) = Len(s) + 2
           /\ Aligned(s \o Address(a, low), x)
<1>1. PICK t : t = Address(a, low)
      OBVIOUS
<1>2. PICK u, v : t = <<u, v>> /\ (\A y : GoodAt(u, y)) /\ (\A y : GoodAt(v, y))
      BY <1>1, Made, NoLoad DEF Address
<1>3. PICK U : U = T \cup {u, v}
      OBVIOUS
<1>4. t \in Seq(U) /\ Len(t) = 2 /\ \A k \in 1 .. 2 : \A y : GoodAt(t[k], y)
      BY <1>2, <1>3
<1>5. s \in Seq(U)
      BY <1>3, Larger
<1>6. Aligned(t, x + Len(s))
      BY <1>4 DEF Aligned
<1>7. s \o t \in Seq(U) /\ Len(s \o t) = Len(s) + Len(t) /\ Aligned(s \o t, x)
      BY <1>4, <1>5, <1>6, Joined
<1> QED
    BY <1>1, <1>4, <1>7

\* Several words and the address they load, put where they are aligned.
LEMMA PutLiteral ==
    ASSUME NEW c, NEW base, Ready(c, base), NEW lead \in 0 .. 1, NEW T, NEW s \in Seq(T), Len(s) <= 4,
           Aligned(s, base + Len(c.out) + lead), NEW a, NEW low
    PROVE  Fixed(c, Put(c, lead, s \o Address(a, low)), base)
<1>1. base + Len(c.out) + lead \in Int
      BY OutLength DEF Ready
<1>2. PICK U : s \o Address(a, low) \in Seq(U)
      BY <1>1, BeforeAddress
<1>3. Len(s \o Address(a, low)) = Len(s) + 2 /\ Aligned(s \o Address(a, low), base + Len(c.out) + lead)
      BY <1>1, BeforeAddress
<1>4. lead \in 0 .. 3 /\ lead + Len(s \o Address(a, low)) <= 9
      BY <1>3
<1> QED
    BY <1>2, <1>3, <1>4, PutFixed

\* An instruction that stays one word.
LEMMA PutOne ==
    ASSUME NEW c, NEW base, Ready(c, base), NEW w, IsWord(w), w.op # "ldr"
    PROVE  Fixed(c, Put(c, 0, <<w>>), base)
<1>1. base + Len(c.out) + 0 \in Int
      BY OutLength DEF Ready
<1>2. <<w>> \in Seq({w}) /\ Len(<<w>>) = 1 /\ Aligned(<<w>>, base + Len(c.out) + 0)
      BY <1>1, NoLoad, OneWord
<1>3. 0 + Len(<<w>>) <= 9 /\ 0 \in 0 .. 3
      BY <1>2
<1> QED
    BY <1>2, <1>3, PutFixed

\* How many nops it takes.
LEMMA Leads ==
    ASSUME NEW al \in {1, 2, 4}, NEW a \in Int
    PROVE  Lead(al, a) \in 0 .. 3 /\ (a + Lead(al, a)) % al = 0
<1>1. CASE al = 1
      BY <1>1 DEF Lead
<1>2. CASE al = 2
      BY <1>2 DEF Lead
<1>3. CASE al = 4
      BY <1>3 DEF Lead
<1> QED
    BY <1>1, <1>2, <1>3

\* The context is that of the row the engine works on.
AtRow(c, base) == Out(c) = base + Len(c.out) /\ sym.at \in Int /\ Count \in {1, 4, 5}

\* A branch or a near adr that stays one word.
LEMMA KeepFixed ==
    ASSUME NEW c, NEW base, Ready(c, base), AtRow(c, base), NEW w, IsWord(w), w.op # "ldr", NEW to \in Int
    PROVE  Fixed(c, Keep(c, w, to), base)
<1>1. PICK n \in Nat : n = Len(c.out)
      BY OutLength DEF Ready
<1>2. Out(c) \in Int /\ base \in Int /\ c.in \in 0 .. 4 /\ sym.at \in Int /\ Count \in {1, 4, 5}
      BY <1>1 DEF Ready, AtRow
<1>3. PICK S : c \in CtxOf(S)
      BY DEF Ready, CtxType
<1>4. ASSUME NEW x \in Int
      PROVE  Fixed(c, Put(c, 0, <<[w EXCEPT !.off = x]>>), base)
  <2>1. PICK v : v = [w EXCEPT !.off = x]
        OBVIOUS
  <2>2. IsWord(v) /\ v.op # "ldr"
        BY <2>1, OffChanged
  <2>3. Fixed(c, Put(c, 0, <<v>>), base)
        BY <2>2, PutOne
  <2> QED
      BY <2>1, <2>3
<1>5. CASE ~ Inside(to)
  <2>1. Keep(c, w, to) = Put(c, 0, <<[w EXCEPT !.off = to - Out(c)]>>) /\ to - Out(c) \in Int
        BY <1>2, <1>5 DEF Keep
  <2> QED
      BY <1>4, <2>1
<1>6. CASE Inside(to)
  <2>1. PICK ref \in 0 .. 4 : ref = to - sym.at
    <3>1. to - sym.at \in 0 .. 4
          BY <1>2, <1>6 DEF Inside
    <3> QED
        BY <3>1
  <2>2. CASE ref < c.in
    <3>1. c.dat[ref] - Len(c.out) \in Int
          BY <1>1, <1>3, <2>1 DEF CtxOf, Places
    <3>2. Keep(c, w, to) = Put(c, 0, <<[w EXCEPT !.off = c.dat[ref] - Len(c.out)]>>)
          BY <1>6, <2>1, <2>2 DEF Keep
    <3> QED
        BY <1>4, <3>1, <3>2
  <2>3. CASE ref = c.in
    <3>1. Keep(c, w, to) = Put(c, 0, <<[w EXCEPT !.off = 0]>>)
          BY <1>2, <1>6, <2>1, <2>3 DEF Keep
    <3> QED
        BY <1>4, <3>1
  <2>4. CASE ref > c.in
    <3>1. PICK v : v = [w EXCEPT !.off = 0]
          OBVIOUS
    <3>2. IsWord(v) /\ v.op # "ldr"
          BY <3>1, OffChanged
    <3>3. PICK d : d = [c EXCEPT !.fmap[ref] = @ \cup {Len(c.out)}]
          OBVIOUS
    <3>4. PICK M \in FixMaps : M = c.fmap
          BY <1>3 DEF CtxOf
    <3>5. PICK h : h = [M EXCEPT ![ref] = @ \cup {n}]
          OBVIOUS
    <3>6. h \in FixMaps
          BY <1>1, <3>5 DEF FixMaps
    <3>7. d = [in |-> c.in, out |-> c.out, dat |-> c.dat, first |-> c.first, fmap |-> h]
          BY <1>1, <1>3, <3>3, <3>4, <3>5 DEF CtxOf
    <3>8. CtxType(d) /\ d.in = c.in /\ d.out = c.out /\ d.fmap = h
      <4>1. c.in \in 0 .. 5 /\ c.out \in Seq(S) /\ c.dat \in Places /\ c.first \in Places
            BY <1>3 DEF CtxOf
      <4>2. d \in CtxOf(S)
            BY <3>6, <3>7, <4>1, CtxMade
      <4> QED
          BY <3>7, <4>2 DEF CtxType
    <3>9. PICK U : U = S \cup {v}
          OBVIOUS
    <3>10. PICK q : q = c.out \o <<v>>
          OBVIOUS
    <3>11. Len(q) = n + 1 /\ q[n + 1] = v /\ \A k \in 1 .. n : q[k] = c.out[k]
      <4>1. c.out \in Seq(S)
            BY <1>3 DEF CtxOf
      <4>2. c.out \in Seq(U) /\ <<v>> \in Seq(U)
            BY <3>9, <4>1, Larger
      <4> QED
          BY <1>1, <3>10, <4>2
    <3>12. Waiting(h, q)
      <4> SUFFICES ASSUME NEW j \in 0 .. 4, NEW p \in h[j]
                   PROVE  p < Len(q) /\ q[p + 1].op # "ldr"
          BY DEF Waiting
      <4>1. p = n \/ p \in M[j]
            BY <3>5 DEF FixMaps
      <4>2. CASE p = n
            BY <1>1, <3>2, <3>11, <4>2
      <4>3. CASE p \in M[j]
        <5>1. p < n /\ c.out[p + 1].op # "ldr" /\ p \in Nat
              BY <1>1, <3>4, <4>3 DEF Ready, Moved, Waiting, FixMaps
        <5> QED
            BY <1>1, <3>11, <5>1
      <4> QED
          BY <4>1, <4>2, <4>3
    <3>13. MayWait(d, 0, <<v>>)
          BY <3>8, <3>10, <3>12 DEF MayWait
    <3>14. Aligned(d.out, base) /\ Aligned(<<v>>, base + Len(d.out) + 0) /\ <<v>> \in Seq({v}) /\ Len(<<v>>) = 1
      <4>1. base + Len(d.out) + 0 \in Int
            BY <1>1, <1>2, <3>8
      <4> QED
          BY <3>2, <3>8, <4>1, NoLoad, OneWord DEF Ready, Moved
    <3>15. d.in \in 0 .. 4 /\ 0 \in 0 .. 3
          BY <1>2, <3>8
    <3>16. PutDone(d, 0, <<v>>, base)
          BY <1>2, <3>8, <3>13, <3>14, <3>15, PutKeeps
    <3>17. Fixed(c, Put(d, 0, <<v>>), base)
          BY <1>1, <3>8, <3>14, <3>16 DEF Fixed, PutDone
    <3>18. Keep(c, w, to) = Put(d, 0, <<v>>)
          BY <1>2, <1>6, <2>1, <2>4, <3>1, <3>3 DEF Keep
    <3> QED
        BY <3>17, <3>18
  <2> QED
      BY <1>2, <2>2, <2>3, <2>4
<1> QED
    BY <1>5, <1>6

\* Two words that load the address behind them.
LEMMA LoadsTwo ==
    ASSUME NEW rd \in Int, NEW x \in Int, (x + 2) % 2 = 0, NEW b, IsWord(b), b.op # "ldr",
           NEW s, s = <<LdrX(rd, 2), b>>
    PROVE  (\E T : s \in Seq(T)) /\ Len(s) <= 4 /\ Aligned(s, x)
<1>1. PICK l : l = LdrX(rd, 2)
      OBVIOUS
<1>2. IsWord(l) /\ l.op = "ldr" /\ l.al = 2 /\ l.off = 2
      BY <1>1, Made
<1>3. GoodAt(l, x)
      BY <1>2 DEF GoodAt
<1>4. \A y : GoodAt(b, y)
      BY NoLoad
<1>5. s \in Seq({l, b}) /\ Len(s) = 2 /\ s[1] = l /\ s[2] = b
      BY <1>1
<1>6. x + 1 - 1 = x
      OBVIOUS
<1>7. GoodAt(s[1], x + 1 - 1) /\ GoodAt(s[2], x + 2 - 1)
      BY <1>3, <1>4, <1>5, <1>6
<1>8. Aligned(s, x) /\ Len(s) <= 4
      BY <1>5, <1>7 DEF Aligned
<1>9. \E T : s \in Seq(T)
      BY <1>5, Zenon
<1> QED
    BY <1>8, <1>9, Zenon

\* Three words that load the address behind them.
LEMMA LoadsThree ==
    ASSUME NEW rd \in Int, NEW x \in Int, (x + 3) % 2 = 0, NEW b, IsWord(b), b.op # "ldr",
           NEW d, IsWord(d), d.op # "ldr", NEW s, s = <<LdrX(rd, 3), d, b>>
    PROVE  (\E T : s \in Seq(T)) /\ Len(s) <= 4 /\ Aligned(s, x)
<1>1. PICK l : l = LdrX(rd, 3)
      OBVIOUS
<1>2. IsWord(l) /\ l.op = "ldr" /\ l.al = 2 /\ l.off = 3
      BY <1>1, Made
<1>3. GoodAt(l, x)
      BY <1>2 DEF GoodAt
<1>4. (\A y : GoodAt(b, y)) /\ \A y : GoodAt(d, y)
      BY NoLoad
<1>5. s \in Seq({l, d, b}) /\ Len(s) = 3 /\ s[1] = l /\ s[2] = d /\ s[3] = b
      BY <1>1
<1>6. x + 1 - 1 = x
      OBVIOUS
<1>7. GoodAt(s[1], x + 1 - 1) /\ GoodAt(s[2], x + 2 - 1) /\ GoodAt(s[3], x + 3 - 1)
      BY <1>3, <1>4, <1>5, <1>6
<1>8. Aligned(s, x) /\ Len(s) <= 4
      BY <1>5, <1>7 DEF Aligned
<1>9. \E T : s \in Seq(T)
      BY <1>5, Zenon
<1> QED
    BY <1>8, <1>9, Zenon

\* The nops in front of an address.
LEMMA Parity ==
    ASSUME NEW x \in Int
    PROVE  /\ Odd(x) \in 0 .. 1 /\ 1 - Odd(x) \in 0 .. 1
           /\ (x + Odd(x)) % 2 = 0 /\ (x + Odd(x) + 2) % 2 = 0 /\ (x + (1 - Odd(x)) + 3) % 2 = 0
BY DEF Odd

\* b and bl.
LEMMA BranchFixed ==
    ASSUME NEW c, NEW base, Ready(c, base), AtRow(c, base), NEW w, IsWord(w), w.op # "ldr"
    PROVE  Fixed(c, FixBranch(c, w), base)
<1>1. PICK x \in Int : x = base + Len(c.out) /\ x = Out(c)
      BY OutLength DEF Ready, AtRow
<1>2. PICK to \in Int : to = In(c) + w.off
      BY DEF IsWord, Ready, AtRow, In
<1>3. Fixed(c, Keep(c, w, to), base)
      BY KeepFixed
<1>4. IsWord(BrX17) /\ BrX17.op # "ldr" /\ IsWord(AdrX30(4)) /\ AdrX30(4).op # "ldr"
      BY Made
<1>5. Fixed(c, Put(c, Odd(x), <<LdrX(17, 2), BrX17>> \o Address(to, 0)), base)
  <2>1. PICK y \in Int, lead \in 0 .. 1 : lead = Odd(x) /\ y = x + lead /\ (y + 2) % 2 = 0
        BY Parity
  <2>2. PICK s : s = <<LdrX(17, 2), BrX17>>
        OBVIOUS
  <2>3. (\E T : s \in Seq(T)) /\ Len(s) <= 4 /\ Aligned(s, y)
    <3>1. 17 \in Int /\ y \in Int /\ (y + 2) % 2 = 0
          BY <2>1
    <3> QED
        BY <1>4, <2>2, <3>1, LoadsTwo, Zenon
  <2>4. Aligned(s, base + Len(c.out) + lead)
        BY <1>1, <2>1, <2>3
  <2>5. PICK T : s \in Seq(T)
        BY <2>3
  <2>6. Fixed(c, Put(c, lead, s \o Address(to, 0)), base)
        BY <2>3, <2>4, <2>5, PutLiteral
  <2> QED
      BY <2>1, <2>2, <2>6
<1>6. Fixed(c, Put(c, 1 - Odd(x), <<LdrX(17, 3), AdrX30(4), BrX17>> \o Address(to, 0)), base)
  <2>1. PICK y \in Int, lead \in 0 .. 1 : lead = 1 - Odd(x) /\ y = x + lead /\ (y + 3) % 2 = 0
        BY Parity
  <2>2. PICK s : s = <<LdrX(17, 3), AdrX30(4), BrX17>>
        OBVIOUS
  <2>3. (\E T : s \in Seq(T)) /\ Len(s) <= 4 /\ Aligned(s, y)
    <3>1. 17 \in Int /\ y \in Int /\ (y + 3) % 2 = 0
          BY <2>1
    <3> QED
        BY <1>4, <2>2, <3>1, LoadsThree, Zenon
  <2>4. Aligned(s, base + Len(c.out) + lead)
        BY <1>1, <2>1, <2>3
  <2>5. PICK T : s \in Seq(T)
        BY <2>3
  <2>6. Fixed(c, Put(c, lead, s \o Address(to, 0)), base)
        BY <2>3, <2>4, <2>5, PutLiteral
  <2> QED
      BY <2>1, <2>2, <2>6
<1> QED
    BY <1>1, <1>2, <1>3, <1>5, <1>6 DEF FixBranch

\* b.c, cbz, cbnz, tbz and tbnz.
LEMMA CondFixed ==
    ASSUME NEW c, NEW base, Ready(c, base), AtRow(c, base), NEW w, IsWord(w), w.op # "ldr"
    PROVE  Fixed(c, FixCond(c, w), base)
<1>1. PICK x \in Int : x = base + Len(c.out) /\ x = Out(c)
      BY OutLength DEF Ready, AtRow
<1>2. PICK range : range = IF w.op = "tb" THEN RANGE_T ELSE RANGE_C
      OBVIOUS
<1>3. PICK to : to = In(c) + (w.off % (2 * (range + 1)))
      OBVIOUS
<1>4. to \in Int
  <2>1. range \in Nat /\ w.off \in Int /\ In(c) \in Int
    <3>1. range \in Nat
          BY <1>2, PoolRows
    <3>2. w.off \in Int
          BY DEF IsWord
    <3>3. In(c) \in Int
          BY DEF Ready, AtRow, In
    <3> QED
        BY <3>1, <3>2, <3>3
  <2>2. 2 * (range + 1) \in Nat \ {0}
        BY <2>1
  <2>3. w.off % (2 * (range + 1)) \in Int
        BY <2>1, <2>2
  <2> QED
      BY <1>3, <2>1, <2>3
<1>5. Fixed(c, Keep(c, w, to), base)
      BY <1>4, KeepFixed
<1>6. Fixed(c, Put(c, Odd(x), <<[w EXCEPT !.off = 2], B(5), LdrX(17, 2), BrX17>> \o Address(to, 0)), base)
  <2>1. PICK y \in Int, lead \in 0 .. 1 : lead = Odd(x) /\ y = x + lead /\ (y + 2) % 2 = 0
        BY Parity
  <2>2. PICK v, b, l, r : v = [w EXCEPT !.off = 2] /\ b = B(5) /\ l = LdrX(17, 2) /\ r = BrX17
        OBVIOUS
  <2>3. (\A z : GoodAt(v, z)) /\ (\A z : GoodAt(b, z)) /\ (\A z : GoodAt(r, z))
    <3>1. IsWord(v) /\ v.op # "ldr"
          BY <2>2, OffChanged
    <3>2. IsWord(b) /\ b.op # "ldr" /\ IsWord(r) /\ r.op # "ldr"
          BY <2>2, Made
    <3> QED
        BY <3>1, <3>2, NoLoad
  <2>4. GoodAt(l, y + 3 - 1)
    <3>1. IsWord(l) /\ l.op = "ldr" /\ l.al = 2 /\ l.off = 2
          BY <2>2, Made
    <3>2. (y + 3 - 1 + 2) % 2 = 0
          BY <2>1
    <3> QED
        BY <3>1, <3>2 DEF GoodAt
  <2>5. PICK s : s = <<v, b, l, r>>
        OBVIOUS
  <2>6. s \in Seq({v, b, l, r}) /\ Len(s) = 4 /\ s[1] = v /\ s[2] = b /\ s[3] = l /\ s[4] = r
        BY <2>5
  <2>7. Aligned(s, y)
    <3>1. /\ GoodAt(s[1], y + 1 - 1) /\ GoodAt(s[2], y + 2 - 1)
          /\ GoodAt(s[3], y + 3 - 1) /\ GoodAt(s[4], y + 4 - 1)
          BY <2>3, <2>4, <2>6
    <3> QED
        BY <2>6, <3>1 DEF Aligned
  <2>8. Aligned(s, base + Len(c.out) + lead)
        BY <1>1, <2>1, <2>7
  <2>9. Fixed(c, Put(c, lead, s \o Address(to, 0)), base)
    <3>1. Len(s) <= 4 /\ lead \in 0 .. 1
          BY <2>1, <2>6
    <3> QED
        BY <2>6, <2>8, <3>1, PutLiteral
  <2> QED
      BY <2>1, <2>2, <2>5, <2>9
<1> QED
    BY <1>1, <1>2, <1>3, <1>5, <1>6 DEF FixCond

\* adr and adrp.
LEMMA AdrFixed ==
    ASSUME NEW c, NEW base, Ready(c, base), AtRow(c, base), NEW w, IsWord(w), w.op # "ldr"
    PROVE  Fixed(c, FixAdr(c, w), base)
<1>1. PICK x \in Int : x = base + Len(c.out) /\ x = Out(c)
      BY OutLength DEF Ready, AtRow
<1>2. PICK to \in Int : to = In(c) + w.off
      BY DEF IsWord, Ready, AtRow, In
<1>3. PICK page : page = (In(c) \div PAGE_WORDS) * PAGE_WORDS + w.off
      OBVIOUS
<1>4. Fixed(c, Keep(c, w, to), base)
      BY KeepFixed
<1>5. Fixed(c, Keep(c, [w EXCEPT !.rd = @ + 8 * w.low], to), base)
  <2>1. PICK v : v = [w EXCEPT !.rd = @ + 8 * w.low]
        OBVIOUS
  <2>2. IsWord(v) /\ v.op # "ldr"
        BY <2>1 DEF IsWord
  <2>3. Fixed(c, Keep(c, v, to), base)
        BY <2>2, KeepFixed
  <2> QED
      BY <2>1, <2>3
<1>6. Fixed(c, Put(c, 0, <<w>>), base)
      BY PutOne
<1>7. ASSUME NEW a, NEW low
      PROVE  Fixed(c, Put(c, Odd(x), <<LdrX(w.rd, 2), B(3)>> \o Address(a, low)), base)
  <2>1. PICK y \in Int, lead \in 0 .. 1 : lead = Odd(x) /\ y = x + lead /\ (y + 2) % 2 = 0
        BY Parity
  <2>2. PICK s : s = <<LdrX(w.rd, 2), B(3)>>
        OBVIOUS
  <2>3. (\E T : s \in Seq(T)) /\ Len(s) <= 4 /\ Aligned(s, y)
    <3>1. w.rd \in Int /\ IsWord(B(3)) /\ B(3).op # "ldr"
          BY Made DEF IsWord
    <3> QED
        BY <2>1, <2>2, <3>1, LoadsTwo
  <2>4. Aligned(s, base + Len(c.out) + lead)
        BY <1>1, <2>1, <2>3
  <2>5. PICK T : s \in Seq(T)
        BY <2>3
  <2>6. Fixed(c, Put(c, lead, s \o Address(a, low)), base)
        BY <2>3, <2>4, <2>5, PutLiteral
  <2> QED
      BY <2>1, <2>2, <2>6
<1> QED
    BY <1>1, <1>2, <1>3, <1>4, <1>5, <1>6, <1>7 DEF FixAdr

\* ldr and prfm: a literal that stays where it is keeps its alignment, one
\* that is copied gets it.
LEMMA LoadFixed ==
    ASSUME NEW c, NEW base, Ready(c, base), AtRow(c, base), NEW w, GoodAt(w, sym.at + c.in),
           w.op \in {"ldr", "prfm"}
    PROVE  Fixed(c, FixLoad(c, w), base)
<1>1. PICK x \in Int : x = base + Len(c.out) /\ x = Out(c)
      BY OutLength DEF Ready, AtRow
<1>2. IsWord(w) /\ w.al \in {1, 2, 4} /\ w.off \in Int
      BY DEF GoodAt, IsWord
<1>3. PICK to \in Int : to = In(c) + w.off
      BY <1>2 DEF Ready, AtRow, In
<1>4. CASE w.op = "prfm"
  <2>1. <<>> \in Seq({w}) /\ Len(<<>>) = 0
        OBVIOUS
  <2>2. Aligned(<<>>, base + Len(c.out) + 0) /\ 0 + Len(<<>>) <= 9 /\ 0 \in 0 .. 3
        BY <2>1 DEF Aligned
  <2>3. Fixed(c, Put(c, 0, <<>>), base)
        BY <2>1, <2>2, PutFixed
  <2> QED
      BY <1>4, <2>3 DEF FixLoad
<1>5. ASSUME w.op = "ldr", NEW lead, lead = Lead(w.al, x + 2)
      PROVE  Fixed(c, Put(c, lead, <<[w EXCEPT !.off = 2], B(1 + w.al)>>
                                   \o [k \in 1 .. w.al |-> Data(Content(to + k - 1))]), base)
  <2>1. lead \in 0 .. 3 /\ (x + 2 + lead) % w.al = 0
        BY <1>2, <1>5, Leads
  <2>2. PICK y \in Int : y = x + lead
        BY <2>1
  <2>3. PICK v, b : v = [w EXCEPT !.off = 2] /\ b = B(1 + w.al)
        OBVIOUS
  <2>4. GoodAt(v, y)
    <3>1. IsWord(v) /\ v.op = w.op /\ v.al = w.al /\ v.off = 2
          BY <1>2, <2>3, OffChanged
    <3>2. y + 2 = x + 2 + lead
          BY <2>1, <2>2
    <3> QED
        BY <2>1, <3>1, <3>2 DEF GoodAt
  <2>5. \A z : GoodAt(b, z)
    <3>1. 1 + w.al \in Int
          BY <1>2
    <3>2. IsWord(b) /\ b.op # "ldr"
          BY <2>3, <3>1, Made
    <3> QED
        BY <3>2, NoLoad
  <2>6. PICK s : s = <<v, b>>
        OBVIOUS
  <2>7. s \in Seq({v, b}) /\ Len(s) = 2 /\ Aligned(s, y)
    <3>1. s \in Seq({v, b}) /\ Len(s) = 2 /\ s[1] = v /\ s[2] = b
          BY <2>6
    <3>2. GoodAt(s[1], y + 1 - 1) /\ GoodAt(s[2], y + 2 - 1)
      <4>1. y + 1 - 1 = y
            BY <2>2
      <4> QED
          BY <2>4, <2>5, <3>1, <4>1
    <3> QED
        BY <3>1, <3>2 DEF Aligned
  <2>8. PICK t : t = [k \in 1 .. w.al |-> Data(Content(to + k - 1))]
        OBVIOUS
  <2>9. PICK D : D = {t[k] : k \in 1 .. w.al}
        OBVIOUS
  <2>10. t \in Seq(D) /\ Len(t) = w.al /\ Aligned(t, y + Len(s))
    <3>1. t \in Seq(D) /\ Len(t) = w.al /\ \A k \in 1 .. w.al : t[k] = Data(Content(to + k - 1))
          BY <1>2, <2>8, <2>9
    <3>2. \A u : \A z : GoodAt(Data(u), z)
          BY Made DEF GoodAt
    <3> QED
        BY <3>1, <3>2 DEF Aligned
  <2>11. PICK U : U = {v, b} \cup D
        OBVIOUS
  <2>12. s \in Seq(U) /\ t \in Seq(U)
    <3>1. {v, b} \subseteq U /\ D \subseteq U
          BY <2>11
    <3> QED
        BY <2>7, <2>10, <3>1, Larger
  <2>13. s \o t \in Seq(U) /\ Len(s \o t) = Len(s) + Len(t) /\ Aligned(s \o t, y)
        BY <2>7, <2>10, <2>12, Joined
  <2>14. lead + Len(s \o t) <= 9
    <3>1. Len(s \o t) = 2 + w.al
          BY <2>7, <2>10, <2>13
    <3>2. Len(s \o t) \in 0 .. 6
          BY <1>2, <3>1
    <3> QED
        BY <2>1, <3>2
  <2>15. Aligned(s \o t, base + Len(c.out) + lead)
        BY <1>1, <2>2, <2>13
  <2>16. Fixed(c, Put(c, lead, s \o t), base)
        BY <2>1, <2>13, <2>14, <2>15, PutFixed
  <2> QED
      BY <2>3, <2>6, <2>8, <2>16
<1>6. ASSUME w.op = "ldr", NEW lead, lead = Lead(w.al, x - to)
      PROVE  Fixed(c, Put(c, lead, <<[w EXCEPT !.off = to - x - lead]>>), base)
  <2>1. lead \in 0 .. 3
        BY <1>2, <1>6, Leads
  <2>2. PICK y \in Int, z \in Int : y = x + lead /\ z = to - x - lead /\ y + z = to
        BY <2>1
  <2>3. PICK v : v = [w EXCEPT !.off = z]
        OBVIOUS
  <2>4. IsWord(v) /\ v.op = w.op /\ v.al = w.al /\ v.off = z
        BY <1>2, <2>3, OffChanged
  <2>5. to % w.al = 0
        BY <1>3, <1>6 DEF GoodAt, In
  <2>6. GoodAt(v, y)
        BY <2>2, <2>4, <2>5 DEF GoodAt
  <2>7. <<v>> \in Seq({v}) /\ Len(<<v>>) = 1 /\ Aligned(<<v>>, y)
        BY <2>6, OneWord
  <2>8. Aligned(<<v>>, base + Len(c.out) + lead) /\ lead + Len(<<v>>) <= 9
    <3>1. y = base + Len(c.out) + lead
          BY <1>1, <2>2
    <3>2. lead + Len(<<v>>) <= 9
          BY <2>1, <2>7
    <3> QED
        BY <2>7, <3>1, <3>2
  <2>9. Fixed(c, Put(c, lead, <<v>>), base)
        BY <2>1, <2>7, <2>8, PutFixed
  <2> QED
      BY <2>2, <2>3, <2>9
<1>7. CASE w.op = "ldr"
      BY <1>1, <1>3, <1>5, <1>6, <1>7 DEF FixLoad
<1> QED
    BY <1>4, <1>7

\* Any word of the function.
LEMMA WordFixed ==
    ASSUME NEW c, NEW base, Ready(c, base), AtRow(c, base), NEW w, GoodAt(w, sym.at + c.in)
    PROVE  Fixed(c, Fix(c, w), base)
<1>1. IsWord(w)
      BY DEF GoodAt
<1>2. CASE w.op \in {"b", "bl"}
  <2>1. Fixed(c, FixBranch(c, w), base)
        BY <1>1, <1>2, BranchFixed
  <2> QED
      BY <1>2, <2>1 DEF Fix
<1>3. CASE w.op \in {"cond", "tb"}
  <2>1. Fixed(c, FixCond(c, w), base)
        BY <1>1, <1>3, CondFixed
  <2> QED
      BY <1>3, <2>1 DEF Fix
<1>4. CASE w.op \in {"prfm", "ldr"}
  <2>1. Fixed(c, FixLoad(c, w), base)
        BY <1>4, LoadFixed
  <2> QED
      BY <1>4, <2>1 DEF Fix
<1>5. CASE w.op \in {"adr", "adrp"}
  <2>1. Fixed(c, FixAdr(c, w), base)
        BY <1>1, <1>5, AdrFixed
  <2> QED
      BY <1>5, <2>1 DEF Fix
<1>6. CASE w.op \notin {"b", "bl", "cond", "tb", "prfm", "ldr", "adr", "adrp"}
  <2>1. w.op # "ldr"
        BY <1>6
  <2>2. Fixed(c, Put(c, 0, <<w>>), base)
        BY <1>1, <2>1, PutOne
  <2>3. Fix(c, w) = Put(c, 0, <<w>>)
        BY <1>6 DEF Fix
  <2> QED
      BY <2>2, <2>3
<1> QED
    BY <1>2, <1>3, <1>4, <1>5, <1>6

\* The jump through a register that the engine writes from address x on.
FarJump(n, a) == [k \in 1 .. n |-> Nop] \o <<LdrX(17, 2), BrX17>> \o Address(a, 0)

\* It is aligned, and its last word is no instruction.
LEMMA FarJumpAligned ==
    ASSUME NEW n \in 0 .. 1, NEW x \in Int, (x + n) % 2 = 0, NEW a
    PROVE  /\ \E T : FarJump(n, a) \in Seq(T)
           /\ Len(FarJump(n, a)) = n + 4 /\ Aligned(FarJump(n, a), x)
           /\ FarJump(n, a)[n + 4].op = "data"
<1>1. PICK nops, l, r, u, v : /\ nops = [k \in 1 .. n |-> Nop] /\ l = LdrX(17, 2) /\ r = BrX17
                              /\ u = Data(<<"lo", a, 0>>) /\ v = Data(<<"hi", a, 0>>)
      OBVIOUS
<1>2. PICK U : U = {Nop, l, r, u, v}
      OBVIOUS
<1>3. nops \in Seq(U) /\ Len(nops) = n /\ Aligned(nops, x)
  <2>1. nops \in Seq(U) /\ Len(nops) = n /\ \A k \in 1 .. n : nops[k] = Nop
        BY <1>1, <1>2
  <2>2. \A y : GoodAt(Nop, y)
        BY Made DEF GoodAt
  <2> QED
      BY <2>1, <2>2 DEF Aligned
<1>4. PICK s : s = <<l, r>>
      OBVIOUS
<1>5. PICK y \in Int : y = x + n /\ (y + 2) % 2 = 0
      OBVIOUS
<1>6. s \in Seq(U) /\ Len(s) = 2 /\ Aligned(s, y)
  <2>1. s \in Seq(U) /\ Len(s) = 2
        BY <1>2, <1>4
  <2>2. 17 \in Int /\ IsWord(BrX17) /\ BrX17.op # "ldr" /\ s = <<LdrX(17, 2), BrX17>>
        BY <1>1, <1>4, Made
  <2>3. Aligned(s, y)
        BY <1>5, <2>2, LoadsTwo, Zenon
  <2> QED
      BY <2>1, <2>3
<1>7. PICK q : q = nops \o s
      OBVIOUS
<1>8. q \in Seq(U) /\ Len(q) = n + 2 /\ Aligned(q, x)
  <2>1. Aligned(s, x + Len(nops))
        BY <1>3, <1>5, <1>6
  <2>2. nops \o s \in Seq(U) /\ Len(nops \o s) = Len(nops) + Len(s) /\ Aligned(nops \o s, x)
        BY <1>3, <1>6, <2>1, Joined
  <2> QED
      BY <1>3, <1>6, <1>7, <2>2
<1>9. PICK t : t = <<u, v>>
      OBVIOUS
<1>10. t \in Seq(U) /\ Len(t) = 2 /\ t[2] = v
      BY <1>2, <1>9
<1>11. t = Address(a, 0) /\ v.op = "data" /\ Aligned(t, x + Len(q))
  <2>1. (\A z : GoodAt(u, z)) /\ (\A z : GoodAt(v, z)) /\ v.op = "data"
        BY <1>1, Made DEF GoodAt
  <2>2. \A k \in 1 .. 2 : \A z : GoodAt(t[k], z)
        BY <1>9, <2>1
  <2>3. t = Address(a, 0)
        BY <1>1, <1>9 DEF Address
  <2> QED
      BY <1>10, <2>1, <2>2, <2>3 DEF Aligned
<1>12. PICK j : j = q \o t
      OBVIOUS
<1>13. j \in Seq(U) /\ Len(j) = n + 4 /\ Aligned(j, x) /\ j[n + 4] = v
  <2>1. /\ q \o t \in Seq(U) /\ Len(q \o t) = Len(q) + Len(t) /\ Aligned(q \o t, x)
        /\ \A k \in 1 .. Len(t) : (q \o t)[Len(q) + k] = t[k]
        BY <1>8, <1>10, <1>11, Joined
  <2>2. 2 \in 1 .. Len(t) /\ Len(q) + 2 = n + 4
        BY <1>8, <1>10
  <2>3. (q \o t)[Len(q) + 2] = t[2]
        BY <2>1, <2>2
  <2> QED
      BY <1>8, <1>10, <1>12, <2>1, <2>2, <2>3
<1>14. j = FarJump(n, a)
      BY <1>1, <1>4, <1>7, <1>11, <1>12 DEF FarJump
<1>15. \E T : j \in Seq(T)
      BY <1>13, Zenon
<1> QED
    BY <1>11, <1>13, <1>14, <1>15

\* The jump behind the moved words.
LEMMA JumpBackFits ==
    ASSUME NEW c, NEW base \in Int, CtxType(c), AtRow(c, base)
    PROVE  /\ \E T : JumpBack(c) \in Seq(T)
           /\ Len(JumpBack(c)) <= 5 /\ Aligned(JumpBack(c), base + Len(c.out))
<1>1. PICK x \in Int : x = base + Len(c.out) /\ x = Out(c)
      BY OutLength DEF AtRow
<1>2. CASE Distance(In(c), Out(c)) < RANGE_B
  <2>1. PICK b : b = B(In(c) - Out(c))
        OBVIOUS
  <2>2. JumpBack(c) = <<b>>
        BY <1>2, <2>1 DEF JumpBack
  <2>3. In(c) - Out(c) \in Int
        BY <1>1 DEF AtRow, CtxType, CtxOf, In
  <2>4. IsWord(b) /\ b.op # "ldr"
        BY <2>1, <2>3, Made
  <2>5. <<b>> \in Seq({b}) /\ Len(<<b>>) = 1 /\ Aligned(<<b>>, x)
        BY <2>4, NoLoad, OneWord
  <2>6. \E T : <<b>> \in Seq(T)
        BY <2>5, Zenon
  <2> QED
      BY <1>1, <2>2, <2>5, <2>6
<1>3. CASE ~ (Distance(In(c), Out(c)) < RANGE_B)
  <2>1. JumpBack(c) = FarJump(Odd(x), In(c))
        BY <1>1, <1>3 DEF JumpBack, FarJump
  <2>2. PICK n \in 0 .. 1 : n = Odd(x) /\ (x + n) % 2 = 0
        BY Parity
  <2>3. /\ \E T : FarJump(n, In(c)) \in Seq(T)
        /\ Len(FarJump(n, In(c))) = n + 4 /\ Aligned(FarJump(n, In(c)), x)
        BY <2>2, FarJumpAligned
  <2>4. JumpBack(c) = FarJump(n, In(c))
        BY <2>1, <2>2
  <2>5. Len(JumpBack(c)) <= 5 /\ Aligned(JumpBack(c), base + Len(c.out))
        BY <1>1, <2>2, <2>3, <2>4
  <2> QED
      BY <2>3, <2>4, <2>5, Zenon
<1> QED
    BY <1>2, <1>3

\* What a function's start is overwritten with differs from what was there.
LEMMA JumpWritten ==
    ASSUME sym \in Symbols
    PROVE  /\ Len(Jump) \in 1 .. 5 /\ Aligned(Jump, sym.at)
           /\ \E k \in 1 .. Len(Jump) : Jump[k] # sym.code[k]
<1>1. /\ {sym.at, sym.replace} \subseteq Int /\ sym.code[1] # B(sym.replace - sym.at)
      /\ \A k \in 1 .. 5 : sym.code[k].op # "data"
      BY FunctionWords
<1>2. CASE Distance(sym.replace, sym.at) < RANGE_B
  <2>1. PICK b : b = B(sym.replace - sym.at)
        OBVIOUS
  <2>2. Jump = <<b>>
        BY <1>2, <2>1 DEF Jump, Count
  <2>3. IsWord(b) /\ b.op # "ldr"
        BY <1>1, <2>1, Made
  <2>4. Len(<<b>>) = 1 /\ Aligned(<<b>>, sym.at)
        BY <1>1, <2>3, NoLoad, OneWord
  <2>5. Len(Jump) \in 1 .. 5 /\ Aligned(Jump, sym.at) /\ 1 \in 1 .. Len(Jump) /\ Jump[1] = b
        BY <2>2, <2>4
  <2> QED
      BY <1>1, <2>1, <2>5
<1>3. CASE ~ (Distance(sym.replace, sym.at) < RANGE_B)
  <2>1. PICK n \in 0 .. 1, x \in Int : n = Odd(x) /\ (x + n) % 2 = 0 /\ x = sym.at
        BY <1>1, Parity
  <2>2. Count = n + 4 /\ Count # 1
        BY <1>3, <2>1 DEF Count, Odd
  <2>3. Jump = FarJump(n, sym.replace)
    <3>1. Count - 4 = n
          BY <2>1, <2>2
    <3> QED
        BY <2>2, <3>1 DEF Jump, FarJump
  <2>4. Len(Jump) = n + 4 /\ Aligned(Jump, x) /\ Jump[n + 4].op = "data"
        BY <2>1, <2>3, FarJumpAligned
  <2>5. n + 4 \in 1 .. 5 /\ n + 4 \in 1 .. Len(Jump) /\ Len(Jump) \in 1 .. 5
        BY <2>1, <2>4
  <2>6. Jump[n + 4] # sym.code[n + 4]
        BY <1>1, <2>4, <2>5
  <2> QED
      BY <2>1, <2>4, <2>5, <2>6
<1> QED
    BY <1>2, <1>3

\* The engine's inductive invariant.  While words are moved, the row's part
\* that is written is aligned, no load waits in the fix map, and each word of
\* the function took at most nine; the function's words stay as they were
\* until the page is patched.
TextGood == \A k \in 1 .. 5 : GoodAt(text[k], sym.at + k - 1)
Inline64Inv ==
    /\ sym \in Symbols /\ index \in Nat /\ starts \in Nat /\ origin \in Nat \cup {NO_ROW}
    /\ hpc \in {"idle", "fix", "tail", "patch"}
    /\ CtxType(ctx) /\ TextGood
    /\ hpc # "idle" => origin \in Nat
    /\ hpc \in {"fix", "tail"} => Moved(ctx, RowAt(origin)) /\ Len(ctx.out) <= 9 * ctx.in
    /\ hpc = "fix" => ctx.in < Count
    /\ hpc = "tail" => ctx.in = Count
    /\ hpc = "patch" => Aligned(ctx.out, RowAt(origin))
    /\ hpc \in {"idle", "patch"} => Len(ctx.out) <= 50
    /\ (starts = 0 => hpc = "idle") /\ (starts = 0 \/ (starts = 1 /\ hpc # "idle") => text = sym.code)
    /\ hpc = "idle" /\ starts = 1 => (text # sym.code <=> origin # NO_ROW)

\* The addresses the engine works with.
LEMMA RowAddress ==
    ASSUME sym \in Symbols, origin \in Nat
    PROVE  RowAt(origin) \in Int /\ \A c : AtRow(c, RowAt(origin))
<1>1. {sym.at, sym.pool, sym.replace} \subseteq Int
      BY FunctionWords
<1>2. RowAt(origin) \in Int
  <2>1. PICK n \in Nat, m \in Nat, q \in Int : n = origin /\ m = ROW_WORDS /\ q = sym.pool
        BY <1>1, PoolRows
  <2>2. n * m \in Int
        OBVIOUS
  <2> QED
      BY <2>1, <2>2 DEF RowAt
<1>3. Count \in {1, 4, 5}
      BY DEF Count
<1> QED
    BY <1>1, <1>2, <1>3 DEF AtRow, Out

\* An empty context.
LEMMA EmptyContext ==
    /\ CtxType(ContextInit) /\ ContextInit.in = 0 /\ Len(ContextInit.out) = 0
    /\ \A base : Moved(ContextInit, base)
<1>1. ContextInit.in = 0 /\ ContextInit.out = <<>> /\ ContextInit.fmap = [j \in 0 .. 4 |-> {}]
      BY DEF ContextInit
<1>2. ContextInit \in CtxOf({})
      BY DEF ContextInit, CtxOf, Places, FixMaps
<1>3. \A base : Moved(ContextInit, base)
      BY <1>1 DEF Moved, Aligned, Waiting
<1> QED
    BY <1>1, <1>2, <1>3 DEF CtxType

\* The invariant holds at first.
LEMMA Inline64InvInit == Inline64Init => Inline64Inv
<1> SUFFICES ASSUME NEW function \in Symbols, NEW taken \in FirstRows, Inline64InitOf(function, taken)
             PROVE  Inline64Inv
    BY DEF Inline64Init
<1>1. sym \in Symbols /\ text = sym.code /\ index \in Nat /\ origin = NO_ROW /\ ctx = ContextInit
      /\ hpc = "idle" /\ starts = 0
      BY PoolRows DEF Inline64InitOf
<1>2. TextGood
  <2>1. \A k \in 1 .. 5 : /\ IsWord(sym.code[k])
                          /\ sym.code[k].op = "ldr" => (sym.at + k - 1 + sym.code[k].off) % sym.code[k].al = 0
        BY <1>1, FunctionWords
  <2> QED
      BY <1>1, <2>1 DEF TextGood, GoodAt
<1>3. CtxType(ctx) /\ Len(ctx.out) = 0
      BY <1>1, EmptyContext
<1> QED
    BY <1>1, <1>2, <1>3 DEF Inline64Inv

\* Each step of the engine keeps it.
LEMMA Inline64InvStep ==
    ASSUME Inline64Inv, [Inline64Next]_ivars
    PROVE  Inline64Inv'
<1>1. CASE Allocate
  <2>1. /\ hpc = "idle" /\ starts' = starts + 1 /\ index' = index + 1
        /\ sym' = sym /\ text' = text
        BY <1>1 DEF Allocate
  <2>2. CtxType(ctx) /\ TextGood /\ Len(ctx.out) <= 50 /\ starts \in Nat /\ index \in Nat /\ sym \in Symbols
        BY <2>1 DEF Inline64Inv
  <2>3. TextGood' /\ (starts' = 1 => text' = sym'.code) /\ starts' # 0 /\ starts' \in Nat /\ index' \in Nat
        BY <2>1, <2>2 DEF Inline64Inv, TextGood
  <2>4. CASE index < A64_MAX_BACKUPS
    <3>1. origin' = index /\ hpc' = "fix" /\ ctx' = ContextInit
          BY <1>1, <2>4 DEF Allocate
    <3>2. CtxType(ctx') /\ ctx'.in = 0 /\ Len(ctx'.out) = 0 /\ Moved(ctx', RowAt(origin)')
          BY <3>1, EmptyContext
    <3>3. (0 < Count)' /\ origin' \in Nat
          BY <2>2, <3>1 DEF Count
    <3>4. Len(ctx'.out) <= 9 * ctx'.in /\ (ctx.in < Count)'
          BY <3>2, <3>3
    <3> QED
        BY <2>1, <2>2, <2>3, <3>1, <3>2, <3>3, <3>4 DEF Inline64Inv
  <2>5. CASE ~ (index < A64_MAX_BACKUPS)
    <3>1. origin' = NO_ROW /\ hpc' = "idle" /\ ctx' = ctx
          BY <1>1, <2>1, <2>5 DEF Allocate
    <3> QED
        BY <2>1, <2>2, <2>3, <3>1 DEF Inline64Inv
  <2> QED
      BY <2>4, <2>5
<1>2. CASE FixOne
  <2>1. /\ hpc = "fix" /\ ctx' = Fix(ctx, text[ctx.in + 1]) /\ hpc' \in {"fix", "tail"}
        /\ sym' = sym /\ text' = text /\ index' = index /\ origin' = origin /\ starts' = starts
        BY <1>2 DEF FixOne
  <2>2. PICK base : base = RowAt(origin)
        OBVIOUS
  <2>3. base \in Int /\ AtRow(ctx, base) /\ CtxType(ctx) /\ Moved(ctx, base) /\ Len(ctx.out) <= 9 * ctx.in
        /\ ctx.in < Count /\ Count \in {1, 4, 5} /\ origin \in Nat
        BY <2>1, <2>2, RowAddress DEF Inline64Inv, AtRow
  <2>4. PICK i \in 0 .. 4 : i = ctx.in
    <3>1. ctx.in \in 0 .. 5
          BY <2>3 DEF CtxType, CtxOf
    <3> QED
        BY <2>3, <3>1
  <2>5. GoodAt(text[ctx.in + 1], sym.at + ctx.in)
    <3>1. i + 1 \in 1 .. 5 /\ sym.at + (i + 1) - 1 = sym.at + i
          BY <2>3, <2>4 DEF AtRow
    <3>2. TextGood
          BY DEF Inline64Inv
    <3>3. GoodAt(text[i + 1], sym.at + (i + 1) - 1)
          BY <3>1, <3>2 DEF TextGood
    <3> QED
        BY <2>4, <3>1, <3>3
  <2>6. Ready(ctx, base)
        BY <2>3, <2>4 DEF Ready
  <2>7. Fixed(ctx, ctx', base)
        BY <2>1, <2>3, <2>5, <2>6, WordFixed
  <2>8. CtxType(ctx') /\ Moved(ctx', base) /\ ctx'.in = i + 1 /\ Len(ctx'.out) <= Len(ctx.out) + 9
        BY <2>4, <2>7 DEF Fixed
  <2>9. Len(ctx'.out) <= 9 * ctx'.in
    <3>1. Len(ctx.out) \in Nat /\ Len(ctx'.out) \in Nat
          BY <2>3, <2>8, OutLength
    <3> QED
        BY <2>3, <2>4, <2>8, <3>1
  <2>10. RowAt(origin)' = base /\ Count' = Count
        BY <2>1, <2>2 DEF RowAt, Count
  <2>11. (hpc' = "fix" => ctx'.in < Count') /\ (hpc' = "tail" => ctx'.in = Count')
    <3>1. hpc' = IF ctx'.in = Count' THEN "tail" ELSE "fix"
          BY <1>2, <2>10 DEF FixOne
    <3>2. i + 1 <= Count
          BY <2>3, <2>4
    <3> QED
        BY <2>3, <2>8, <2>10, <3>1, <3>2
  <2>12. TextGood'
        BY <2>1 DEF Inline64Inv, TextGood
  <2> QED
      BY <2>1, <2>3, <2>8, <2>9, <2>10, <2>11, <2>12 DEF Inline64Inv
<1>3. CASE FixTail
  <2>1. /\ hpc = "tail" /\ ctx' = [ctx EXCEPT !.out = @ \o JumpBack(ctx)] /\ hpc' = "patch"
        /\ sym' = sym /\ text' = text /\ index' = index /\ origin' = origin /\ starts' = starts
        BY <1>3 DEF FixTail
  <2>2. PICK base : base = RowAt(origin)
        OBVIOUS
  <2>3. base \in Int /\ AtRow(ctx, base) /\ CtxType(ctx) /\ Aligned(ctx.out, base) /\ Len(ctx.out) <= 9 * ctx.in
        /\ ctx.in \in {1, 4, 5} /\ origin \in Nat
        BY <2>1, <2>2, RowAddress DEF Inline64Inv, AtRow, Moved
  <2>4. PICK S : ctx \in CtxOf(S)
        BY <2>3 DEF CtxType
  <2>5. PICK t : t = JumpBack(ctx)
        OBVIOUS
  <2>6. (\E T : t \in Seq(T)) /\ Len(t) <= 5 /\ Aligned(t, base + Len(ctx.out))
        BY <2>3, <2>5, JumpBackFits
  <2>7. PICK T : t \in Seq(T)
        BY <2>6
  <2>8. PICK U : U = S \cup T
        OBVIOUS
  <2>9. ctx.out \in Seq(U) /\ t \in Seq(U)
    <3>1. S \subseteq U /\ T \subseteq U /\ ctx.out \in Seq(S)
          BY <2>4, <2>8 DEF CtxOf
    <3> QED
        BY <2>7, <3>1, Larger
  <2>10. PICK q : q = ctx.out \o t
        OBVIOUS
  <2>11. q \in Seq(U) /\ Len(q) <= 50 /\ Aligned(q, base)
    <3>1. /\ ctx.out \o t \in Seq(U) /\ Len(ctx.out \o t) = Len(ctx.out) + Len(t) /\ Aligned(ctx.out \o t, base)
          BY <2>3, <2>6, <2>9, Joined
    <3>2. Len(ctx.out) \in Nat /\ Len(ctx.out) <= 45 /\ Len(t) \in Nat
          BY <2>3, <2>7, OutLength
    <3> QED
        BY <2>6, <2>10, <3>1, <3>2
  <2>12. ctx' = [in |-> ctx.in, out |-> q, dat |-> ctx.dat, first |-> ctx.first, fmap |-> ctx.fmap]
        BY <2>1, <2>4, <2>5, <2>10 DEF CtxOf
  <2>13. CtxType(ctx') /\ ctx'.out = q
    <3>1. ctx.in \in 0 .. 5 /\ ctx.dat \in Places /\ ctx.first \in Places /\ ctx.fmap \in FixMaps
          BY <2>4 DEF CtxOf
    <3>2. ctx' \in CtxOf(U)
          BY <2>11, <2>12, <3>1, CtxMade
    <3> QED
        BY <2>12, <3>2 DEF CtxType
  <2>14. RowAt(origin)' = base
        BY <2>1, <2>2 DEF RowAt
  <2>15. TextGood'
        BY <2>1 DEF Inline64Inv, TextGood
  <2> QED
      BY <2>1, <2>3, <2>11, <2>13, <2>14, <2>15 DEF Inline64Inv
<1>4. CASE Patch
  <2>1. /\ hpc = "patch" /\ text' = Overwritten /\ hpc' = "idle"
        /\ sym' = sym /\ index' = index /\ origin' = origin /\ starts' = starts /\ ctx' = ctx
        BY <1>4 DEF Patch
  <2>2. sym \in Symbols /\ origin \in Nat /\ CtxType(ctx) /\ Len(ctx.out) <= 50 /\ TextGood /\ starts # 0
        BY <2>1 DEF Inline64Inv
  <2>3. PICK n, j : n \in 1 .. 5 /\ n = Len(Jump) /\ j = Jump /\ Aligned(j, sym.at) /\ n = Len(j)
        BY <2>2, JumpWritten
  <2>4. ASSUME NEW k \in 1 .. 5
        PROVE  text'[k] = IF k <= n THEN j[k] ELSE text[k]
        BY <2>1, <2>3 DEF Overwritten
  <2>5. TextGood'
    <3> SUFFICES ASSUME NEW k \in 1 .. 5
                 PROVE  GoodAt(text'[k], sym.at + k - 1)
        BY <2>1 DEF TextGood
    <3>1. CASE k <= n
      <4>1. k \in 1 .. Len(j)
            BY <2>3, <3>1
      <4>2. GoodAt(j[k], sym.at + k - 1)
            BY <2>3, <4>1 DEF Aligned
      <4> QED
          BY <2>4, <3>1, <4>2
    <3>2. CASE ~ (k <= n)
          BY <2>2, <2>4, <3>2 DEF TextGood
    <3> QED
        BY <3>1, <3>2
  <2>6. text' # sym'.code
    <3>1. PICK k \in 1 .. n : j[k] # sym.code[k]
          BY <2>2, <2>3, JumpWritten
    <3>2. k \in 1 .. 5 /\ k <= n
          BY <2>3, <3>1
    <3> QED
        BY <2>1, <2>4, <3>1, <3>2
  <2>7. origin' # NO_ROW
        BY <2>1, <2>2, PoolRows
  <2> QED
      BY <2>1, <2>2, <2>5, <2>6, <2>7 DEF Inline64Inv
<1>5. CASE PatchFails
  <2>1. /\ hpc = "patch" /\ hpc' = "idle" /\ origin' = NO_ROW
        /\ sym' = sym /\ text' = text /\ index' = index /\ starts' = starts /\ ctx' = ctx
        BY <1>5 DEF PatchFails
  <2>2. TextGood'
        BY <2>1 DEF Inline64Inv, TextGood
  <2> QED
      BY <2>1, <2>2 DEF Inline64Inv
<1>6. CASE UNCHANGED ivars
  <2>1. /\ sym' = sym /\ text' = text /\ index' = index /\ origin' = origin /\ ctx' = ctx
        /\ hpc' = hpc /\ starts' = starts
        BY <1>6 DEF ivars
  <2>2. RowAt(origin)' = RowAt(origin) /\ Count' = Count /\ TextGood'
        BY <2>1 DEF RowAt, Count, Inline64Inv, TextGood
  <2> QED
      BY <2>1, <2>2 DEF Inline64Inv
<1> QED
    BY <1>1, <1>2, <1>3, <1>4, <1>5, <1>6 DEF Inline64Next

\* Under every function of the assumption, every pool and every number of
\* rows already taken: a function that is overwritten has its original, one
\* that is not has none (A64HookFunction's *result), and the words moved by
\* __fix_instructions fit in their row, with literals that are aligned.
THEOREM Inline64HookedHasOrigin == Inline64Spec => []HookedHasOrigin
<1>1. Inline64Inv => HookedHasOrigin
  <2> SUFFICES ASSUME Inline64Inv
               PROVE  HookedHasOrigin
      OBVIOUS
  <2>1. Len(ctx.out) <= ROW_WORDS
    <3>1. Len(ctx.out) \in Nat /\ ctx.in \in 0 .. 5
          BY OutLength DEF Inline64Inv, CtxType, CtxOf
    <3>2. Len(ctx.out) <= 50
          BY <3>1 DEF Inline64Inv
    <3> QED
        BY <3>1, <3>2, PoolRows
  <2>2. ASSUME hpc = "patch", NEW k \in DOMAIN ctx.out, ctx.out[k].op = "ldr"
        PROVE  (RowAt(origin) + k - 1 + ctx.out[k].off) % ctx.out[k].al = 0
    <3>1. k \in 1 .. Len(ctx.out)
          BY <2>2 DEF Inline64Inv, CtxType, CtxOf
    <3>2. Aligned(ctx.out, RowAt(origin))
          BY <2>2 DEF Inline64Inv
    <3> QED
        BY <2>2, <3>1, <3>2 DEF Aligned, GoodAt
  <2>3. RowFits
        BY <2>1, <2>2 DEF RowFits
  <2> QED
      BY <2>3 DEF HookedHasOrigin, Inline64Inv
<1> QED
    BY <1>1, Inline64InvInit, Inline64InvStep, PTL DEF Inline64Spec

================================================================================
