------------------------------- MODULE Inline64 -------------------------------
(***************************************************************************)
(* The ARM64 inline hook engine (And64InlineHook.cpp): A64HookFunction     *)
(* takes a row of the pool, copies the first instructions of the function  *)
(* there with their PC-relative operands fixed, ends the row with a jump   *)
(* back, and overwrites the function's start with a jump to the proxy.     *)
(*                                                                         *)
(* Addresses count words.  A word is a record; off is what its PC-relative *)
(* operand adds to the address of the word itself.  The bit patterns, the  *)
(* shifts and the masks are left out, except where they lose something:    *)
(* the sign of a conditional branch, and the low bits of a near adr.       *)
(***************************************************************************)
EXTENDS Integers, Sequences, FiniteSets, FiniteSetsExt

CONSTANTS
    Symbols,        \* records [at, code, replace, pool]: the function, its words, proxy and pool
    RANGE_B, RANGE_C, RANGE_T, RANGE_L, RANGE_A,  \* reach of b, b.c, tbz, ldr (words) and adr (bytes)
    PAGE_WORDS,
    A64_MAX_BACKUPS,
    ROW_WORDS,      \* A64_MAX_INSTRUCTIONS * 10
    FirstRows,      \* rows taken before
    MaxStarts,      \* bound on the calls of registerInlineProxy
    NO_ROW

VARIABLES
    sym,            \* the function that is hooked
    text,           \* the first five words of the function
    rows,           \* __insns_pool
    index,          \* __index + 1
    origin,         \* *result: a row, or NO_ROW
    ctx,            \* context, inp and outp of __fix_instructions
    hpc,            \* idle, fix, tail, patch
    starts

ivars == <<sym, text, rows, index, origin, ctx, hpc, starts>>

Distance(a, b) == IF a >= b THEN a - b ELSE b - a
Word(op) == [op |-> op, rd |-> 0, size |-> 0, al |-> 1, off |-> 0, low |-> 0, val |-> <<"none">>]
Nop == Word("nop")
B(n) == [Word("b") EXCEPT !.off = n]
BrX17 == Word("br")
LdrX(rd, n) == [Word("ldr") EXCEPT !.rd = rd, !.size = 2, !.al = 2, !.off = n]
AdrX30(n) == [Word("link") EXCEPT !.off = n]
Data(v) == [Word("data") EXCEPT !.val = v]
Address(a, low) == <<Data(<<"lo", a, low>>), Data(<<"hi", a, low>>)>>

\* A row of the pool has ten words for each of the five that are moved.
ASSUME PoolRows ==
    /\ NO_ROW \notin Int /\ FirstRows \subseteq Nat
    /\ A64_MAX_BACKUPS \in Nat /\ ROW_WORDS \in Nat /\ ROW_WORDS >= 5 * 10
    /\ {RANGE_B, RANGE_C, RANGE_T, RANGE_L, RANGE_A} \subseteq Nat /\ PAGE_WORDS \in Nat \ {0}

IsWord(w) == w \in [op : {w.op}, rd : Int, size : Int, al : {1, 2, 4}, off : Int, low : Int, val : {w.val}]

\* A function starts with instructions, and not with the jump to its proxy; a
\* literal is in a place that is aligned for its load.
ASSUME FunctionWords ==
    \A s \in Symbols :
        /\ {s.at, s.pool, s.replace} \subseteq Int
        /\ \A k \in 1 .. 5 :
             /\ IsWord(s.code[k]) /\ s.code[k].op # "data"
             /\ s.code[k].op = "ldr" => (s.at + k - 1 + s.code[k].off) % s.code[k].al = 0
        /\ s.code[1] # B(s.replace - s.at)
-----------------------------------------------------------------------------
(* context: the words are numbered from 0 in out. *)

RowAt(r) == sym.pool + r * ROW_WORDS
Count == IF Distance(sym.replace, sym.at) < RANGE_B THEN 1 ELSE IF sym.at % 2 = 0 THEN 4 ELSE 5
In(c) == sym.at + c.in
Out(c) == RowAt(origin) + Len(c.out)
Inside(a) == a >= sym.at /\ a < sym.at + Count

\* What is at an address outside of the pool.
Content(a) ==
    IF a - sym.at \notin 0 .. 4 THEN <<"mem", a>>
    ELSE LET w == text[a - sym.at + 1] IN IF w.op = "data" THEN w.val ELSE <<"code", w>>

ContextInit ==
    [in |-> 0, out |-> <<>>, dat |-> [j \in 0 .. 4 |-> 0], first |-> [j \in 0 .. 4 |-> 0],
     fmap |-> [j \in 0 .. 4 |-> {}]]

\* Writes one fixed instruction behind lead nops, remembers where it is, and
\* completes the branches that wait for it (process_fix_map).
Put(c, lead, words) ==
    LET at == Len(c.out) + lead
        out == c.out \o [k \in 1 .. lead |-> Nop] \o words
    IN  [c EXCEPT !.out = [k \in DOMAIN out |->
                             IF k - 1 \in c.fmap[c.in] THEN [out[k] EXCEPT !.off = at - (k - 1)] ELSE out[k]],
                  !.dat[c.in] = at, !.first[c.in] = Len(c.out), !.fmap[c.in] = {}, !.in = @ + 1]

\* Mutant: a branch into the moved words keeps its old target.
KeepOld(c, w, to) == Put(c, 0, <<[w EXCEPT !.off = to - Out(c)]>>)

\* The instruction stays one word.  A target among the moved words is their
\* new place, or waits in the fix map until that is known.
Keep(c, w, to) ==
    LET ref == to - sym.at
    IN  IF ~ Inside(to) THEN Put(c, 0, <<[w EXCEPT !.off = to - Out(c)]>>)
        ELSE IF ref < c.in THEN Put(c, 0, <<[w EXCEPT !.off = c.dat[ref] - Len(c.out)]>>)
        ELSE IF ref = c.in THEN Put(c, 0, <<[w EXCEPT !.off = 0]>>)
        ELSE Put([c EXCEPT !.fmap[ref] = @ \cup {Len(c.out)}], 0, <<[w EXCEPT !.off = 0]>>)

Odd(a) == a % 2

FixBranch(c, w) ==
    LET to == In(c) + w.off
        far == ~ Inside(to) /\ Distance(to, Out(c)) >= RANGE_B
    IN  IF ~ far THEN Keep(c, w, to)
        ELSE IF w.op = "b" THEN Put(c, Odd(Out(c)), <<LdrX(17, 2), BrX17>> \o Address(to, 0))
        ELSE Put(c, 1 - Odd(Out(c)), <<LdrX(17, 3), AdrX30(4), BrX17>> \o Address(to, 0))

\* b.c, cbz, cbnz, tbz, tbnz: the operand is not sign-extended.
FixCond(c, w) ==
    LET range == IF w.op = "tb" THEN RANGE_T ELSE RANGE_C
        to == In(c) + (w.off % (2 * (range + 1)))
        far == ~ Inside(to) /\ Distance(to, Out(c)) >= range
    IN  IF ~ far THEN Keep(c, w, to)
        ELSE Put(c, Odd(Out(c)), <<[w EXCEPT !.off = 2], B(5), LdrX(17, 2), BrX17>> \o Address(to, 0))

\* The nops it takes to bring a to a multiple of al.
Lead(al, a) == (al - (a % al)) % al

\* A literal that is far, or among the moved words, is copied.
FixLoad(c, w) ==
    LET to == In(c) + w.off
        moved == Inside(to) \/ Distance(to, Out(c)) + (w.al - 1) >= RANGE_L
        lead == IF moved THEN Lead(w.al, Out(c) + 2) ELSE Lead(w.al, Out(c) - to)
    IN  IF w.op = "prfm" THEN Put(c, 0, <<>>)
        ELSE IF moved
        THEN Put(c, lead, <<[w EXCEPT !.off = 2], B(1 + w.al)>>
                          \o [k \in 1 .. w.al |-> Data(Content(to + k - 1))])
        ELSE Put(c, lead, <<[w EXCEPT !.off = to - Out(c) - lead]>>)

\* A near adr leaves the low bits of its operand in the register's number.
FixAdr(c, w) ==
    LET to == In(c) + w.off
        page == (In(c) \div PAGE_WORDS) * PAGE_WORDS + w.off
        Literal(a, low) == Put(c, Odd(Out(c)), <<LdrX(w.rd, 2), B(3)>> \o Address(a, low))
    IN  IF w.op = "adrp" THEN IF Inside(page) THEN Put(c, 0, <<w>>) ELSE Literal(page, 0)
        ELSE IF Inside(to) THEN Keep(c, w, to)
        ELSE IF Distance(4 * to + w.low, 4 * Out(c)) >= RANGE_A THEN Literal(to, w.low)
        ELSE Keep(c, [w EXCEPT !.rd = @ + 8 * w.low], to)

Fix(c, w) ==
    CASE w.op \in {"b", "bl"} -> FixBranch(c, w)
      [] w.op \in {"cond", "tb"} -> FixCond(c, w)
      [] w.op \in {"prfm", "ldr"} -> FixLoad(c, w)
      [] w.op \in {"adr", "adrp"} -> FixAdr(c, w)
      [] OTHER -> Put(c, 0, <<w>>)

\* The jump behind the moved words.
JumpBack(c) ==
    IF Distance(In(c), Out(c)) < RANGE_B THEN <<B(In(c) - Out(c))>>
    ELSE [k \in 1 .. Odd(Out(c)) |-> Nop] \o <<LdrX(17, 2), BrX17>> \o Address(In(c), 0)
-----------------------------------------------------------------------------
(* The steps. *)

Inline64InitOf(function, taken) ==
    /\ sym = function
    /\ text = sym.code
    /\ rows = [r \in 0 .. A64_MAX_BACKUPS - 1 |-> <<>>]
    /\ index = taken
    /\ origin = NO_ROW
    /\ ctx = ContextInit
    /\ hpc = "idle"
    /\ starts = 0

Inline64Init == \E function \in Symbols, taken \in FirstRows : Inline64InitOf(function, taken)

\* What the function's start is overwritten with.
Jump ==
    IF Count = 1 THEN <<B(sym.replace - sym.at)>>
    ELSE [k \in 1 .. Count - 4 |-> Nop] \o <<LdrX(17, 2), BrX17>> \o Address(sym.replace, 0)
Overwritten == [k \in 1 .. 5 |-> IF k <= Len(Jump) THEN Jump[k] ELSE text[k]]

\* FastAllocateTrampoline, and *result is set before the row is filled.
Allocate ==
    /\ hpc = "idle" /\ starts < MaxStarts
    /\ starts' = starts + 1
    /\ index' = index + 1
    /\ IF index < A64_MAX_BACKUPS
       THEN /\ origin' = index /\ hpc' = "fix" /\ ctx' = ContextInit
       ELSE /\ origin' = NO_ROW /\ UNCHANGED <<hpc, ctx>>
    /\ UNCHANGED <<sym, text, rows>>

FixOne ==
    /\ hpc = "fix"
    /\ ctx' = Fix(ctx, text[ctx.in + 1])
    /\ hpc' = IF ctx'.in = Count THEN "tail" ELSE "fix"
    /\ UNCHANGED <<sym, text, rows, index, origin, starts>>

FixTail ==
    /\ hpc = "tail"
    /\ ctx' = [ctx EXCEPT !.out = @ \o JumpBack(ctx)]
    /\ rows' = [rows EXCEPT ![origin] = ctx'.out]
    /\ hpc' = "patch"
    /\ UNCHANGED <<sym, text, index, origin, starts>>

\* mprotect, and the function's start overwritten.
Patch ==
    /\ hpc = "patch"
    /\ text' = Overwritten
    /\ hpc' = "idle"
    /\ UNCHANGED <<sym, rows, index, origin, ctx, starts>>

\* Mutant: *result keeps the row.
PatchFailsKept ==
    /\ hpc = "patch"
    /\ hpc' = "idle"
    /\ UNCHANGED <<sym, text, rows, index, origin, ctx, starts>>

PatchFails ==
    /\ hpc = "patch"
    /\ hpc' = "idle"
    /\ origin' = NO_ROW
    /\ UNCHANGED <<sym, text, rows, index, ctx, starts>>

Inline64Next == Allocate \/ FixOne \/ FixTail \/ Patch \/ PatchFails

Inline64Spec == Inline64Init /\ [][Inline64Next]_ivars
-----------------------------------------------------------------------------
(* Properties. *)

\* The longest sequence of fixes stays within its row of the pool, and the
\* literals are aligned for the width of their load.
RowFits ==
    /\ Len(ctx.out) <= ROW_WORDS
    /\ hpc = "patch" => \A k \in DOMAIN ctx.out :
         LET w == ctx.out[k]
         IN  w.op = "ldr" => (RowAt(origin) + k - 1 + w.off) % w.al = 0

\* A function whose start is overwritten has its original, whatever failed:
\* the pool was used up, or the page could not be written.  One that is not
\* overwritten has none.  And the original is whole: its row has room for it.
HookedHasOrigin ==
    /\ hpc = "idle" /\ starts = 1 => (text # sym.code <=> origin # NO_ROW)
    /\ RowFits
===============================================================================
