----------------------------- MODULE Inline64Runs -----------------------------
(***************************************************************************)
(* What the words of Inline64 do when they are run, in the function and in *)
(* its row of the pool.  An outcome is the visible effects and the next    *)
(* address.                                                                *)
(***************************************************************************)
EXTENDS Inline64

\* The row's word at address a.
RowWord(a) == rows[origin][a - RowAt(origin) + 1]
RowEnd == RowAt(origin) + Len(rows[origin])

\* A load of n words at a: an address if they are the halves of one.
Loaded(rd, n, At(_), a) ==
    LET v == [k \in 1 .. n |-> At(a + k - 1)]
    IN  IF n = 2 /\ v[1][1] = "lo" THEN <<"addr", rd, v[1][2], v[1][3]>> ELSE <<"load", rd, v>>

RowContent(a) ==
    IF a \in RowAt(origin) .. RowEnd - 1 THEN RowWord(a).val ELSE Content(a)

\* One word w of address a: its effect (or none) and where it can go.
Effect(w, a, At(_)) ==
    CASE w.op = "plain" -> <<<<"do", w.rd>>>>
      [] w.op = "bl" -> <<<<"link", a + 1>>>>
      [] w.op = "link" -> <<<<"link", a + w.off>>>>
      [] w.op = "ldr" -> <<Loaded(w.rd, w.size, At, a + w.off)>>
      [] w.op = "adr" -> <<<<"addr", w.rd, a + w.off, w.low>>>>
      [] w.op = "adrp" -> <<<<"addr", w.rd, (a \div PAGE_WORDS) * PAGE_WORDS + w.off, 0>>>>
      [] OTHER -> <<>>

Targets(w, a, x17) ==
    CASE w.op \in {"b", "bl"} -> {a + w.off}
      [] w.op \in {"cond", "tb"} -> {a + 1, a + w.off}
      [] w.op = "br" -> {x17}
      [] OTHER -> {a + 1}

\* Runs the row from a while the next word is in Through.  Register 17 is the
\* engine's own: what is loaded there is where br goes.
RECURSIVE Run(_, _, _, _)
Run(a, x17, Through, fuel) ==
    LET w == RowWord(a)
        all == Effect(w, a, RowContent)
        mine == all # <<>> /\ all[1][1] \in {"addr", "load"} /\ all[1][2] = 17
        reg == IF mine THEN all[1][3] ELSE x17
        effects == IF mine THEN <<>> ELSE all
    IN  UNION {IF t \in Through /\ fuel > 0
               THEN {<<effects \o o[1], o[2]>> : o \in Run(t, reg, Through, fuel - 1)}
               ELSE {<<effects, t>>} : t \in Targets(w, a, x17)}

\* The words the fixed instruction j takes, without its first.
Rest(j) ==
    (RowAt(origin) + ctx.dat[j] + 1) ..
        (RowAt(origin) + (IF j + 1 < Count THEN ctx.first[j + 1] ELSE Len(ctx.out)) - 1)

\* a in the function and q in the row are the same place: outside of the moved
\* words they are equal; a moved word is met at its first word or at a nop
\* before it, and the word behind the moved ones at the tail.
Same(a, q) ==
    LET j == a - sym.at
    IN  IF Inside(a) THEN q \in RowAt(origin) + ctx.first[j] .. RowAt(origin) + ctx.dat[j]
        ELSE \/ q = a
             \/ /\ j = Count /\ q \in RowAt(origin) .. RowEnd - 1
                /\ {o[2] : o \in Run(q, a, q + 1 .. RowEnd - 1, ROW_WORDS)} = {a}

SameEffects(e, f) ==
    /\ Len(e) = Len(f)
    /\ \A k \in DOMAIN e :
         /\ e[k][1] = f[k][1]
         /\ CASE e[k][1] = "link" -> Same(e[k][2], f[k][2])
              [] e[k][1] = "addr" -> e[k][2] = f[k][2] /\ Same(e[k][3], f[k][3]) /\ e[k][4] = f[k][4]
              [] OTHER -> e[k] = f[k]

\* What word j of the function does, and what its fixed form does.
Original(j) ==
    LET w == sym.code[j + 1]
    IN  {<<Effect(w, sym.at + j, LAMBDA a : IF a - sym.at \in 0 .. 4 THEN <<"code", sym.code[a - sym.at + 1]>>
                                            ELSE <<"mem", a>>), t>> : t \in Targets(w, sym.at + j, 0)}
Fixed(j) ==
    IF sym.code[j + 1].op = "prfm" THEN {<<<<>>, RowAt(origin) + ctx.dat[j]>>}
    ELSE Run(RowAt(origin) + ctx.dat[j], 0, Rest(j), ROW_WORDS)

\* The forms the engine does not fix: a conditional branch backwards, an adrp
\* of the function's own page, a near adr of an odd byte.
Supported(j) ==
    LET w == sym.code[j + 1]
    IN  /\ w.op \in {"cond", "tb"} => w.off >= 0
        /\ w.op = "adrp" => ~ Inside(((sym.at + j) \div PAGE_WORDS) * PAGE_WORDS + w.off)
        /\ w.op = "adr" => \/ w.low = 0 \/ Inside(sym.at + j + w.off)
                           \/ \A r \in 0 .. A64_MAX_BACKUPS * ROW_WORDS :
                                Distance(sym.at + j + w.off, sym.pool + r) * 4 > RANGE_A + 4
-----------------------------------------------------------------------------
(* Properties. *)

Moved == hpc = "idle" /\ origin # NO_ROW /\ starts = 1

\* The original that a proxy calls never leads to the proxy itself: what was
\* moved into the row is the function's own start.  It holds for one start
\* only: nothing takes the jump away again, and a second start (MaxStarts = 2)
\* moves that jump.
OriginIsNotProxy ==
    hpc = "idle" /\ origin # NO_ROW =>
        sym.replace \notin {o[2] : o \in Run(RowAt(origin), 0, RowAt(origin) .. RowEnd - 1, 12)}

\* Every moved instruction does in the row what it did in the function, and
\* goes on at the same place: branches between moved words, over nops and
\* literals, into the middle of the function and out of it.  With the words
\* overwritten, no way leads back into them, and none to the proxy.
RelocatedSame ==
    /\ OriginIsNotProxy
    /\ Moved => \A j \in 0 .. Count - 1 :
        Supported(j) =>
            /\ \A o \in Original(j) : \E f \in Fixed(j) :
                 Same(o[2], f[2]) /\ SameEffects(o[1], f[1])
            /\ \A f \in Fixed(j) : \E o \in Original(j) :
                 Same(o[2], f[2]) /\ SameEffects(o[1], f[1])
===============================================================================
