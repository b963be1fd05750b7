------------------------------- MODULE MCUnwind -------------------------------
(***************************************************************************)
(* Threads for Unwind: stacks built by running the prologues of a chain of *)
(* functions, with the unwind instructions a compiler writes for them.     *)
(***************************************************************************)
EXTENDS Unwind, SequencesExt

TOP == 1000

\* A function: callee-saved registers pushed with lr, VFP registers, words of
\* locals, whether r7 is its frame pointer; ok: it has unwind instructions.
Func(i, saved, vfp, locals, fp, ok) ==
    [start |-> 2000 + 100 * i, saved |-> saved, vfp |-> vfp, locals |-> locals, fp |-> fp, ok |-> ok]
FuncTable ==
    <<Func(1, {4, 7}, 0, 2, FALSE, TRUE), Func(2, {4, 5, 6}, 1, 0, FALSE, TRUE),
      Func(3, {4, 5, 6, 7}, 0, 3, TRUE, TRUE), Func(4, {5, 8, 11}, 0, 130, FALSE, TRUE),
      Func(5, {4}, 0, 1, FALSE, FALSE)>>

\* Frame: a function and where its call returns to: behind an ARM call, a long
\* or a short Thumb call.
Return(f, site) == f.start + (CASE site = "arm" -> 40 [] site = "long" -> 61 [] OTHER -> 81)
CallAt(f, site) == Return(f, site) - (IF site = "short" THEN 2 ELSE 4)

\* The members of S, the lowest first.
Sorted(S) == [k \in 1 .. Cardinality(S) |-> CHOOSE x \in S : Cardinality({y \in S : y <= x}) = k]

Mask(S) == SumSet({2 ^ k : k \in S})
Padded(s, n) == s \o [k \in 1 .. n - Len(s) |-> 176]
UnwindBytes(f) ==
    LET below == Cardinality(f.saved) - 1
        move == IF f.fp THEN <<151>> \o (IF below > 0 THEN <<64 + below - 1>> ELSE <<>>)
                ELSE (CASE f.locals = 0 -> <<>> [] f.locals < 65 -> <<f.locals - 1>> [] OTHER -> <<178, f.locals - 129>>)
                     \o (IF f.vfp = 0 THEN <<>> ELSE <<208 + f.vfp - 1>>)
        pop == IF f.saved = 4 .. 3 + Cardinality(f.saved) THEN <<168 + Cardinality(f.saved) - 1>>
               ELSE <<128 + 4, Mask({r - 4 : r \in f.saved})>>
        all == move \o pop
    IN  IF Len(all) <= 3 THEN Padded(all, 3) ELSE Padded(all, 6)

Exidx ==
    [i \in DOMAIN FuncTable |->
       [start |-> FuncTable[i].start,
        handler |-> IF FuncTable[i].ok THEN [kind |-> "builtin", bytes |-> UnwindBytes(FuncTable[i])]
                    ELSE [kind |-> "cantunwind", bytes |-> <<>>]]]

Words(f) == f.locals + 2 * f.vfp + Cardinality(f.saved) + 1

\* Frames of a chain, innermost first; Base(c, k): sp on entry to frame k.
Base(c, k) ==
    TOP - FoldLeft(LAMBDA a, j : a + (IF j > k THEN Words(c[j].f) ELSE 0), 0, [j \in 1 .. Len(c) |-> j])
R7(c, k) == IF \E j \in k .. Len(c) : c[j].f.fp
            THEN Base(c, Min({j \in k .. Len(c) : c[j].f.fp})) - 2 ELSE 5000

\* Frame k from its lowest word up: locals, VFP registers, saved registers, lr.
FrameWords(c, k) ==
    LET f == c[k].f
        saved == Sorted(f.saved)
        r7 == IF k = Len(c) THEN 5000 ELSE R7(c, k + 1)
    IN  [j \in 1 .. f.locals + 2 * f.vfp |-> 0]
        \o [j \in 1 .. Len(saved) |-> IF saved[j] = 7 THEN r7 ELSE 0]
        \o <<IF k = Len(c) THEN 0 ELSE Return(c[k + 1].f, c[k + 1].site)>>

ArmStack(c) ==
    LET words == FlattenSeq([k \in 1 .. Len(c) |-> FrameWords(c, k)]) \o <<0>>
        low == TOP + 1 - Len(words)
    IN  [a \in low .. TOP |-> words[a - low + 1]]

ArmCalls(c) ==
    LET all == [k \in 1 .. Len(c) |-> IF k = 1 THEN c[1].f.start + 20 ELSE CallAt(c[k].f, c[k].site)]
        Stops == {k \in 1 .. Len(c) : ~ c[k].f.ok} \cup {Len(c)}
    IN  SubSeq(all, IGNORE_DEPTH + 1, Min(Stops))

ArmThread(c) ==
    [arch |-> "arm", stack |-> ArmStack(c), top |-> TOP,
     regs |-> [r \in 0 .. 15 |-> CASE r = R_SP -> Base(c, 1) - Words(c[1].f)
                                   [] r = R_PC -> c[1].f.start + 20
                                   [] r = 7 -> R7(c, 1)
                                   [] OTHER -> 0],
     exidx |-> Exidx, long |-> {Return(FuncTable[i], "long") : i \in DOMAIN FuncTable},
     calls |-> ArmCalls(c)]

Frame(i, site) == [f |-> FuncTable[i], site |-> site]
Outer == {Frame(1, "long"), Frame(2, "short"), Frame(3, "long"), Frame(4, "arm"), Frame(5, "arm")}
Small == {o \in Outer : o.f.locals < 100}
Chains ==
    {<<Frame(1, "arm"), Frame(2, "long"), x>> \o s : x \in Outer, s \in UNION {[1 .. n -> Small] : n \in 0 .. 3}}

\* ARM64: frame records at the addresses of fps, with their return addresses;
\* the last one has the frame pointer last.
Arm64Thread(fps, returns, last) ==
    LET n == Len(fps)
        calls == [k \in 1 .. n |-> returns[k]]
        end == IF last > fps[n] /\ last % 2 = 0 THEN n ELSE n - 1
        kept == {k \in 1 .. end : k = 1 \/ calls[k] # calls[k - 1]}
        At(a) == CHOOSE k \in 1 .. n : a \in {fps[k], fps[k] + 1}
    IN  [arch |-> "arm64", top |-> 24,
         stack |-> [a \in 0 .. 23 |->
                      IF \E k \in 1 .. n : a = fps[k]
                      THEN IF At(a) = n THEN last ELSE fps[At(a) + 1]
                      ELSE IF \E k \in 1 .. n : a = fps[k] + 1 THEN calls[At(a)] ELSE 9],
         regs |-> [fp |-> fps[1], sb |-> 0, pc |-> 0],
         calls |-> [k \in 1 .. Cardinality(kept) |-> calls[Sorted(kept)[k]]]]

Ascending(n) == {Sorted(S) : S \in kSubset(n, {2, 4, 8, 12, 16, 20})}
Arm64Threads ==
    UNION {{Arm64Thread(s, r, l) : s \in Ascending(n), r \in [1 .. n -> {701, 702}], l \in {0, 23, 24}} : n \in 1 .. 6}

MCThreads == {ArmThread(c) : c \in Chains} \cup Arm64Threads
===============================================================================
