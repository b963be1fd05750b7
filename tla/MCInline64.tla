------------------------------ MODULE MCInline64 ------------------------------
(***************************************************************************)
(* Functions for Inline64: two of the words, wherever they are, are        *)
(* PC-relative; targets are next to the function, next to the pool, among  *)
(* the moved words, or far from both; the pool is near, reachable by b     *)
(* only, or out of reach.                                                  *)
(***************************************************************************)
EXTENDS Inline64Runs

Plain(k) == [Word("plain") EXCEPT !.rd = k]
Ldr(size, al, n) == [Word("ldr") EXCEPT !.rd = 3, !.size = size, !.al = al, !.off = n]
Adr(n, low) == [Word("adr") EXCEPT !.rd = 3, !.off = n, !.low = low]

\* PC-relative words for a function, its word j and a pool at distance d.
Relative(j, d) ==
    {[Word(op) EXCEPT !.off = n] : op \in {"b", "bl"}, n \in {-j, 3 - j, -9, d + 60}}
    \cup {[Word(op) EXCEPT !.off = n] : op \in {"cond", "tb"}, n \in {0, 2, 9, -1}}
    \cup {Ldr(s[1], s[2], n) : s \in {<<1, 1>>, <<2, 2>>, <<4, 4>>, <<1, 2>>}, n \in {-9, 8, 150}}
    \cup {Ldr(1, 1, -j), Word("prfm")}
    \cup {Adr(-j, 0), Adr(4 - j, 0), Adr(9, 0), Adr(9, 1), Adr(150, 3)}
    \cup {[Word("adrp") EXCEPT !.rd = 3, !.off = p] : p \in {0, 256}}

\* Words that can be encoded, with their literal in the place it is aligned at.
Encodable(at, j, w) ==
    /\ w.op = "ldr" => (at + j + w.off) % w.al = 0 /\ Distance(w.off, 0) <= RANGE_L
    /\ w.op = "cond" => Distance(w.off, 0) <= RANGE_C
    /\ w.op = "tb" => Distance(w.off, 0) <= RANGE_T
    /\ w.op = "adr" => Distance(4 * w.off + w.low, 0) <= RANGE_A
    /\ w.op \in {"b", "bl"} => Distance(w.off, 0) <= RANGE_B

Function(at, d, replace, C) ==
    [at |-> at, code |-> [k \in 1 .. 5 |-> C[k]], replace |-> at + replace, pool |-> 4 * ((at + d) \div 4)]

Functions(Ats, Ds, Replaces, Pairs) ==
    UNION {UNION {{Function(at, d, r, [k \in 1 .. 5 |-> IF k = p[1] + 1 THEN u ELSE IF k = p[2] + 1 THEN v ELSE Plain(k)]) :
                      r \in Replaces,
                      u \in {w \in Relative(p[1], d) : Encodable(at, p[1], w)},
                      v \in {w \in Relative(p[2], d) : Encodable(at, p[2], w)}} :
                  p \in Pairs} : at \in Ats, d \in Ds}

\* Five wide loads, the longest row.
Loads(Ats) ==
    {Function(at, 9000, 9900, [k \in 1 .. 5 |-> Ldr(4, 4, 7 - k - (at % 4) + 22)]) : at \in Ats}
    \cup {Function(at, 9000, 9900, [k \in 1 .. 5 |-> IF k % 2 = 1 THEN Ldr(4, 4, 40 - (k - 1) - (at % 4))
                                                     ELSE Ldr(1, 1, 40)]) : at \in Ats}

MCSymbols ==
    Functions({1025}, {40, 9000}, {9900}, {<<1, 3>>})
    \cup Functions({1024}, {9000}, {9900}, {<<0, 2>>})
    \cup Functions({1026}, {300}, {20}, {<<0, 4>>})
    \cup Loads(1024 .. 1027)
===============================================================================
