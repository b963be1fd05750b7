------------------------------- MODULE ElfProofs -------------------------------
(***************************************************************************)
(* Proofs about the two readers of ELF images: xHook's engine (XhElf) and  *)
(* xDL (Xdl), for any images, processes, names, addresses and calls.       *)
(*                                                                         *)
(* First what the search in a hash table finds, for both kinds; then xDL's *)
(* heap and files, xHook's originals, its search, what its calls leave in  *)
(* memory, and xDL's answers.  What a loop over data computes is shown by  *)
(* looking at the least index at which it would be wrong (LowestIn).       *)
(***************************************************************************)
EXTENDS XhElf, Xdl, SequenceTheorems, FiniteSetTheorems, WellFoundedInduction, TLAPS

\* The least of a set of numbers is one of them.
LEMMA LowestIn ==
    ASSUME NEW T, T \subseteq Nat, T # {}
    PROVE  Min(T) \in T /\ \A y \in T : Min(T) <= y
<1>1. PICK k \in T : \A j \in T : ~ (<<j, k>> \in OpToRel(<, Nat))
      BY WFMin, NatLessThanWellFounded
<1>2. \A j \in T : ~ (j < k)
      BY <1>1 DEF OpToRel
<1>3. \A j \in T : k <= j
      BY <1>2
<1> QED
    BY <1>3 DEF Min

\* The greatest of a set of numbers below a bound is one of them.
LEMMA HighestIn ==
    ASSUME NEW m \in Nat, NEW T, T \subseteq 0 .. m, T # {}
    PROVE  Max(T) \in T /\ \A y \in T : y <= Max(T)
<1> DEFINE D == {m - y : y \in T}
<1>1. D \subseteq Nat /\ D # {}
  <2>1. \A y \in T : m - y \in Nat
        OBVIOUS
  <2>2. PICK y \in T : TRUE
        OBVIOUS
  <2>3. m - y \in D
        OBVIOUS
  <2> QED
      BY <2>1, <2>3
<1>2. PICK k \in D : \A j \in D : k <= j
  <2> HIDE DEF D
  <2> QED
      BY <1>1, LowestIn
<1>3. PICK x \in T : k = m - x
      OBVIOUS
<1>4. \A y \in T : y <= x
  <2> SUFFICES ASSUME NEW y \in T PROVE y <= x
      OBVIOUS
  <2>1. m - y \in D
        OBVIOUS
  <2> QED
      BY <1>2, <1>3, <2>1
<1> QED
    BY <1>4 DEF Max

\* The bit that ends a chain, and the hash without it.
LEMMA ChainEntry ==
    ASSUME NEW h \in Nat, NEW b \in {0, 1}
    PROVE  /\ LowBit(h - LowBit(h) + b) = b
           /\ (h - LowBit(h) + b) \div 2 = h \div 2
BY DEF LowBit

-----------------------------------------------------------------------------
(* ElfHash: the searches of the two hash tables. *)

\* A symbol table as the linker writes it.
SymbolTable(syms) ==
    /\ syms \in Seq(DOMAIN Hash) /\ Len(syms) >= 1
    /\ \A i, j \in DOMAIN syms : syms[i] = syms[j] => i = j

\* t has the fields of u that a search reads.
GnuLike(t, u) ==
    /\ t.bucket_cnt = u.bucket_cnt /\ t.symoffset = u.symoffset /\ t.bloom_sz = u.bloom_sz
    /\ t.bloom_shift = u.bloom_shift /\ t.bloom = u.bloom /\ t.bucket = u.bucket /\ t.chain = u.chain
SysvLike(t, u) == t.bucket_cnt = u.bucket_cnt /\ t.bucket = u.bucket /\ t.chain = u.chain

\* The hash of a symbol is a number.
LEMMA HashOf ==
    ASSUME NEW syms, SymbolTable(syms), NEW i \in 0 .. Len(syms) - 1
    PROVE  Hash[Name(syms, i)] \in Nat /\ Name(syms, i) \in DOMAIN Hash
BY HashNumbers DEF SymbolTable, Name

\* Remainders are below the divisor.
LEMMA Remainder ==
    ASSUME NEW a \in Nat, NEW d \in Nat \ {0}
    PROVE  a % d \in 0 .. d - 1 /\ a \div d \in Nat
OBVIOUS

\* A chain of .gnu.hash: it starts at or before each of its symbols, does not
\* end before the last of them, and has their hashes.
LEMMA GnuChain ==
    ASSUME NEW syms, SymbolTable(syms), NEW o \in 1 .. Len(syms), NEW B \in Nat \ {0},
           NEW W, NEW sh, GnuOrdered(syms, o, B),
           NEW t, GnuLike(t, GnuTable(syms, o, B, W, sh))
    PROVE  /\ \A b \in 0 .. B - 1 : t.bucket[b] \in Nat
           /\ \A i \in o .. Len(syms) - 1 :
                /\ Hash[Name(syms, i)] % B \in 0 .. B - 1
                /\ t.bucket[Hash[Name(syms, i)] % B] \in o .. i
                /\ \A j \in t.bucket[Hash[Name(syms, i)] % B] .. i - 1 : LowBit(t.chain[j - o]) = 0
                /\ t.chain[i - o] \div 2 = Hash[Name(syms, i)] \div 2
<1> DEFINE N == Len(syms)
           H(i) == Hash[Name(syms, i)]
           In(b) == {i \in o .. N - 1 : H(i) % B = b}
<1>1. N \in Nat \ {0} /\ \A i \in 0 .. N - 1 : H(i) \in Nat
      BY HashOf DEF SymbolTable
<1>2. \A i \in o .. N - 1 : H(i) % B \in 0 .. B - 1
  <2> SUFFICES ASSUME NEW i \in o .. N - 1 PROVE H(i) % B \in 0 .. B - 1
      OBVIOUS
  <2>1. H(i) \in Nat
        BY <1>1
  <2> HIDE DEF H
  <2> QED
      BY <2>1, Remainder
<1>3. t.bucket = [b \in 0 .. B - 1 |-> IF In(b) = {} THEN 0 ELSE Min(In(b))]
      BY DEF GnuLike, GnuTable
<1>4. t.chain = [k \in 0 .. N - 1 - o |->
                    H(k + o) - LowBit(H(k + o)) + IF k + o = Max(In(H(k + o) % B)) THEN 1 ELSE 0]
      BY DEF GnuLike, GnuTable
<1>5. \A i \in o .. N - 1 :
        /\ LowBit(t.chain[i - o]) = IF i = Max(In(H(i) % B)) THEN 1 ELSE 0
        /\ t.chain[i - o] \div 2 = H(i) \div 2
  <2> SUFFICES ASSUME NEW i \in o .. N - 1
               PROVE  /\ LowBit(t.chain[i - o]) = IF i = Max(In(H(i) % B)) THEN 1 ELSE 0
                      /\ t.chain[i - o] \div 2 = H(i) \div 2
      OBVIOUS
  <2> DEFINE x == IF i = Max(In(H(i) % B)) THEN 1 ELSE 0
  <2>1. i - o \in 0 .. N - 1 - o /\ (i - o) + o = i
        BY <1>1
  <2>2. t.chain[i - o] = H(i) - LowBit(H(i)) + x
    <3> HIDE DEF H, In
    <3> QED
        BY <1>4, <2>1
  <2>3. x \in {0, 1} /\ H(i) \in Nat
        BY <1>1
  <2> HIDE DEF x, H
  <2>4. LowBit(t.chain[i - o]) = x /\ t.chain[i - o] \div 2 = H(i) \div 2
        BY <2>2, <2>3, ChainEntry
  <2> QED
      BY <2>4 DEF x
<1>6. \A b \in 0 .. B - 1 :
        IF In(b) = {} THEN t.bucket[b] = 0
        ELSE t.bucket[b] \in In(b) /\ \A y \in In(b) : t.bucket[b] <= y
  <2> SUFFICES ASSUME NEW b \in 0 .. B - 1
               PROVE  IF In(b) = {} THEN t.bucket[b] = 0
                      ELSE t.bucket[b] \in In(b) /\ \A y \in In(b) : t.bucket[b] <= y
      OBVIOUS
  <2>1. In(b) \subseteq Nat
        BY <1>1
  <2>2. t.bucket[b] = IF In(b) = {} THEN 0 ELSE Min(In(b))
    <3> HIDE DEF In
    <3> QED
        BY <1>3
  <2> HIDE DEF In
  <2> QED
      BY <2>1, <2>2, LowestIn
<1>7. \A b : In(b) # {} => Max(In(b)) \in In(b) /\ \A y \in In(b) : y <= Max(In(b))
  <2> TAKE b
  <2>1. In(b) \subseteq 0 .. N - 1
        BY <1>1
  <2> HIDE DEF In
  <2> QED
      BY <1>1, <2>1, HighestIn
<1>8. \A i, j \in o .. N - 1 : i < j => H(i) % B <= H(j) % B
      BY DEF GnuOrdered
<1>9. ASSUME NEW i \in o .. N - 1
      PROVE  /\ t.bucket[H(i) % B] \in o .. i
             /\ \A j \in t.bucket[H(i) % B] .. i - 1 : LowBit(t.chain[j - o]) = 0
  <2>1. PICK b \in 0 .. B - 1 : b = H(i) % B
        BY <1>2
  <2>2. i \in In(b)
        BY <2>1
  <2>3. PICK first \in In(b) : first = t.bucket[b] /\ first <= i
    <3> HIDE DEF In
    <3> QED
        BY <1>6, <2>2
  <2>4. first \in o .. i /\ H(first) % B = b
        BY <1>1, <2>3
  <2>5. ASSUME NEW j \in first .. i - 1
        PROVE  LowBit(t.chain[j - o]) = 0
    <3>1. j \in o .. N - 1 /\ j < i
          BY <1>1, <2>4
    <3>2. H(j) % B = b
      <4>1. j = first \/ H(first) % B <= H(j) % B
            BY <1>1, <1>8, <2>4, <3>1
      <4>2. H(j) % B <= H(i) % B
            BY <1>8, <3>1
      <4>3. H(j) % B \in 0 .. B - 1
            BY <1>2, <3>1
      <4> HIDE DEF H
      <4> QED
          BY <2>1, <2>4, <4>1, <4>2, <4>3
    <3>3. Max(In(b)) \in Int /\ i <= Max(In(b))
      <4>1. Max(In(b)) \in In(b) /\ i <= Max(In(b))
        <5> HIDE DEF In
        <5> QED
            BY <1>7, <2>2
      <4> QED
          BY <1>1, <4>1
    <3>4. j # Max(In(H(j) % B))
      <4> HIDE DEF In, H
      <4> QED
          BY <3>1, <3>2, <3>3
    <3> HIDE DEF In, H
    <3> QED
        BY <1>5, <3>1, <3>4
  <2> HIDE DEF H
  <2> QED
      BY <2>1, <2>3, <2>4, <2>5
<1>10. \A b \in 0 .. B - 1 : t.bucket[b] \in Nat
      BY <1>1, <1>6
<1> HIDE DEF H, In
<1>11. \A i \in o .. N - 1 :
        /\ H(i) % B \in 0 .. B - 1
        /\ t.bucket[H(i) % B] \in o .. i
        /\ \A j \in t.bucket[H(i) % B] .. i - 1 : LowBit(t.chain[j - o]) = 0
        /\ t.chain[i - o] \div 2 = H(i) \div 2
      BY <1>2, <1>5, <1>9
<1> QED
    BY <1>10, <1>11 DEF H

\* The search of .gnu.hash finds the symbol of a name among the hashed ones,
\* and nothing for any other name.
LEMMA GnuFindExact ==
    ASSUME NEW syms, SymbolTable(syms), NEW o \in 1 .. Len(syms), NEW B \in Nat \ {0},
           NEW W \in Nat \ {0}, NEW sh \in Nat, GnuOrdered(syms, o, B),
           NEW t, GnuLike(t, GnuTable(syms, o, B, W, sh)), NEW name \in DOMAIN Hash
    PROVE  /\ \A i \in o .. Len(syms) - 1 : Name(syms, i) = name => GnuFind(t, syms, name) = i
           /\ (\A i \in o .. Len(syms) - 1 : Name(syms, i) # name) => GnuFind(t, syms, name) = NOTFND
<1> DEFINE N == Len(syms)
           H(i) == Hash[Name(syms, i)]
           h == Hash[name]
           first == t.bucket[h % B]
           E(i) == t.chain[i - o]
           Ends == {i \in first .. N - 1 : LowBit(E(i)) = 1}
           top == Min(Ends \cup {N - 1})
           Hits == {i \in first .. top : E(i) \div 2 = h \div 2 /\ Name(syms, i) = name}
<1>1. N \in Nat \ {0} /\ h \in Nat /\ h % B \in 0 .. B - 1
  <2>1. N \in Nat \ {0} /\ h \in Nat
        BY HashNumbers DEF SymbolTable
  <2> QED
      BY <2>1, Remainder
<1>2. /\ t.bucket_cnt = B /\ t.symoffset = o /\ t.bloom_sz = W /\ t.bloom_shift = sh
      /\ t.bloom = [w \in 0 .. W - 1 |-> UNION {BloomBits(H(i), sh) : i \in {j \in o .. N - 1 : BloomWord(H(j), W) = w}}]
      BY DEF GnuLike, GnuTable
<1>3. GnuFind(t, syms, name) =
        IF \/ ~ BloomBits(h, sh) \subseteq t.bloom[BloomWord(h, W)] \/ first < o \/ Hits = {}
        THEN NOTFND ELSE Min(Hits)
      BY <1>2 DEF GnuFind
<1>4. first \in Nat
      BY <1>1, GnuChain
<1>5. top \in Ends \cup {N - 1} /\ (\A j \in Ends : top <= j) /\ top <= N - 1 /\ top \in Int
  <2>1. Ends \cup {N - 1} \subseteq Nat /\ Ends \subseteq first .. N - 1
        BY <1>1, <1>4
  <2> HIDE DEF Ends, first
  <2> DEFINE T == Ends \cup {N - 1}
  <2>2. Min(T) \in T /\ \A y \in T : Min(T) <= y
    <3>1. T # {} /\ T \subseteq Nat
          BY <2>1
    <3> HIDE DEF T
    <3> QED
        BY <3>1, LowestIn
  <2>3. top \in T /\ (\A y \in T : top <= y) /\ T \subseteq Nat
        BY <2>1, <2>2
  <2> HIDE DEF top
  <2> QED
      BY <1>1, <2>3
<1>6. ASSUME \A i \in o .. N - 1 : Name(syms, i) # name
      PROVE  GnuFind(t, syms, name) = NOTFND
  <2>1. first >= o => Hits = {}
    <3> SUFFICES ASSUME first >= o, NEW j \in Hits PROVE FALSE
        OBVIOUS
    <3>1. j \in first .. top /\ Name(syms, j) = name
          OBVIOUS
    <3> HIDE DEF first, top, Ends
    <3>2. j \in o .. N - 1
          BY <1>1, <1>4, <1>5, <3>1
    <3> QED
        BY <1>6, <3>1, <3>2
  <2> HIDE DEF first, Hits
  <2> QED
      BY <1>3, <1>4, <2>1
<1>7. ASSUME NEW i \in o .. N - 1, Name(syms, i) = name
      PROVE  GnuFind(t, syms, name) = i
  <2>1. H(i) = h
        BY <1>7
  <2>2. /\ first \in o .. i
        /\ \A j \in first .. i - 1 : LowBit(E(j)) = 0
        /\ E(i) \div 2 = h \div 2
        BY <1>7, GnuChain
  <2>3. BloomBits(h, sh) \subseteq t.bloom[BloomWord(h, W)]
    <3>1. BloomWord(h, W) \in 0 .. W - 1
          BY <1>1, ElfBits, Remainder DEF BloomWord
    <3> HIDE DEF h, H
    <3> QED
        BY <1>2, <2>1, <3>1
  <2>4. i <= top
    <3>1. \A j \in Ends : j \in first .. N - 1 /\ LowBit(E(j)) = 1
          OBVIOUS
    <3> HIDE DEF Ends, first, E, top
    <3> QED
        BY <1>1, <1>5, <2>2, <3>1
  <2>5. i \in Hits
    <3> HIDE DEF top, first, E, h
    <3> QED
        BY <1>1, <1>5, <1>7, <2>2, <2>4
  <2>6. \A j \in Hits : j = i
    <3> SUFFICES ASSUME NEW j \in Hits PROVE j = i
        OBVIOUS
    <3>1. j \in o .. N - 1 /\ Name(syms, j) = name
      <4>1. j \in first .. top /\ Name(syms, j) = name
            OBVIOUS
      <4> HIDE DEF first, top
      <4> QED
          BY <1>1, <1>5, <2>2, <4>1
    <3>2. j + 1 \in DOMAIN syms /\ i + 1 \in DOMAIN syms /\ syms[j + 1] = syms[i + 1]
          BY <1>1, <1>7, <3>1 DEF SymbolTable, Name
    <3> QED
        BY <3>1, <3>2 DEF SymbolTable
  <2>7. Min(Hits) = i
    <3>1. Hits = {i}
          BY <2>5, <2>6
    <3> HIDE DEF Hits
    <3> QED
        BY <3>1 DEF Min
  <2> HIDE DEF first, Hits, h
  <2> QED
      BY <1>3, <2>2, <2>3, <2>5, <2>7
<1> QED
    BY <1>6, <1>7

\* The chains of .hash go down to 0, through all symbols of the bucket.
LEMMA SysvLinks ==
    ASSUME NEW syms, SymbolTable(syms), NEW B \in Nat \ {0}, NEW t, SysvLike(t, SysvTable(syms, B))
    PROVE  \A i \in 1 .. Len(syms) - 1 :
             /\ t.chain[i] \in 0 .. i - 1
             /\ t.chain[i] # 0 => Hash[Name(syms, t.chain[i])] % B = Hash[Name(syms, i)] % B
             /\ \A j \in 1 .. i - 1 : Hash[Name(syms, j)] % B = Hash[Name(syms, i)] % B => j <= t.chain[i]
<1> DEFINE N == Len(syms)
           H(i) == Hash[Name(syms, i)]
           In(b) == {i \in 1 .. N - 1 : H(i) % B = b}
           Top(S) == IF S = {} THEN 0 ELSE Max(S)
<1> SUFFICES ASSUME NEW i \in 1 .. N - 1
             PROVE  /\ t.chain[i] \in 0 .. i - 1
                    /\ t.chain[i] # 0 => H(t.chain[i]) % B = H(i) % B
                    /\ \A j \in 1 .. i - 1 : H(j) % B = H(i) % B => j <= t.chain[i]
    OBVIOUS
<1> DEFINE S == {j \in In(H(i) % B) : j < i}
<1>1. N \in Nat
      BY DEF SymbolTable
<1>2. t.chain = [k \in 0 .. N - 1 |-> IF k = 0 THEN 0 ELSE Top({j \in In(H(k) % B) : j < k})]
      BY DEF SysvLike, SysvTable
<1>3. t.chain[i] = IF S = {} THEN 0 ELSE Max(S)
      BY <1>1, <1>2
<1>4. S \subseteq 0 .. N /\ \A j \in S : j \in 1 .. i - 1 /\ H(j) % B = H(i) % B
      BY <1>1
<1>5. \A j \in 1 .. i - 1 : H(j) % B = H(i) % B => j \in S
      BY <1>1
<1> HIDE DEF S, H
<1>6. S # {} => Max(S) \in S /\ \A y \in S : y <= Max(S)
      BY <1>1, <1>4, HighestIn
<1>7. CASE S = {}
      BY <1>3, <1>5, <1>7
<1>8. CASE S # {}
  <2>1. t.chain[i] \in S /\ \A y \in S : y <= t.chain[i]
        BY <1>3, <1>6, <1>8
  <2>2. t.chain[i] \in 1 .. i - 1 /\ H(t.chain[i]) % B = H(i) % B
        BY <1>4, <2>1
  <2>3. \A j \in 1 .. i - 1 : H(j) % B = H(i) % B => j <= t.chain[i]
        BY <1>5, <2>1
  <2> QED
      BY <2>2, <2>3
<1> QED
    BY <1>7, <1>8

\* The search of .hash finds the symbol of a name, and nothing for a name the
\* table does not have.
LEMMA SysvFindExact ==
    ASSUME NEW syms, SymbolTable(syms), NEW B \in Nat \ {0},
           NEW t, SysvLike(t, SysvTable(syms, B)), NEW name \in DOMAIN Hash
    PROVE  /\ \A i \in 1 .. Len(syms) - 1 : Name(syms, i) = name => SysvFind(t, syms, name) = i
           /\ (\A i \in 1 .. Len(syms) - 1 : Name(syms, i) # name) => SysvFind(t, syms, name) = NOTFND
<1> DEFINE N == Len(syms)
           H(i) == Hash[Name(syms, i)]
           In(b) == {i \in 1 .. N - 1 : H(i) % B = b}
           \* The symbol is on the chain at or behind i.
           On(i) == {j \in 1 .. i : H(j) % B = H(i) % B /\ Name(syms, j) = name}
           C == [i \in 0 .. N - 1 |-> IF On(i) = {} THEN NOTFND ELSE CHOOSE j \in On(i) : TRUE]
           Step(f) == [i \in 0 .. N - 1 |->
                          IF i = 0 THEN NOTFND ELSE IF Name(syms, i) = name THEN i ELSE f[t.chain[i]]]
           From == CHOOSE f : f = Step(f)
<1>1. N \in Nat \ {0}
      BY DEF SymbolTable
<1>2. \A i \in 1 .. N - 1 :
        /\ t.chain[i] \in 0 .. i - 1
        /\ t.chain[i] # 0 => H(t.chain[i]) % B = H(i) % B
        /\ \A j \in 1 .. i - 1 : H(j) % B = H(i) % B => j <= t.chain[i]
      BY SysvLinks
<1>3. SysvFind(t, syms, name) = From[t.bucket[Hash[name] % t.bucket_cnt]]
      BY DEF SysvFind
<1>4. \A i, j \in 1 .. N - 1 : Name(syms, i) = name /\ Name(syms, j) = name => i = j
  <2> SUFFICES ASSUME NEW i \in 1 .. N - 1, NEW j \in 1 .. N - 1,
                      Name(syms, i) = name, Name(syms, j) = name
               PROVE  i = j
      OBVIOUS
  <2>1. i + 1 \in DOMAIN syms /\ j + 1 \in DOMAIN syms /\ syms[i + 1] = syms[j + 1]
        BY <1>1 DEF SymbolTable, Name
  <2> QED
      BY <2>1 DEF SymbolTable
<1>5. \A i \in 0 .. N - 1 : C[i] = IF On(i) = {} THEN NOTFND ELSE CHOOSE j \in On(i) : TRUE
      OBVIOUS
<1>6. \A i \in 0 .. N - 1, j \in 1 .. N - 1 : j \in On(i) => C[i] = j
  <2> SUFFICES ASSUME NEW i \in 0 .. N - 1, NEW j \in 1 .. N - 1, j \in On(i) PROVE C[i] = j
      OBVIOUS
  <2>1. \A k \in On(i) : k = j
        BY <1>1, <1>4
  <2> HIDE DEF On, C
  <2> QED
      BY <1>5, <2>1
<1>7. C = Step(C)
  <2>0. C = [i \in 0 .. N - 1 |-> C[i]]
        OBVIOUS
  <2> SUFFICES ASSUME NEW i \in 0 .. N - 1
               PROVE  C[i] = IF i = 0 THEN NOTFND ELSE IF Name(syms, i) = name THEN i ELSE C[t.chain[i]]
    <3> HIDE DEF C
    <3> QED
        BY <2>0
  <2>1. CASE i = 0
    <3>1. On(i) = {}
          BY <2>1
    <3> HIDE DEF On, C
    <3> QED
        BY <1>5, <2>1, <3>1
  <2>2. CASE i # 0 /\ Name(syms, i) = name
    <3>1. i \in On(i) /\ i \in 1 .. N - 1
          BY <1>1, <2>2
    <3> HIDE DEF On, C
    <3> QED
        BY <1>6, <2>2, <3>1
  <2>3. CASE i # 0 /\ Name(syms, i) # name
    <3>1. i \in 1 .. N - 1
          BY <1>1, <2>3
    <3>2. PICK k : k = t.chain[i]
          OBVIOUS
    <3>3. /\ k \in 0 .. i - 1 /\ k \in 0 .. N - 1
          /\ k # 0 => H(k) % B = H(i) % B
          /\ \A j \in 1 .. i - 1 : H(j) % B = H(i) % B => j <= k
          BY <1>1, <1>2, <3>1, <3>2
    <3>4. On(i) = On(k)
      <4>1. \A j \in On(i) : j \in On(k)
        <5> SUFFICES ASSUME NEW j \in On(i) PROVE j \in On(k)
            OBVIOUS
        <5>1. j \in 1 .. i - 1 /\ H(j) % B = H(i) % B /\ Name(syms, j) = name
              BY <2>3, <3>1
        <5> HIDE DEF H
        <5> QED
            BY <3>1, <3>3, <5>1
      <4>2. \A j \in On(k) : j \in On(i)
        <5> SUFFICES ASSUME NEW j \in On(k) PROVE j \in On(i)
            OBVIOUS
        <5>1. j \in 1 .. k /\ H(j) % B = H(k) % B /\ Name(syms, j) = name
              OBVIOUS
        <5> HIDE DEF H
        <5> QED
            BY <3>1, <3>3, <5>1
      <4> HIDE DEF On
      <4> QED
          BY <4>1, <4>2
    <3> HIDE DEF On, C
    <3> QED
        BY <1>5, <2>3, <3>2, <3>3, <3>4
  <2> QED
      BY <2>1, <2>2, <2>3
<1>8. From = Step(From)
  <2> HIDE DEF C, Step
  <2> QED
      BY <1>7
<1>9. \A i \in 0 .. N - 1 : From[i] = IF i = 0 THEN NOTFND ELSE IF Name(syms, i) = name THEN i ELSE From[t.chain[i]]
  <2> HIDE DEF From
  <2> QED
      BY <1>8
<1>10. \A i \in 0 .. N - 1 : C[i] = IF i = 0 THEN NOTFND ELSE IF Name(syms, i) = name THEN i ELSE C[t.chain[i]]
  <2> HIDE DEF C
  <2> QED
      BY <1>7
<1> HIDE DEF C, From, Step, H, On
<1>11. \A i \in 0 .. N - 1 : From[i] = C[i]
  <2> DEFINE Bad == {i \in 0 .. N - 1 : From[i] # C[i]}
  <2> SUFFICES ASSUME Bad # {} PROVE FALSE
      OBVIOUS
  <2>1. PICK k \in Bad : \A j \in Bad : k <= j
    <3>1. Bad \subseteq Nat
          OBVIOUS
    <3> HIDE DEF Bad
    <3> QED
        BY <3>1, LowestIn
  <2>2. k # 0 /\ Name(syms, k) # name /\ k \in 1 .. N - 1
        BY <1>1, <1>9, <1>10
  <2>3. t.chain[k] \in 0 .. k - 1 /\ t.chain[k] \in 0 .. N - 1
        BY <1>1, <1>2, <2>2
  <2>4. From[t.chain[k]] = C[t.chain[k]]
        BY <1>1, <2>1, <2>3
  <2> QED
      BY <1>9, <1>10, <2>2, <2>4
<1> DEFINE b == t.bucket[Hash[name] % B]
<1>12. b = (IF In(Hash[name] % B) = {} THEN 0 ELSE Max(In(Hash[name] % B))) /\ t.bucket_cnt = B
  <2>1. Hash[name] % B \in 0 .. B - 1
        BY HashNumbers, Remainder
  <2>2. /\ t.bucket_cnt = B
        /\ t.bucket = [x \in 0 .. B - 1 |-> IF In(x) = {} THEN 0 ELSE Max(In(x))]
        BY DEF SysvLike, SysvTable, H
  <2> QED
      BY <2>1, <2>2
<1>13. In(Hash[name] % B) # {} => b \in In(Hash[name] % B) /\ \A y \in In(Hash[name] % B) : y <= b
  <2>1. In(Hash[name] % B) \subseteq 0 .. N
        BY <1>1
  <2> HIDE DEF In, b
  <2> QED
      BY <1>1, <1>12, <2>1, HighestIn
<1>14. b \in 0 .. N - 1
      BY <1>1, <1>12, <1>13
<1>15. SysvFind(t, syms, name) = C[b]
      BY <1>3, <1>11, <1>12, <1>14
<1>16. ASSUME NEW i \in 1 .. N - 1, Name(syms, i) = name
       PROVE  SysvFind(t, syms, name) = i
  <2>1. H(i) = Hash[name] /\ i \in In(Hash[name] % B)
        BY <1>16 DEF H
  <2>2. i <= b /\ H(b) % B = H(i) % B
        BY <1>13, <2>1
  <2>3. i \in On(b)
        BY <1>14, <1>16, <2>2 DEF On
  <2> QED
      BY <1>6, <1>14, <1>15, <2>3
<1>17. ASSUME \A i \in 1 .. N - 1 : Name(syms, i) # name
       PROVE  SysvFind(t, syms, name) = NOTFND
  <2>1. On(b) = {}
        BY <1>1, <1>14, <1>17 DEF On
  <2> QED
      BY <1>5, <1>14, <1>15, <2>1 DEF C
<1> QED
    BY <1>16, <1>17

-----------------------------------------------------------------------------
(* Xdl: the memory of the handles. *)

\* What a block can hold.
Kinds == {"self", "pathname", "symtab", "strtab", "debugdata", "lost"}

\* What handle h has in a set of blocks: its own two, and one kind of tables
\* if it has loaded any.
Holds(h, B) ==
    /\ {<<h.serial, "self">>, <<h.serial, "pathname">>} \subseteq B
    /\ h.tab # NONE => \/ <<h.serial, "debugdata">> \in B
                       \/ {<<h.serial, "symtab">>, <<h.serial, "strtab">>} \subseteq B
    /\ <<h.serial, "debugdata">> \in B =>
         <<h.serial, "symtab">> \notin B /\ <<h.serial, "strtab">> \notin B
    /\ ~ h.symTry =>
         /\ h.tab = NONE
         /\ \A k \in {"symtab", "strtab", "debugdata"} : <<h.serial, k>> \notin B

\* A handle for one of the ELFs E, made before serial n, with what it has in B.
Sound(h, E, n, B) == h \in Handles /\ h.elf \in E /\ h.serial \in 0 .. n - 1 /\ Holds(h, B)

\* The handles of a cache are sound, each for an ELF of its own and told apart
\* from each other and from handle h by their serials.
CacheSound(c, h, E, n, B) ==
    /\ c \in Seq(Handles)
    /\ \A i \in DOMAIN c : Sound(c[i], E, n, B)
    /\ \A i, j \in DOMAIN c : i # j => c[i].serial # c[j].serial /\ c[i].elf.bias # c[j].elf.bias
    /\ h # NONE => \A i \in DOMAIN c : c[i].serial # h.serial

\* A block of B is one of a handle in use, or was lost by a realloc.
Accounted(c, h, B, lost) ==
    \A b \in B :
        IF b[2] = "lost" THEN lost
        ELSE \/ h # NONE /\ b[1] = h.serial
             \/ \E i \in DOMAIN c : b[1] = c[i].serial

\* The heap B of cache c and handle h, after n handles were made.
Heap(c, h, E, n, B, lost) ==
    /\ n \in Nat
    /\ B \subseteq (0 .. n - 1) \X Kinds
    /\ CacheSound(c, h, E, n, B)
    /\ h # NONE => Sound(h, E, n, B)
    /\ Accounted(c, h, B, lost)

XdlInv ==
    /\ elfs \in Processes
    /\ maps \in Nat /\ inited \in BOOLEAN
    /\ Heap(cache, handle, AllElfs, serial, blocks, "grow2" \in faulty)
    /\ FreedOnce

\* Loading a table gives what the handle is to hold, whatever fails: two
\* tables from the file or the data they are in, and what is lost.
LEMMA LoadResult ==
    ASSUME NEW e \in LoadedElfs, NEW f, NEW t, t = xdl_symtab_load(e, f)
    PROVE  /\ t.tab \in Tables
           /\ t.tab = NONE => t.live \subseteq {"lost"}
           /\ t.tab # NONE => \/ t.live = {"debugdata"}
                              \/ t.live \ {"lost"} = {"symtab", "strtab"}
           /\ "lost" \in t.live => f = "grow2"
           /\ t.twice => e.debug.stream = "bad"
<1> DEFINE z == xdl_lzma_decompress(e.debug, f)
           i == SelectInSeq(e.sections, LAMBDA s : FromSection(e, f, s))
           vain == f # "zip" /\ \E j \in DOMAIN e.sections :
                               e.sections[j].type = "debugdata" /\ (i # 0 => j < i)
           again == vain /\ z.dst = "freed"
           lost == IF vain /\ z.lost THEN {"lost"} ELSE {}
<1>1. (z.lost => f = "grow2") /\ (z.dst = "freed" => e.debug.stream = "bad")
      BY DEF xdl_lzma_decompress
<1>2. e.syms \in Tables /\ e.debug.syms \in Tables /\ NONE \in Tables
      BY DEF Tables
<1>3. t = IF \/ e.segs = <<>> \/ f \in {"open", "shdrs", "shstrtab"} \/ ~ e.header
          THEN [tab |-> NONE, live |-> {}, twice |-> FALSE]
          ELSE IF i = 0
          THEN [tab |-> NONE, live |-> lost, twice |-> again]
          ELSE IF e.sections[i].type = "debugdata"
          THEN [tab |-> e.debug.syms, live |-> {"debugdata"}, twice |-> FALSE]
          ELSE [tab |-> e.syms, live |-> {"symtab", "strtab"} \cup lost, twice |-> again]
      BY DEF xdl_symtab_load
<1>4. (lost = {} \/ lost = {"lost"}) /\ ("lost" \in lost => f = "grow2")
      BY <1>1
<1>5. again => e.debug.stream = "bad"
      BY <1>1
<1> HIDE DEF z, i, vain, again, lost
<1>6. e.syms # NONE /\ e.debug.syms # NONE
      BY NoneApart
<1>7. CASE t = [tab |-> NONE, live |-> {}, twice |-> FALSE]
      BY <1>2, <1>7
<1>8. CASE t = [tab |-> NONE, live |-> lost, twice |-> again]
  <2>1. t.tab = NONE /\ t.live = lost
        BY <1>8
  <2>2. t.twice = again
        BY <1>8
  <2> QED
      BY <1>2, <1>4, <1>5, <2>1, <2>2
<1>9. CASE t = [tab |-> e.debug.syms, live |-> {"debugdata"}, twice |-> FALSE]
      BY <1>2, <1>6, <1>9
<1>10. CASE t = [tab |-> e.syms, live |-> {"symtab", "strtab"} \cup lost, twice |-> again]
  <2>1. t.tab = e.syms /\ t.live = {"symtab", "strtab"} \cup lost
        BY <1>10
  <2>2. t.twice = again
        BY <1>10
  <2>3. t.live \ {"lost"} = {"symtab", "strtab"} /\ ("lost" \in t.live => f = "grow2")
        BY <1>4, <2>1
  <2> QED
      BY <1>2, <1>5, <1>6, <2>1, <2>2, <2>3
<1> QED
    BY <1>3, <1>7, <1>8, <1>9, <1>10

\* A handle that loads its table on its first use holds it, and a later use
\* changes nothing.
LEMMA HoldsLoaded ==
    ASSUME NEW h \in Handles, NEW f, NEW B, Holds(h, B),
           NEW t, t = LoadOnce(h, f), NEW g, g = WithSymtab(h, t)
    PROVE  /\ g \in Handles /\ g.serial = h.serial /\ g.elf = h.elf
           /\ Holds(g, B \cup Allocated(h, t))
           /\ \A b \in Allocated(h, t) : b[1] = h.serial /\ b[2] \in Kinds /\ (b[2] = "lost" => f = "grow2")
           /\ t.twice => h.elf.debug.stream = "bad"
<1>1. CASE h.symTry
  <2>1. t.tab = h.tab /\ t.live = {} /\ ~ t.twice
        BY <1>1 DEF LoadOnce
  <2>2. Allocated(h, t) = {}
        BY <2>1 DEF Allocated
  <2>3. g = h
        BY <1>1, <2>1 DEF WithSymtab, Handles
  <2> QED
      BY <2>1, <2>2, <2>3
<1>2. CASE ~ h.symTry
  <2>1. t = xdl_symtab_load(h.elf, f) /\ h.elf \in LoadedElfs
        BY <1>2 DEF LoadOnce, Handles
  <2>2. /\ t.tab \in Tables
        /\ t.tab = NONE => t.live \subseteq {"lost"}
        /\ t.tab # NONE => \/ t.live = {"debugdata"}
                           \/ t.live \ {"lost"} = {"symtab", "strtab"}
        /\ "lost" \in t.live => f = "grow2"
        /\ t.twice => h.elf.debug.stream = "bad"
        BY <2>1, LoadResult
  <2>3. g \in Handles /\ g.serial = h.serial /\ g.elf = h.elf /\ g.symTry /\ g.tab = t.tab
        BY <2>2 DEF WithSymtab, Handles
  <2>4. \A k : <<h.serial, k>> \in Allocated(h, t) <=> k \in t.live
        BY DEF Allocated
  <2>5. t.live \subseteq Kinds
        BY <2>2 DEF Kinds
  <2>6. Holds(g, B \cup Allocated(h, t))
        BY <1>2, <2>2, <2>3, <2>4 DEF Holds
  <2>7. \A b \in Allocated(h, t) : b[1] = h.serial /\ b[2] \in t.live
        BY DEF Allocated
  <2> QED
      BY <2>2, <2>3, <2>5, <2>6, <2>7
<1> QED
    BY <1>1, <1>2

\* What a handle holds is in the blocks of its serial.
LEMMA HoldsApart ==
    ASSUME NEW h, NEW B, NEW C, Holds(h, B),
           \A k \in Kinds : <<h.serial, k>> \in B <=> <<h.serial, k>> \in C
    PROVE  Holds(h, C)
BY DEF Holds, Kinds

\* An ELF that an iteration ends at is loaded and wanted.
LEMMA IterateIn ==
    ASSUME elfs \in Processes, NEW with, NEW wanted, NEW e, e = Iterate(elfs, with, wanted), e # NONE
    PROVE  e \in wanted /\ e \in AllElfs /\ e \in LoadedElfs
<1>1. elfs \in Seq(LoadedElfs) /\ DOMAIN elfs = 1 .. Len(elfs) /\ Len(elfs) \in Nat
      BY ProcessList
<1>2. ASSUME NEW S, S \subseteq DOMAIN elfs, NEW x, x = First(elfs, S), x # NONE
      PROVE  \E i \in S : x = elfs[i]
  <2>1. S # {} /\ x = elfs[Min(S)]
        BY <1>2 DEF First
  <2> QED
      BY <1>1, <1>2, <2>1, LowestIn
<1>3. ASSUME NEW S, S \subseteq DOMAIN elfs, e = First(elfs, {i \in S : elfs[i] \in wanted})
      PROVE  e \in wanted /\ e \in AllElfs
  <2>1. PICK i \in {i \in S : elfs[i] \in wanted} : e = elfs[i]
        BY <1>2, <1>3
  <2> QED
      BY <1>3, <2>1 DEF AllElfs
<1>4. ByMaps(elfs) \subseteq DOMAIN elfs /\ ByLinker(elfs, with) \subseteq DOMAIN elfs
      BY DEF ByMaps, ByLinker
<1>5. ASSUME NEW l, l = LinkerFirst(elfs, with), l # NONE
      PROVE  l \in AllElfs
  <2>1. l = First(elfs, {i \in DOMAIN elfs : elfs[i].path = LINKER /\ elfs[i].mapped})
        BY <1>5 DEF LinkerFirst
  <2>2. PICK i \in {i \in DOMAIN elfs : elfs[i].path = LINKER /\ elfs[i].mapped} : l = elfs[i]
        BY <1>2, <1>5, <2>1
  <2> QED
      BY <2>2 DEF AllElfs
<1>6. e \in wanted /\ e \in AllElfs
      BY <1>3, <1>4, <1>5 DEF Iterate, EndsAtLinker
<1> QED
    BY <1>1, <1>6 DEF AllElfs

\* A handle stays sound when only blocks of other serials come or go.
LEMMA SoundKept ==
    ASSUME NEW g, NEW E, NEW n \in Nat, NEW m \in Nat, n <= m, NEW B, NEW C, Sound(g, E, n, B),
           \A k \in Kinds : <<g.serial, k>> \in B <=> <<g.serial, k>> \in C
    PROVE  Sound(g, E, m, C)
<1>1. Holds(g, C)
      BY HoldsApart DEF Sound
<1> QED
    BY <1>1 DEF Sound

\* A new handle, as xdl_open makes it.
Fresh(e, n) == [elf |-> e, serial |-> n, dynTry |-> FALSE, symTry |-> FALSE, tab |-> NONE]
NewBlocks(n) == {<<n, "self">>, <<n, "pathname">>}

LEMMA FreshSound ==
    ASSUME NEW E, NEW e \in E, e \in LoadedElfs, NEW n \in Nat, NEW B, B \subseteq (0 .. n - 1) \X Kinds
    PROVE  /\ Sound(Fresh(e, n), E, n + 1, B \cup NewBlocks(n))
           /\ Fresh(e, n) # NONE
<1>1. Fresh(e, n) \in Handles
      BY DEF Fresh, Handles, Tables
<1>2. \A k \in Kinds : <<n, k>> \notin B
      BY DEF Kinds
<1>3. Holds(Fresh(e, n), B \cup NewBlocks(n))
      BY <1>2 DEF Holds, Fresh, NewBlocks, Kinds
<1>4. Fresh(e, n).elf = e /\ Fresh(e, n).serial = n
      BY DEF Fresh
<1> QED
    BY <1>1, <1>3, <1>4, NoneApart DEF Sound

\* The blocks of a new handle are its own, so that the other handles keep theirs.
LEMMA OthersKept ==
    ASSUME NEW g, NEW E, NEW n \in Nat, NEW B, Sound(g, E, n, B)
    PROVE  Sound(g, E, n + 1, B \cup NewBlocks(n))
<1>1. \A k \in Kinds : <<g.serial, k>> \in B <=> <<g.serial, k>> \in B \cup NewBlocks(n)
      BY DEF Sound, NewBlocks
<1> QED
    BY <1>1, SoundKept

\* xdl_open: the new handle is the caller's.
LEMMA HeapOpened ==
    ASSUME NEW c, NEW E, NEW e \in E, e \in LoadedElfs, NEW n, NEW B, NEW lost,
           Heap(c, NONE, E, n, B, lost)
    PROVE  Heap(c, Fresh(e, n), E, n + 1, B \cup NewBlocks(n), lost)
<1> DEFINE g == Fresh(e, n)
           C == B \cup NewBlocks(n)
<1>1. n \in Nat /\ B \subseteq (0 .. n - 1) \X Kinds /\ g.serial = n
      BY DEF Heap, Fresh
<1>2. C \subseteq (0 .. n) \X Kinds
      BY <1>1 DEF NewBlocks, Kinds
<1>3. Sound(g, E, n + 1, C) /\ g # NONE
      BY <1>1, FreshSound
<1>4. \A i \in DOMAIN c : Sound(c[i], E, n + 1, C) /\ c[i].serial # n
  <2>1. \A i \in DOMAIN c : Sound(c[i], E, n, B)
        BY DEF Heap, CacheSound
  <2>2. \A i \in DOMAIN c : Sound(c[i], E, n + 1, C)
        BY <1>1, <2>1, OthersKept
  <2>3. \A i \in DOMAIN c : c[i].serial # n
        BY <1>1, <2>1 DEF Sound
  <2> QED
      BY <2>2, <2>3
<1>5. CacheSound(c, g, E, n + 1, C)
      BY <1>1, <1>4 DEF Heap, CacheSound
<1>6. Accounted(c, g, C, lost)
      BY <1>1, <1>3 DEF Heap, Accounted, NewBlocks
<1> QED
    BY <1>1, <1>2, <1>3, <1>5, <1>6 DEF Heap

\* xdl_addr: the new handle is the first of the cache.
LEMMA HeapCached ==
    ASSUME NEW c, NEW h, NEW E, NEW e \in E, e \in LoadedElfs, NEW n, NEW B, NEW lost,
           Heap(c, h, E, n, B, lost), \A i \in DOMAIN c : c[i].elf.bias # e.bias
    PROVE  Heap(<<Fresh(e, n)>> \o c, h, E, n + 1, B \cup NewBlocks(n), lost)
<1> DEFINE g == Fresh(e, n)
           C == B \cup NewBlocks(n)
           d == <<g>> \o c
<1>1. n \in Nat /\ B \subseteq (0 .. n - 1) \X Kinds /\ g.serial = n /\ g.elf = e
      BY DEF Heap, Fresh
<1>2. C \subseteq (0 .. n) \X Kinds
      BY <1>1 DEF NewBlocks, Kinds
<1>3. Sound(g, E, n + 1, C) /\ g \in Handles
      BY <1>1, FreshSound DEF Sound
<1>4. \A i \in DOMAIN c : Sound(c[i], E, n + 1, C) /\ c[i].serial # n
  <2>1. \A i \in DOMAIN c : Sound(c[i], E, n, B)
        BY DEF Heap, CacheSound
  <2>2. \A i \in DOMAIN c : Sound(c[i], E, n + 1, C)
        BY <1>1, <2>1, OthersKept
  <2>3. \A i \in DOMAIN c : c[i].serial # n
        BY <1>1, <2>1 DEF Sound
  <2> QED
      BY <2>2, <2>3
<1>5. c \in Seq(Handles)
      BY DEF Heap, CacheSound
<1> HIDE DEF g, C
<1>6. /\ d \in Seq(Handles) /\ DOMAIN d = 1 .. Len(c) + 1
      /\ d[1] = g /\ \A i \in 2 .. Len(c) + 1 : d[i] = c[i - 1]
      /\ Len(c) \in Nat /\ DOMAIN c = 1 .. Len(c)
      BY <1>3, <1>5
<1> HIDE DEF d
<1>7. \A i \in DOMAIN d : i = 1 \/ (i - 1 \in DOMAIN c /\ d[i] = c[i - 1])
      BY <1>6
<1>8. \A i \in DOMAIN d : Sound(d[i], E, n + 1, C)
      BY <1>3, <1>4, <1>6, <1>7
<1>9. \A i, j \in DOMAIN d : i # j => d[i].serial # d[j].serial /\ d[i].elf.bias # d[j].elf.bias
  <2> SUFFICES ASSUME NEW i \in DOMAIN d, NEW j \in DOMAIN d, i # j
               PROVE  d[i].serial # d[j].serial /\ d[i].elf.bias # d[j].elf.bias
      OBVIOUS
  <2>1. CASE i = 1
        BY <1>1, <1>4, <1>6, <1>7, <2>1
  <2>2. CASE j = 1
        BY <1>1, <1>4, <1>6, <1>7, <2>2
  <2>3. CASE i # 1 /\ j # 1
    <3>1. i - 1 \in DOMAIN c /\ j - 1 \in DOMAIN c /\ i - 1 # j - 1 /\ d[i] = c[i - 1] /\ d[j] = c[j - 1]
          BY <1>6, <1>7, <2>3
    <3> QED
        BY <3>1 DEF Heap, CacheSound
  <2> QED
      BY <2>1, <2>2, <2>3
<1>10. h # NONE => Sound(h, E, n + 1, C) /\ h.serial # n
      BY <1>1, OthersKept DEF Heap, Sound, C
<1>11. h # NONE => \A i \in DOMAIN d : d[i].serial # h.serial
      BY <1>1, <1>6, <1>7, <1>10 DEF Heap, CacheSound
<1>12. \A i \in DOMAIN c : i + 1 \in DOMAIN d /\ d[i + 1] = c[i]
      BY <1>6
<1>13. Accounted(d, h, C, lost)
  <2>1. ASSUME NEW b \in B PROVE IF b[2] = "lost" THEN lost
                                 ELSE \/ h # NONE /\ b[1] = h.serial
                                      \/ \E i \in DOMAIN d : b[1] = d[i].serial
        BY <1>12 DEF Heap, Accounted
  <2>2. 1 \in DOMAIN d /\ \A b \in NewBlocks(n) : b[1] = d[1].serial /\ b[2] # "lost"
        BY <1>1, <1>6 DEF NewBlocks
  <2> QED
      BY <2>1, <2>2 DEF Accounted, C
<1>14. CacheSound(d, h, E, n + 1, C)
      BY <1>6, <1>8, <1>9, <1>11 DEF CacheSound
<1>15. Heap(d, h, E, n + 1, C, lost)
      BY <1>1, <1>2, <1>10, <1>13, <1>14 DEF Heap
<1> QED
    BY <1>15 DEF d, g, C

\* A handle with blocks A of its own serial added keeps the others' heap.
LEMMA OwnBlocks ==
    ASSUME NEW g, NEW E, NEW n \in Nat, NEW B, Sound(g, E, n, B), NEW k,
           NEW A, \A b \in A : b \in {k} \X Kinds, g.serial # k
    PROVE  Sound(g, E, n, B \cup A)
<1>1. \A x \in Kinds : <<g.serial, x>> \in B <=> <<g.serial, x>> \in B \cup A
      OBVIOUS
<1> QED
    BY <1>1, SoundKept

\* What comes of a use of handle old that leaves it as g, with blocks A more.
Used(old, g, E, n, B, A, lost) ==
    /\ g.serial = old.serial /\ g.elf = old.elf
    /\ Sound(g, E, n, B \cup A)
    /\ A \subseteq {g.serial} \X Kinds
    /\ \A b \in A : b[2] = "lost" => lost

\* A use of the caller's handle.
LEMMA HeapUsed ==
    ASSUME NEW c, NEW h, h # NONE, NEW E, NEW n, NEW B, NEW lost, Heap(c, h, E, n, B, lost),
           NEW g, NEW A, NEW more, lost => more, Used(h, g, E, n, B, A, more)
    PROVE  Heap(c, g, E, n, B \cup A, more)
<1>1. n \in Nat /\ g.serial \in 0 .. n - 1 /\ g # NONE /\ g.serial = h.serial
      BY NoneApart DEF Heap, Used, Sound
<1>2. B \cup A \subseteq (0 .. n - 1) \X Kinds
      BY <1>1 DEF Heap, Used
<1>3. \A i \in DOMAIN c : Sound(c[i], E, n, B \cup A)
  <2>1. \A i \in DOMAIN c : Sound(c[i], E, n, B) /\ c[i].serial # g.serial
        BY <1>1 DEF Heap, CacheSound
  <2>2. \A b \in A : b \in {g.serial} \X Kinds
        BY DEF Used
  <2> QED
      BY <1>1, <2>1, <2>2, OwnBlocks
<1>4. CacheSound(c, g, E, n, B \cup A)
      BY <1>1, <1>3 DEF Heap, CacheSound
<1>5. Accounted(c, g, B \cup A, more)
  <2>1. \A b \in A : b[1] = g.serial /\ (b[2] = "lost" => more)
        BY DEF Used
  <2>2. \A b \in B : IF b[2] = "lost" THEN more
                     ELSE b[1] = g.serial \/ \E i \in DOMAIN c : b[1] = c[i].serial
        BY <1>1 DEF Heap, Accounted
  <2> QED
      BY <1>1, <2>1, <2>2 DEF Accounted
<1> QED
    BY <1>1, <1>2, <1>4, <1>5 DEF Heap, Used

\* A use of a cached handle.
LEMMA HeapResolved ==
    ASSUME NEW c, NEW h, NEW E, NEW n, NEW B, NEW lost, Heap(c, h, E, n, B, lost), NEW i \in DOMAIN c,
           NEW g, NEW A, NEW more, lost => more, Used(c[i], g, E, n, B, A, more)
    PROVE  Heap([c EXCEPT ![i] = g], h, E, n, B \cup A, more)
<1> DEFINE d == [c EXCEPT ![i] = g]
<1>1. n \in Nat /\ g.serial \in 0 .. n - 1 /\ g \in Handles /\ g.serial = c[i].serial /\ g.elf = c[i].elf
      BY DEF Heap, Used, Sound
<1>2. B \cup A \subseteq (0 .. n - 1) \X Kinds
      BY <1>1 DEF Heap, Used
<1>3. c \in Seq(Handles)
      BY DEF Heap, CacheSound
<1>4. /\ d \in Seq(Handles) /\ DOMAIN d = DOMAIN c
      /\ d[i] = g /\ \A j \in DOMAIN c : j # i => d[j] = c[j]
      BY <1>1, <1>3
<1> HIDE DEF d
<1>5. \A b \in A : b \in {g.serial} \X Kinds
      BY DEF Used
<1>6. \A j \in DOMAIN d : Sound(d[j], E, n, B \cup A)
  <2>1. \A j \in DOMAIN c : j # i => Sound(c[j], E, n, B) /\ c[j].serial # g.serial
        BY <1>1 DEF Heap, CacheSound
  <2>2. \A j \in DOMAIN c : j # i => Sound(c[j], E, n, B \cup A)
        BY <1>1, <1>5, <2>1, OwnBlocks
  <2>3. Sound(g, E, n, B \cup A)
        BY DEF Used
  <2> QED
      BY <1>4, <2>2, <2>3
<1>7. \A j \in DOMAIN c : d[j].serial = c[j].serial /\ d[j].elf = c[j].elf
      BY <1>1, <1>4
<1>8. CacheSound(d, h, E, n, B \cup A)
  <2>1. \A j, k \in DOMAIN c : j # k => c[j].serial # c[k].serial /\ c[j].elf.bias # c[k].elf.bias
        BY DEF Heap, CacheSound
  <2>2. \A j, k \in DOMAIN d : j # k => d[j].serial # d[k].serial /\ d[j].elf.bias # d[k].elf.bias
        BY <1>4, <1>7, <2>1
  <2>3. h # NONE => \A j \in DOMAIN c : c[j].serial # h.serial
        BY DEF Heap, CacheSound
  <2>4. h # NONE => \A j \in DOMAIN d : d[j].serial # h.serial
        BY <1>4, <1>7, <2>3
  <2> QED
      BY <1>4, <1>6, <2>2, <2>4 DEF CacheSound
<1>9. h # NONE => Sound(h, E, n, B \cup A)
  <2>1. h # NONE => Sound(h, E, n, B) /\ h.serial # g.serial
        BY <1>1 DEF Heap, CacheSound
  <2> QED
      BY <1>1, <1>5, <2>1, OwnBlocks
<1>10. Accounted(d, h, B \cup A, more)
  <2>1. \A b \in A : b[1] = d[i].serial /\ (b[2] = "lost" => more)
        BY <1>4 DEF Used
  <2>2. \A b \in B : IF b[2] = "lost" THEN more
                     ELSE (h # NONE /\ b[1] = h.serial) \/ \E j \in DOMAIN c : b[1] = d[j].serial
        BY <1>7 DEF Heap, Accounted
  <2> QED
      BY <1>4, <2>1, <2>2 DEF Accounted
<1>11. Heap(d, h, E, n, B \cup A, more)
      BY <1>1, <1>2, <1>8, <1>9, <1>10 DEF Heap
<1> QED
    BY <1>11 DEF d

\* What xdl_close frees of the blocks B of a handle: all but what is lost.
LEMMA FreedAll ==
    ASSUME NEW h, Holds(h, blocks), blocks \subseteq Nat \X Kinds
    PROVE  /\ \A b \in Freed(h) : b[1] = h.serial
           /\ \A b \in blocks \ Freed(h) : b[1] = h.serial => b[2] = "lost"
<1>1. \A b \in Freed(h) : b[1] = h.serial
      BY DEF Freed, Owned
<1>2. ASSUME NEW b \in blocks \ Freed(h), b[1] = h.serial
      PROVE  b[2] = "lost"
  <2>1. b[2] \in Kinds /\ b = <<h.serial, b[2]>>
        BY <1>2
  <2>2. b \in Owned(h)
        BY <1>2 DEF Owned
  <2>3. CASE <<h.serial, "debugdata">> \in blocks
    <3>1. b[2] \notin {"self", "pathname", "debugdata"}
          BY <2>2, <2>3 DEF Freed
    <3>2. b[2] \notin {"symtab", "strtab"}
          BY <2>1, <2>3 DEF Holds
    <3> QED
        BY <2>1, <3>1, <3>2 DEF Kinds
  <2>4. CASE <<h.serial, "debugdata">> \notin blocks
    <3>1. b[2] \notin {"self", "pathname", "symtab", "strtab"}
          BY <2>2, <2>4 DEF Freed
    <3>2. b[2] # "debugdata"
          BY <2>1, <2>4
    <3> QED
        BY <2>1, <3>1, <3>2 DEF Kinds
  <2> QED
      BY <2>3, <2>4
<1> QED
    BY <1>1, <1>2

\* xdl_close: the heap without the caller's handle.
LEMMA HeapClosed ==
    ASSUME NEW n, NEW lost, handle # NONE, Heap(cache, handle, AllElfs, n, blocks, lost)
    PROVE  Heap(cache, NONE, AllElfs, n, blocks \ Freed(handle), lost)
<1> DEFINE C == blocks \ Freed(handle)
<1>1. n \in Nat /\ blocks \subseteq (0 .. n - 1) \X Kinds /\ blocks \subseteq Nat \X Kinds
      BY DEF Heap
<1>2. /\ \A b \in Freed(handle) : b[1] = handle.serial
      /\ \A b \in C : b[1] = handle.serial => b[2] = "lost"
      BY <1>1, FreedAll DEF Heap, Sound
<1>3. \A i \in DOMAIN cache : Sound(cache[i], AllElfs, n, C)
  <2>1. \A i \in DOMAIN cache : Sound(cache[i], AllElfs, n, blocks) /\ cache[i].serial # handle.serial
        BY DEF Heap, CacheSound
  <2>2. ASSUME NEW i \in DOMAIN cache
        PROVE  \A k \in Kinds : <<cache[i].serial, k>> \in blocks <=> <<cache[i].serial, k>> \in C
        BY <1>2, <2>1
  <2> QED
      BY <1>1, <2>1, <2>2, SoundKept
<1>4. CacheSound(cache, NONE, AllElfs, n, C)
      BY <1>3 DEF Heap, CacheSound
<1>5. Accounted(cache, NONE, C, lost)
      BY <1>2 DEF Heap, Accounted
<1> QED
    BY <1>1, <1>4, <1>5 DEF Heap

\* xdl_addr_clean: the heap without the cached handles.
LEMMA HeapCleaned ==
    ASSUME NEW n, NEW lost, Heap(cache, handle, AllElfs, n, blocks, lost)
    PROVE  Heap(<<>>, handle, AllElfs, n, blocks \ UNION {Freed(cache[i]) : i \in DOMAIN cache}, lost)
<1> DEFINE C == blocks \ UNION {Freed(cache[i]) : i \in DOMAIN cache}
<1>1. n \in Nat /\ blocks \subseteq (0 .. n - 1) \X Kinds /\ blocks \subseteq Nat \X Kinds
      BY DEF Heap
<1>2. ASSUME NEW i \in DOMAIN cache
      PROVE  /\ \A b \in Freed(cache[i]) : b[1] = cache[i].serial
             /\ \A b \in C : b[1] = cache[i].serial => b[2] = "lost"
  <2>1. Holds(cache[i], blocks)
        BY DEF Heap, CacheSound, Sound
  <2> QED
      BY <1>1, <2>1, FreedAll
<1>3. handle # NONE => Sound(handle, AllElfs, n, C)
  <2> SUFFICES ASSUME handle # NONE PROVE Sound(handle, AllElfs, n, C)
      OBVIOUS
  <2>1. /\ Sound(handle, AllElfs, n, blocks)
        /\ \A i \in DOMAIN cache : cache[i].serial # handle.serial
        BY DEF Heap, CacheSound
  <2>2. \A k \in Kinds : <<handle.serial, k>> \in blocks <=> <<handle.serial, k>> \in C
        BY <1>2, <2>1
  <2> QED
      BY <1>1, <2>1, <2>2, SoundKept
<1>4. Accounted(<<>>, handle, C, lost)
      BY <1>2 DEF Heap, Accounted
<1>5. CacheSound(<<>>, handle, AllElfs, n, C)
      BY DEF CacheSound
<1> HIDE DEF C
<1>6. C \subseteq (0 .. n - 1) \X Kinds
      BY <1>1 DEF C
<1>7. Heap(<<>>, handle, AllElfs, n, C, lost)
      BY <1>1, <1>3, <1>4, <1>5, <1>6 DEF Heap
<1> QED
    BY <1>7 DEF C

\* The cached handle an address is looked up in covers it; there is none only
\* if no cached handle does.
LEMMA CacheHit ==
    ASSUME NEW a, cache \in Seq(Handles)
    PROVE  /\ InCache(a) # 0 => InCache(a) \in DOMAIN cache /\ Covers(cache[InCache(a)].elf, a)
           /\ InCache(a) = 0 => \A i \in DOMAIN cache : ~ Covers(cache[i].elf, a)
<1> DEFINE I == {i \in 1 .. Len(cache) : Covers(cache[i].elf, a)}
<1>1. InCache(a) = IF I # {} THEN Min(I) ELSE 0
      BY DEF InCache, SelectInSeq
<1>2. DOMAIN cache = 1 .. Len(cache) /\ Len(cache) \in Nat
      OBVIOUS
<1>3. I # {} => Min(I) \in I
  <2>1. I \subseteq Nat
        BY <1>2
  <2> HIDE DEF I
  <2> QED
      BY <2>1, LowestIn
<1>4. 0 \notin I
      OBVIOUS
<1> QED
    BY <1>1, <1>2, <1>3, <1>4

\* A use of handle h with what it has in B that loads its .symtab.
LEMMA LoadedUsed ==
    ASSUME NEW h, NEW E, NEW n, NEW B, Sound(h, E, n, B), NEW f, NEW g,
           g = WithSymtab(h, LoadOnce(h, f)) \/ g = [WithSymtab(h, LoadOnce(h, f)) EXCEPT !.dynTry = TRUE]
    PROVE  /\ Used(h, g, E, n, B, Allocated(h, LoadOnce(h, f)), f = "grow2")
           /\ LoadOnce(h, f).twice => h.elf.debug.stream = "bad"
<1> DEFINE t == LoadOnce(h, f)
           w == WithSymtab(h, t)
           A == Allocated(h, t)
<1>1. h \in Handles /\ Holds(h, B) /\ h.elf \in E /\ h.serial \in 0 .. n - 1
      BY DEF Sound
<1>2. /\ w \in Handles /\ w.serial = h.serial /\ w.elf = h.elf
      /\ Holds(w, B \cup A)
      /\ \A b \in A : b[1] = h.serial /\ b[2] \in Kinds /\ (b[2] = "lost" => f = "grow2")
      /\ t.twice => h.elf.debug.stream = "bad"
      BY <1>1, HoldsLoaded
<1>3. A \subseteq {h.serial} \X Kinds
  <2>1. \A b \in A : \E k \in t.live : b = <<h.serial, k>>
        BY DEF Allocated
  <2> QED
      BY <1>2, <2>1
<1> HIDE DEF t, w, A
<1>4. g = w \/ g = [w EXCEPT !.dynTry = TRUE]
      BY DEF w, t
<1>5. g \in Handles /\ g.serial = w.serial /\ g.elf = w.elf /\ g.tab = w.tab /\ g.symTry = w.symTry
      BY <1>2, <1>4 DEF Handles
<1>6. Holds(g, B \cup A)
      BY <1>2, <1>5 DEF Holds
<1>7. Sound(g, E, n, B \cup A)
      BY <1>1, <1>2, <1>5, <1>6 DEF Sound
<1>8. Used(h, g, E, n, B, A, f = "grow2")
      BY <1>2, <1>3, <1>5, <1>7 DEF Used
<1> QED
    BY <1>2, <1>8 DEF A, t

\* A use of handle h that finds the symbol in .dynsym.
LEMMA DynUsed ==
    ASSUME NEW h, NEW E, NEW n, NEW B, Sound(h, E, n, B), NEW lost
    PROVE  Used(h, [h EXCEPT !.dynTry = TRUE], E, n, B, {}, lost)
<1> DEFINE g == [h EXCEPT !.dynTry = TRUE]
<1>1. h \in Handles
      BY DEF Sound
<1>2. g \in Handles /\ g.serial = h.serial /\ g.elf = h.elf /\ g.tab = h.tab /\ g.symTry = h.symTry
      BY <1>1 DEF Handles
<1> HIDE DEF g
<1>3. Holds(g, B \cup {})
      BY <1>2 DEF Sound, Holds
<1>4. Used(h, g, E, n, B, {}, lost)
      BY <1>2, <1>3 DEF Sound, Used
<1> QED
    BY <1>4 DEF g

\* xdl_addr with a handle of its cache.
LEMMA ResolveKeeps ==
    ASSUME NEW c, NEW n, NEW B, NEW i \in DOMAIN c, NEW a, NEW f,
           Heap(c, handle, AllElfs, n, B, "grow2" \in faulty),
           B = blocks \cup NewBlocks(c[i].serial), Resolve(a, c, i, f), Called(f),
           UNCHANGED handle, FreedOnce
    PROVE  Heap(cache', handle', AllElfs', n, blocks', "grow2" \in faulty') /\ FreedOnce'
<1> DEFINE h == c[i]
           t == LoadOnce(h, f)
           d == IF DynLoads(h.elf) THEN SymByAddr(h.elf, a - h.elf.bias) ELSE NONE
           A == IF d # NONE THEN {} ELSE Allocated(h, t)
           g == IF d # NONE THEN [h EXCEPT !.dynTry = TRUE] ELSE [WithSymtab(h, t) EXCEPT !.dynTry = TRUE]
           more == "grow2" \in faulty'
           had == "grow2" \in faulty
<1>1. cache' = [c EXCEPT ![i] = g] /\ blocks' = B \cup A /\ dfree' = (dfree \/ (d = NONE /\ t.twice))
      BY DEF Resolve, NewBlocks
<1>2. AllElfs' = AllElfs /\ handle' = handle /\ ("grow2" \in faulty => more) /\ (f = "grow2" => more)
      BY DEF Called, AllElfs
<1>3. Sound(h, AllElfs, n, B)
      BY DEF Heap, CacheSound
<1>4. CASE d # NONE
  <2>1. Used(h, g, AllElfs, n, B, A, more)
        BY <1>3, <1>4, DynUsed
  <2>2. Heap([c EXCEPT ![i] = g], handle, AllElfs, n, B \cup A, more)
    <3>1. Heap(c, handle, AllElfs, n, B, had) /\ (had => more)
          BY <1>2
    <3> HIDE DEF g, A, more, had
    <3> QED
        BY <2>1, <3>1, HeapResolved
  <2> QED
      BY <1>1, <1>2, <1>4, <2>2 DEF FreedOnce
<1>5. CASE d = NONE
  <2>1. Used(h, g, AllElfs, n, B, A, f = "grow2") /\ (t.twice => h.elf.debug.stream = "bad")
        BY <1>3, <1>5, LoadedUsed
  <2>2. Used(h, g, AllElfs, n, B, A, more)
        BY <1>2, <2>1 DEF Used
  <2>3. Heap([c EXCEPT ![i] = g], handle, AllElfs, n, B \cup A, more)
    <3>1. Heap(c, handle, AllElfs, n, B, had) /\ (had => more)
          BY <1>2
    <3> HIDE DEF g, A, more, had
    <3> QED
        BY <2>2, <3>1, HeapResolved
  <2>4. h.elf \in AllElfs
        BY <1>3 DEF Sound
  <2> QED
      BY <1>1, <1>2, <2>1, <2>3, <2>4 DEF FreedOnce
<1> QED
    BY <1>4, <1>5

\* A call that makes no handle and frees nothing.
LEMMA HeapSame ==
    ASSUME XdlInv, NEW f, Called(f), UNCHANGED <<handle, cache, blocks, serial>>
    PROVE  Heap(cache', handle', AllElfs', serial', blocks', "grow2" \in faulty')
<1>1. AllElfs' = AllElfs /\ ("grow2" \in faulty => "grow2" \in faulty')
      BY DEF Called, AllElfs
<1> QED
    BY <1>1 DEF XdlInv, Heap, Accounted

\* xdl_open keeps the heap, whether it makes a handle or not.
LEMMA XdlOpenKeeps ==
    ASSUME XdlInv, NEW name, NEW f, Open(name, f)
    PROVE  Heap(cache', handle', AllElfs', serial', blocks', "grow2" \in faulty')
<1> DEFINE with == name[Len(name)] = LINKER[2]
           wanted == {x \in AllElfs : NameMatches(x, name)}
           e == Iterate(elfs, with, wanted)
<1>1. /\ Called(f) /\ UNCHANGED cache
      /\ \/ UNCHANGED <<handle, blocks, serial>>
         \/ /\ e # NONE /\ handle = NONE
            /\ handle' = Handle(e) /\ serial' = serial + 1
            /\ blocks' = blocks \cup {<<serial, "self">>, <<serial, "pathname">>}
      BY DEF Open
<1>2. CASE UNCHANGED <<handle, blocks, serial>>
      BY <1>1, <1>2, HeapSame
<1>3. CASE /\ e # NONE /\ handle = NONE
           /\ handle' = Handle(e) /\ serial' = serial + 1
           /\ blocks' = blocks \cup {<<serial, "self">>, <<serial, "pathname">>}
  <2>1. e \in AllElfs /\ e \in LoadedElfs
        BY <1>3, IterateIn DEF XdlInv
  <2> HIDE DEF e
  <2>2. AllElfs' = AllElfs /\ ("grow2" \in faulty => "grow2" \in faulty')
        BY <1>1 DEF Called, AllElfs
  <2>3. Handle(e) = Fresh(e, serial) /\ blocks' = blocks \cup NewBlocks(serial)
        BY <1>3 DEF Handle, Fresh, NewBlocks
  <2>4. Heap(cache, NONE, AllElfs, serial, blocks, "grow2" \in faulty')
        BY <1>3, <2>2 DEF XdlInv, Heap, Accounted
  <2> DEFINE more == "grow2" \in faulty'
  <2> HIDE DEF more
  <2>5. Heap(cache, Fresh(e, serial), AllElfs, serial + 1, blocks \cup NewBlocks(serial), more)
        BY <2>1, <2>4, HeapOpened DEF more
  <2> QED
      BY <1>1, <1>3, <2>2, <2>3, <2>5 DEF more
<1> QED
    BY <1>1, <1>2, <1>3

\* xdl_sym touches the handle only.
LEMMA XdlSymKeeps ==
    ASSUME XdlInv, NEW name, Sym(name)
    PROVE  Heap(cache', handle', AllElfs', serial', blocks', "grow2" \in faulty') /\ FreedOnce'
<1> DEFINE more == "grow2" \in faulty'
<1>1. /\ handle # NONE /\ handle' = [handle EXCEPT !.dynTry = TRUE]
      /\ UNCHANGED <<cache, blocks, dfree, serial>>
      BY DEF Sym
<1>2. AllElfs' = AllElfs /\ ("grow2" \in faulty => more)
      BY DEF Sym, Called, AllElfs
<1>3. Heap(cache, handle, AllElfs, serial, blocks, more)
      BY <1>2 DEF XdlInv, Heap, Accounted
<1> HIDE DEF more
<1>4. Used(handle, [handle EXCEPT !.dynTry = TRUE], AllElfs, serial, blocks, {}, more)
      BY <1>1, <1>3, DynUsed DEF Heap
<1>5. Heap(cache, handle', AllElfs, serial, blocks \cup {}, more)
      BY <1>1, <1>3, <1>4, HeapUsed
<1>6. FreedOnce'
      BY <1>1, <1>2 DEF XdlInv, FreedOnce
<1> QED
    BY <1>1, <1>2, <1>5, <1>6 DEF more

\* xdl_dsym loads the table on its first call, or fails to.
LEMMA XdlDsymKeeps ==
    ASSUME XdlInv, NEW name, NEW f, Dsym(name, f)
    PROVE  Heap(cache', handle', AllElfs', serial', blocks', "grow2" \in faulty') /\ FreedOnce'
<1> DEFINE more == "grow2" \in faulty'
           t == LoadOnce(handle, f)
           A == Allocated(handle, t)
<1>1. /\ handle # NONE /\ handle' = WithSymtab(handle, t) /\ blocks' = blocks \cup A
      /\ dfree' = (dfree \/ t.twice)
      /\ UNCHANGED <<cache, serial>>
      BY DEF Dsym
<1>2. AllElfs' = AllElfs /\ ("grow2" \in faulty => more) /\ (f = "grow2" => more)
      BY DEF Dsym, Called, AllElfs
<1>3. Heap(cache, handle, AllElfs, serial, blocks, more)
      BY <1>2 DEF XdlInv, Heap, Accounted
<1>4. Sound(handle, AllElfs, serial, blocks)
      BY <1>1, <1>3 DEF Heap
<1>5. /\ Used(handle, handle', AllElfs, serial, blocks, A, f = "grow2")
      /\ t.twice => handle.elf.debug.stream = "bad"
      BY <1>1, <1>4, LoadedUsed
<1>6. Used(handle, handle', AllElfs, serial, blocks, A, more)
      BY <1>2, <1>5 DEF Used
<1>7. Heap(cache, handle', AllElfs, serial, blocks \cup A, more)
  <2> HIDE DEF A, more
  <2> QED
      BY <1>1, <1>3, <1>6, HeapUsed
<1>8. FreedOnce'
      BY <1>1, <1>2, <1>4, <1>5 DEF XdlInv, FreedOnce, Sound
<1> QED
    BY <1>1, <1>2, <1>7, <1>8

\* xdl_close.
LEMMA XdlCloseKeeps ==
    ASSUME XdlInv, Close
    PROVE  Heap(cache', handle', AllElfs', serial', blocks', "grow2" \in faulty')
<1> DEFINE more == "grow2" \in faulty'
<1>1. /\ handle # NONE /\ handle' = NONE /\ blocks' = blocks \ Freed(handle)
      /\ UNCHANGED <<cache, serial>>
      BY DEF Close
<1>2. AllElfs' = AllElfs /\ ("grow2" \in faulty => more)
      BY DEF Close, Called, AllElfs
<1>3. Heap(cache, handle, AllElfs, serial, blocks, more)
      BY <1>2 DEF XdlInv, Heap, Accounted
<1> HIDE DEF more
<1>4. Heap(cache, NONE, AllElfs, serial, blocks \ Freed(handle), more)
      BY <1>1, <1>3, HeapClosed
<1> QED
    BY <1>1, <1>2, <1>4 DEF more

\* xdl_addr_clean.
LEMMA XdlCleanKeeps ==
    ASSUME XdlInv, Clean
    PROVE  Heap(cache', handle', AllElfs', serial', blocks', "grow2" \in faulty')
<1> DEFINE more == "grow2" \in faulty'
           F == UNION {Freed(cache[i]) : i \in DOMAIN cache}
<1>1. cache' = <<>> /\ blocks' = blocks \ F /\ UNCHANGED <<handle, serial>>
      BY DEF Clean
<1>2. AllElfs' = AllElfs /\ ("grow2" \in faulty => more)
      BY DEF Clean, Called, AllElfs
<1>3. Heap(cache, handle, AllElfs, serial, blocks, more)
      BY <1>2 DEF XdlInv, Heap, Accounted
<1> HIDE DEF more
<1>4. Heap(<<>>, handle, AllElfs, serial, blocks \ F, more)
      BY <1>3, HeapCleaned
<1> QED
    BY <1>1, <1>2, <1>4 DEF more

\* xdl_addr: a cached handle, a new one at the head of the cache, or nothing.
LEMMA XdlAddrKeeps ==
    ASSUME XdlInv, NEW a, NEW f, Addr(a, f)
    PROVE  Heap(cache', handle', AllElfs', serial', blocks', "grow2" \in faulty') /\ FreedOnce'
<1> DEFINE had == "grow2" \in faulty
           W == {x \in AllElfs : Covers(x, a)}
           e == Iterate(elfs, TRUE, W)
<1>1. Called(f) /\ UNCHANGED handle /\ AllElfs' = AllElfs
      BY DEF Addr, Called, AllElfs
<1>2. Heap(cache, handle, AllElfs, serial, blocks, had) /\ FreedOnce /\ cache \in Seq(Handles)
      BY DEF XdlInv, Heap, CacheSound
<1>3. CASE InCache(a) # 0
  <2>1. Resolve(a, cache, InCache(a), f) /\ UNCHANGED serial
        BY <1>3 DEF Addr
  <2>2. InCache(a) \in DOMAIN cache
        BY <1>2, <1>3, CacheHit
  <2>3. PICK c, i, n : c = cache /\ i = InCache(a) /\ n = serial
        OBVIOUS
  <2>4. blocks = blocks \cup NewBlocks(c[i].serial)
        BY <1>2, <2>2, <2>3 DEF Heap, CacheSound, Sound, Holds, NewBlocks
  <2>5. Resolve(a, c, i, f)
        BY <2>1, <2>3
  <2>6. Heap(c, handle, AllElfs, n, blocks, "grow2" \in faulty) /\ i \in DOMAIN c
        BY <1>2, <2>2, <2>3
  <2>7. Heap(cache', handle', AllElfs', n, blocks', "grow2" \in faulty') /\ FreedOnce'
        BY <1>1, <1>2, <2>4, <2>5, <2>6, ResolveKeeps
  <2> QED
      BY <2>1, <2>3, <2>7
<1>4. CASE InCache(a) = 0 /\ UNCHANGED <<cache, blocks, dfree, serial>>
  <2>1. FreedOnce'
        BY <1>1, <1>2, <1>4 DEF FreedOnce
  <2> QED
      BY <1>1, <1>4, <2>1, HeapSame
<1>5. CASE InCache(a) = 0 /\ e # NONE /\ Resolve(a, <<Handle(e)>> \o cache, 1, f) /\ serial' = serial + 1
  <2>1. e \in AllElfs /\ e \in LoadedElfs /\ Covers(e, a)
    <3>1. e \in W /\ e \in LoadedElfs
      <4> HIDE DEF W
      <4> QED
          BY <1>5, IterateIn DEF XdlInv
    <3> QED
        BY <3>1
  <2>2. PICK x, n, c : x = e /\ n = serial /\ c = <<Fresh(x, n)>> \o cache
        OBVIOUS
  <2>3. \A i \in DOMAIN cache : cache[i].elf.bias # x.bias
    <3> SUFFICES ASSUME NEW i \in DOMAIN cache, cache[i].elf.bias = x.bias
                 PROVE  FALSE
        OBVIOUS
    <3>1. ~ Covers(cache[i].elf, a) /\ cache[i].elf \in AllElfs
          BY <1>2, <1>5, CacheHit DEF Heap, CacheSound, Sound
    <3>2. cache[i].elf = x
          BY <2>1, <2>2, <3>1, ProcessList DEF XdlInv, AllElfs
    <3> QED
        BY <2>1, <2>2, <3>1, <3>2
  <2>4. Heap(c, handle, AllElfs, n + 1, blocks \cup NewBlocks(n), had)
    <3> HIDE DEF had, e
    <3>1. x \in AllElfs /\ x \in LoadedElfs /\ Heap(cache, handle, AllElfs, n, blocks, had)
          BY <1>2, <2>1, <2>2
    <3> QED
        BY <2>2, <2>3, <3>1, HeapCached
  <2>5. Handle(e) = Fresh(x, n)
        BY <2>2 DEF Handle, Fresh
  <2>6. Resolve(a, c, 1, f)
        BY <1>5, <2>2, <2>5
  <2>7. 1 \in DOMAIN c /\ c[1].serial = n
        BY <1>2, <2>2 DEF Fresh
  <2>8. PICK B : B = blocks \cup NewBlocks(n)
        OBVIOUS
  <2>9. Heap(cache', handle', AllElfs', n + 1, blocks', "grow2" \in faulty') /\ FreedOnce'
        BY <1>1, <1>2, <2>4, <2>6, <2>7, <2>8, ResolveKeeps
  <2> QED
      BY <1>5, <2>2, <2>9
<1>6. \/ InCache(a) # 0
      \/ InCache(a) = 0 /\ UNCHANGED <<cache, blocks, dfree, serial>>
      \/ InCache(a) = 0 /\ e # NONE /\ Resolve(a, <<Handle(e)>> \o cache, 1, f) /\ serial' = serial + 1
      BY DEF Addr
<1> QED
    BY <1>3, <1>4, <1>5, <1>6

\* The kinds of maps and inited, kept by every call.
LEMMA XdlCounts ==
    ASSUME XdlInv, [XdlNext]_dvars
    PROVE  elfs' \in Processes /\ maps' \in Nat /\ inited' \in BOOLEAN
<1>1. MutexMaps \in Nat
      BY DEF MutexMaps, MapsLeft
<1>2. \A w, S : MapsLeft(elfs, w, S) \in Nat
      BY DEF MapsLeft
<1>3. ASSUME NEW n \in FileNames, NEW f \in Faults, Open(n, f)
      PROVE  elfs' = elfs /\ maps' \in Nat /\ inited' \in BOOLEAN
      BY <1>1, <1>2, <1>3 DEF Open, Called, MutexInit, XdlInv
<1>4. ASSUME NEW a \in Addresses, NEW f \in Faults, Addr(a, f)
      PROVE  elfs' = elfs /\ maps' \in Nat /\ inited' \in BOOLEAN
  <2>1. elfs' = elfs
        BY <1>4 DEF Addr, Called
  <2> DEFINE m == MapsLeft(elfs, TRUE, {x \in AllElfs : Covers(x, a)})
  <2>2. \/ maps' = maps /\ inited' = inited
        \/ MutexInit(f) /\ maps' = maps + MutexMaps + m
        BY <1>4 DEF Addr
  <2>3. m \in Nat /\ maps \in Nat
        BY DEF XdlInv, MapsLeft
  <2> HIDE DEF m
  <2>4. maps' \in Nat
    <3>1. CASE maps' = maps
          BY <2>3, <3>1
    <3>2. CASE maps' = maps + MutexMaps + m
          BY <1>1, <2>3, <3>2
    <3> QED
        BY <2>2, <3>1, <3>2
  <2>5. inited' \in BOOLEAN
        BY <2>2 DEF MutexInit, XdlInv
  <2> QED
      BY <2>1, <2>4, <2>5
<1>5. ASSUME \/ \E n \in SymNames : Sym(n)
             \/ \E n \in SymNames, f \in Faults : Dsym(n, f)
             \/ Close \/ Clean \/ UNCHANGED dvars
      PROVE  elfs' = elfs /\ maps' = maps /\ inited' = inited
      BY <1>5 DEF Sym, Dsym, Close, Clean, Called, dvars
<1> QED
    BY <1>3, <1>4, <1>5 DEF XdlNext, XdlInv

\* The heap's invariant is kept by every call.
LEMMA XdlStep ==
    ASSUME XdlInv, [XdlNext]_dvars
    PROVE  XdlInv'
<1> DEFINE Good == Heap(cache', handle', AllElfs', serial', blocks', "grow2" \in faulty') /\ FreedOnce'
<1>1. ASSUME NEW n \in FileNames, NEW f \in Faults, Open(n, f)
      PROVE  Good
  <2>1. dfree' = dfree /\ AllElfs' = AllElfs
        BY <1>1 DEF Open, Called, AllElfs
  <2> QED
      BY <1>1, <2>1, XdlOpenKeeps DEF XdlInv, FreedOnce
<1>2. ASSUME NEW n \in SymNames, Sym(n)
      PROVE  Good
      BY <1>2, XdlSymKeeps
<1>3. ASSUME NEW n \in SymNames, NEW f \in Faults, Dsym(n, f)
      PROVE  Good
      BY <1>3, XdlDsymKeeps
<1>4. ASSUME Close
      PROVE  Good
  <2>1. dfree' = dfree /\ AllElfs' = AllElfs
        BY <1>4 DEF Close, Called, AllElfs
  <2> QED
      BY <1>4, <2>1, XdlCloseKeeps DEF XdlInv, FreedOnce
<1>5. ASSUME NEW a \in Addresses, NEW f \in Faults, Addr(a, f)
      PROVE  Good
      BY <1>5, XdlAddrKeeps
<1>6. ASSUME Clean
      PROVE  Good
  <2>1. dfree' = dfree /\ AllElfs' = AllElfs
        BY <1>6 DEF Clean, Called, AllElfs
  <2> QED
      BY <1>6, <2>1, XdlCleanKeeps DEF XdlInv, FreedOnce
<1>7. ASSUME UNCHANGED dvars
      PROVE  Good
  <2>1. AllElfs' = AllElfs
        BY <1>7 DEF dvars, AllElfs
  <2> QED
      BY <1>7, <2>1 DEF dvars, XdlInv, FreedOnce
<1>8. Good
      BY <1>1, <1>2, <1>3, <1>4, <1>5, <1>6, <1>7 DEF XdlNext
<1> QED
    BY <1>8, XdlCounts DEF XdlInv

\* A process that has called nothing has an empty heap.
LEMMA XdlStart ==
    ASSUME XdlInit
    PROVE  XdlInv
<1>1. /\ elfs \in Processes /\ handle = NONE /\ cache = <<>> /\ blocks = {} /\ dfree = FALSE
      /\ maps = 0 /\ inited = FALSE /\ serial = 0
      BY DEF XdlInit, XdlInitOf
<1>2. Heap(<<>>, NONE, AllElfs, 0, {}, "grow2" \in faulty)
      BY DEF Heap, CacheSound, Accounted
<1> QED
    BY <1>1, <1>2 DEF XdlInv, FreedOnce

\* What the invariant says of the heap.
LEMMA XdlInvImplies ==
    ASSUME XdlInv
    PROVE  HeapReleased
<1>1. Heap(cache, handle, AllElfs, serial, blocks, "grow2" \in faulty) /\ FreedOnce
      BY DEF XdlInv
<1>2. CacheOnePerElf
      BY <1>1 DEF Heap, CacheSound, CacheOnePerElf
<1>3. \A h \in Live : Holds(h, blocks)
      BY <1>1 DEF Heap, CacheSound, Sound, Live
<1>4. \A b \in blocks : b[1] \in {h.serial : h \in Live} \/ (b[2] = "lost" /\ "grow2" \in faulty)
  <2> SUFFICES ASSUME NEW b \in blocks, ~ (b[2] = "lost" /\ "grow2" \in faulty)
               PROVE  \E h \in Live : b[1] = h.serial
      OBVIOUS
  <2>1. \/ handle # NONE /\ b[1] = handle.serial
        \/ \E i \in DOMAIN cache : b[1] = cache[i].serial
        BY <1>1 DEF Heap, Accounted
  <2> QED
      BY <2>1 DEF Live
<1> QED
    BY <1>1, <1>2, <1>3, <1>4 DEF HeapReleased, Holds

\* Whatever is opened, resolved, cleaned and closed, in any order, and whatever
\* fails on the way: the memory of xDL is that of the handles in use.
THEOREM XdlHeapReleased == XdlSpec => []HeapReleased
<1>1. XdlInit => XdlInv
      BY XdlStart
<1>2. XdlInv /\ [XdlNext]_dvars => XdlInv'
      BY XdlStep
<1>3. XdlInv => HeapReleased
      BY XdlInvImplies
<1> QED
    BY <1>1, <1>2, <1>3, PTL DEF XdlSpec

-----------------------------------------------------------------------------
(* Xdl: the files of /proc/self/maps. *)

\* The linker an iteration starts with is a loaded ELF of that path, found
\* only with WITH_LINKER and between Android 5 and 8.
LEMMA LinkerFound ==
    ASSUME elfs \in Processes, NEW with \in BOOLEAN, LinkerFirst(elfs, with) # NONE
    PROVE  /\ with /\ api \in 21 .. 26
           /\ LinkerFirst(elfs, with) \in AllElfs
           /\ \A e \in AllElfs : e.path = LINKER <=> e = LinkerFirst(elfs, with)
           /\ LinkerFirst(elfs, TRUE) = LinkerFirst(elfs, with)
<1> DEFINE S == {i \in DOMAIN elfs : elfs[i].path = LINKER /\ elfs[i].mapped}
<1>1. with /\ api \in 21 .. 26 /\ First(elfs, S) # NONE /\ LinkerFirst(elfs, with) = First(elfs, S)
      BY DEF LinkerFirst
<1>2. S # {} /\ First(elfs, S) = elfs[Min(S)]
      BY <1>1 DEF First
<1>3. Min(S) \in S
  <2>1. S \subseteq Nat
        BY ProcessList
  <2> HIDE DEF S
  <2> QED
      BY <1>2, <2>1, LowestIn
<1>4. \A e \in AllElfs : e.path = LINKER <=> e = elfs[Min(S)]
      BY <1>3, ProcessList DEF AllElfs
<1> QED
    BY <1>1, <1>2, <1>3, <1>4 DEF AllElfs

\* What two searches leave open: that for the lock, on the first call on
\* Android 5, and that for what the call wants.
LEMMA MapsOfCall ==
    ASSUME XdlInv, NEW f, MutexInit(f), NEW with \in BOOLEAN, NEW W, W \subseteq AllElfs,
           maps' = maps + MutexMaps + MapsLeft(elfs, with, W), maps' # maps,
           NEW asked \in BOOLEAN, asked <=> \E e \in W : e.path = LINKER, asked => with
    PROVE  /\ api \in 21 .. 26
           /\ maps' - maps = (IF inited' # inited THEN 1 ELSE 0) + (IF asked THEN 1 ELSE 0)
<1> DEFINE l == LinkerFirst(elfs, TRUE)
           first == api \in {21, 22} /\ ~ inited
           L == {e \in AllElfs : e.path = LINKER}
<1>1. inited' # inited <=> first
      BY DEF MutexInit, XdlInv
<1>2. NONE \notin AllElfs /\ elfs \in Processes
      BY NoneApart, ProcessList DEF XdlInv, AllElfs
<1>3. l # NONE /\ api \in 21 .. 26
  <2>1. CASE MutexMaps # 0
    <3>1. LinkerFirst(elfs, TRUE) \in L
          BY <2>1 DEF MutexMaps, MapsLeft, EndsAtLinker
    <3>2. LinkerFirst(elfs, TRUE) # NONE
          BY <1>2, <3>1
    <3> QED
        BY <1>2, <3>2, LinkerFound
  <2>2. CASE MapsLeft(elfs, with, W) # 0
    <3>1. LinkerFirst(elfs, with) # NONE
          BY <1>2, <2>2 DEF MapsLeft, EndsAtLinker
    <3> QED
        BY <1>2, <3>1, LinkerFound
  <2>3. maps \in Nat
        BY DEF XdlInv
  <2>4. MutexMaps # 0 \/ MapsLeft(elfs, with, W) # 0
        BY <2>3
  <2> QED
      BY <2>1, <2>2, <2>4
<1>4. l \in AllElfs /\ \A e \in AllElfs : e.path = LINKER <=> e = l
      BY <1>2, <1>3, LinkerFound
<1>5. MutexMaps = IF first THEN 1 ELSE 0
      BY <1>4 DEF MutexMaps, MapsLeft, EndsAtLinker
<1>6. MapsLeft(elfs, with, W) = IF asked THEN 1 ELSE 0
  <2>1. CASE asked
    <3>1. with = TRUE /\ l \in W
          BY <1>4, <2>1
    <3> QED
        BY <2>1, <3>1 DEF MapsLeft, EndsAtLinker
  <2>2. CASE ~ asked
    <3>1. ASSUME LinkerFirst(elfs, with) \in W PROVE FALSE
      <4>1. LinkerFirst(elfs, with) # NONE
            BY <1>2, <3>1
      <4>2. LinkerFirst(elfs, with).path = LINKER
            BY <1>2, <4>1, LinkerFound
      <4> QED
          BY <2>2, <3>1, <4>2
    <3> QED
        BY <2>2, <3>1 DEF MapsLeft, EndsAtLinker
  <2> QED
      BY <2>1, <2>2
<1> HIDE DEF first, l
<1>7. maps' - maps = (IF first THEN 1 ELSE 0) + (IF asked THEN 1 ELSE 0)
      BY <1>5, <1>6 DEF XdlInv
<1> QED
    BY <1>1, <1>3, <1>7

\* What a step may do to maps.
MapsStep ==
    maps' # maps =>
        /\ api \in 21 .. 26
        /\ maps' - maps = (IF inited' # inited THEN 1 ELSE 0) + (IF AskedForLinker(answer') THEN 1 ELSE 0)

\* xdl_open asks for the linker when its name is the linker's, with or
\* without the directory; it passes WITH_LINKER then.
LEMMA XdlOpenMaps ==
    ASSUME XdlInv, NEW name \in FileNames, NEW f, Open(name, f)
    PROVE  MapsStep
<1> DEFINE with == name[Len(name)] = LINKER[2]
           W == {x \in AllElfs : NameMatches(x, name)}
           asked == AskedForLinker(answer')
<1>1. /\ MutexInit(f) /\ maps' = maps + MutexMaps + MapsLeft(elfs, with, W)
      /\ answer'.call = "open" /\ answer'.arg = name
      BY DEF Open
<1>2. asked <=> \E e \in W : e.path = LINKER
      BY <1>1 DEF AskedForLinker
<1>3. asked => with
      BY <1>2, NoneApart DEF NameMatches, LINKER
<1>4. W \subseteq AllElfs /\ with \in BOOLEAN /\ asked \in BOOLEAN
      BY DEF AskedForLinker
<1> HIDE DEF W, with, asked
<1>5. ASSUME maps' # maps
      PROVE  /\ api \in 21 .. 26
             /\ maps' - maps = (IF inited' # inited THEN 1 ELSE 0) + (IF asked THEN 1 ELSE 0)
      BY <1>1, <1>2, <1>3, <1>4, <1>5, MapsOfCall
<1> QED
    BY <1>5 DEF MapsStep, asked

\* xdl_addr asks for the linker when the address is in it.
LEMMA XdlAddrMaps ==
    ASSUME XdlInv, NEW a, NEW f, Addr(a, f)
    PROVE  MapsStep
<1> DEFINE W == {x \in AllElfs : Covers(x, a)}
           asked == AskedForLinker(answer')
<1>1. \/ maps' = maps
      \/ MutexInit(f) /\ maps' = maps + MutexMaps + MapsLeft(elfs, TRUE, W)
      BY DEF Addr
<1>2. answer'.call = "addr" /\ answer'.arg = a
  <2>1. ASSUME NEW c, NEW i, Resolve(a, c, i, f)
        PROVE  answer'.call = "addr" /\ answer'.arg = a
        BY <2>1 DEF Resolve
  <2>2. \/ \E c, i : Resolve(a, c, i, f)
        \/ answer' = [call |-> "addr", arg |-> a, result |-> NONE, name |-> f]
        BY DEF Addr
  <2> QED
      BY <2>1, <2>2
<1>3. asked <=> \E e \in W : e.path = LINKER
      BY <1>2 DEF AskedForLinker
<1>4. W \subseteq AllElfs /\ asked \in BOOLEAN
      BY DEF AskedForLinker
<1> HIDE DEF W, asked
<1>5. ASSUME maps' # maps
      PROVE  /\ api \in 21 .. 26
             /\ maps' - maps = (IF inited' # inited THEN 1 ELSE 0) + (IF asked THEN 1 ELSE 0)
      BY <1>1, <1>3, <1>4, <1>5, MapsOfCall
<1> QED
    BY <1>5 DEF MapsStep, asked

\* Whatever was called before, a call leaves a file open only for a search
\* that ended at the linker, and one for each such search.
THEOREM XdlMapsClosed == XdlSpec => MapsClosed
<1>1. XdlInit => XdlInv
      BY XdlStart
<1>2. XdlInv /\ [XdlNext]_dvars => XdlInv'
      BY XdlStep
<1>3. XdlInv /\ [XdlNext]_dvars => [MapsStep]_dvars
  <2> SUFFICES ASSUME XdlInv, XdlNext PROVE MapsStep
      OBVIOUS
  <2>1. ASSUME NEW n \in FileNames, NEW f \in Faults, Open(n, f) PROVE MapsStep
        BY <2>1, XdlOpenMaps
  <2>2. ASSUME NEW a \in Addresses, NEW f \in Faults, Addr(a, f) PROVE MapsStep
        BY <2>2, XdlAddrMaps
  <2>3. ASSUME \/ \E n \in SymNames : Sym(n)
               \/ \E n \in SymNames, f \in Faults : Dsym(n, f)
               \/ Close \/ Clean
        PROVE  MapsStep
        BY <2>3 DEF Sym, Dsym, Close, Clean, MapsStep
  <2> QED
      BY <2>1, <2>2, <2>3 DEF XdlNext
<1> QED
    BY <1>1, <1>2, <1>3, PTL DEF XdlSpec, MapsClosed, MapsStep

-----------------------------------------------------------------------------
(* XhElf: the originals and the protection of the pages. *)

\* A pointer is the original or the new function, a caller has been given the
\* original or nothing, and a page has its own protection unless putting it
\* back failed.
XhElfInv ==
    /\ \A o \in DOMAIN mem : mem[o] \in {"orig", "new_func"}
    /\ old_func \in [HookSymbols -> {NULL, "orig"}]
    /\ ProtectionKept

\* xh_elf_find_and_replace_func keeps them, whether it succeeds or fails.
LEMMA VisitKeeps ==
    ASSUME XhElfInv, NEW e, NEW isPlt, NEW cur, NEW table, NEW after,
           Visit(e, isPlt, cur, table, after), UNCHANGED lib
    PROVE  XhElfInv'
<1>1. ASSUME NEW off, Replace(off)
      PROVE  XhElfInv'
  <2>1. CASE UNCHANGED <<mem, prot, old_func, faults>>
        BY <2>1 DEF XhElfInv, ProtectionKept
  <2>2. CASE /\ Pointer(off) # "new_func"
             /\ old_func' = [old_func EXCEPT ![target.name] = mem[off]]
             /\ mem' = [mem EXCEPT ![off] = "new_func"]
             /\ \/ UNCHANGED <<prot, faults>>
                \/ "restore" \in faults'
    <3>1. off \in DOMAIN mem /\ mem[off] = "orig"
          BY <2>2 DEF Pointer, XhElfInv
    <3>2. old_func' \in [HookSymbols -> {NULL, "orig"}]
          BY <2>2, <3>1 DEF XhElfInv
    <3>3. \A o \in DOMAIN mem' : mem'[o] \in {"orig", "new_func"}
          BY <2>2, <3>1 DEF XhElfInv
    <3>4. ProtectionKept'
          BY <2>2 DEF XhElfInv, ProtectionKept
    <3> QED
        BY <3>2, <3>3, <3>4 DEF XhElfInv
  <2> QED
      BY <1>1, <2>1, <2>2 DEF Replace
<1>2. ASSUME NEW off, ReplaceFails(off)
      PROVE  XhElfInv'
      BY <1>2 DEF ReplaceFails, XhElfInv, ProtectionKept
<1>3. CASE UNCHANGED <<mem, prot, old_func, faults>>
      BY <1>3 DEF XhElfInv, ProtectionKept
<1> QED
    BY <1>1, <1>2, <1>3 DEF Visit

\* Every step keeps them.
LEMMA XhElfStep ==
    ASSUME XhElfInv, [XhElfNext]_xvars
    PROVE  XhElfInv'
<1>1. ASSUME UNCHANGED <<lib, mem, prot, old_func, faults>>
      PROVE  XhElfInv'
      BY <1>1 DEF XhElfInv, ProtectionKept
<1>2. ASSUME \/ Parse \/ \E s \in HookSymbols : Hook(s)
             \/ HookReturn \/ UNCHANGED xvars
      PROVE  UNCHANGED <<lib, mem, prot, old_func, faults>>
      BY <1>2 DEF Parse, Hook, HookReturn, xvars
<1>3. ASSUME VisitPlt PROVE XhElfInv'
  <2>1. \/ UNCHANGED <<lib, mem, prot, old_func, faults>>
        \/ /\ UNCHANGED lib
           /\ \E e, c : Visit(e, TRUE, c, "plt", "dyn")
        BY <1>3 DEF VisitPlt
  <2> QED
      BY <1>1, <2>1, VisitKeeps
<1>4. ASSUME VisitDyn PROVE XhElfInv'
  <2>1. \/ UNCHANGED <<lib, mem, prot, old_func, faults>>
        \/ /\ UNCHANGED lib
           /\ \E e, c : Visit(e, FALSE, c, "dyn", NULL)
        BY <1>4 DEF VisitDyn
  <2> QED
      BY <1>1, <2>1, VisitKeeps
<1>5. ASSUME VisitAndroid PROVE XhElfInv'
  <2>1. /\ UNCHANGED lib
        /\ \E e, c : Visit(e, FALSE, c, "android", NULL)
        BY <1>5 DEF VisitAndroid
  <2> QED
      BY <2>1, VisitKeeps
<1> QED
    BY <1>1, <1>2, <1>3, <1>4, <1>5 DEF XhElfNext

\* They hold of an image that is not hooked yet.
LEMMA XhElfStart ==
    ASSUME XhElfInit
    PROVE  XhElfInv
BY PointersResolved DEF XhElfInit, XhElfInitOf, XhElfInv, ProtectionKept

\* However often xh_elf_hook is called, and wherever a call fails: what the
\* caller is given as the original is never the new function.
THEOREM XhElfOldIsOriginal == XhElfSpec => []OldIsOriginal
<1>1. XhElfInit => XhElfInv
      BY XhElfStart
<1>2. XhElfInv /\ [XhElfNext]_xvars => XhElfInv'
      BY XhElfStep
<1>3. XhElfInv => OldIsOriginal
      BY DEF XhElfInv, OldIsOriginal
<1> QED
    BY <1>1, <1>2, <1>3, PTL DEF XhElfSpec

-----------------------------------------------------------------------------
(* XhElf: the search for a symbol. *)

\* What the dynamic section has given so far: the fields of .gnu.hash, with
\* what is left of .hash under them, or those of .hash, or neither.
TableOf(l, s) ==
    /\ {"table", "is_use_gnu_hash"} \subseteq DOMAIN s
    /\ s.is_use_gnu_hash \in BOOLEAN
    /\ IF s.is_use_gnu_hash THEN GnuLike(s.table, l.gnu)
       ELSE s.table = NULL \/ SysvLike(s.table, l.sysv)

\* The table that is found last has its fields, whatever was found before.
LEMMA FieldsFound ==
    ASSUME NEW l \in Libs, NEW table
    PROVE  GnuLike(Fields(table, l.gnu), l.gnu) /\ SysvLike(Fields(table, l.sysv), l.sysv)
<1>1. {"bucket_cnt", "symoffset", "bloom_sz", "bloom_shift", "bloom", "bucket", "chain"} \subseteq DOMAIN l.gnu
  <2>1. \A o, B, W, sh : {"bucket_cnt", "symoffset", "bloom_sz", "bloom_shift", "bloom", "bucket", "chain"}
                            \subseteq DOMAIN GnuTable(l.syms, o, B, W, sh)
        BY DEF GnuTable
  <2>2. PICK o, B, W, sh : l.gnu = GnuTable(l.syms, o, B, W, sh)
    <3>1. l.gnu = GnuTable(l.syms, l.gnu.symoffset, l.gnu.bucket_cnt, l.gnu.bloom_sz, l.gnu.bloom_shift)
          BY TablesWritten, Zenon DEF Written
    <3> QED
        BY <3>1, Zenon
  <2> QED
      BY <2>1, <2>2
<1>2. {"bucket_cnt", "bucket", "chain"} \subseteq DOMAIN l.sysv
  <2>1. \A B : {"bucket_cnt", "bucket", "chain"} \subseteq DOMAIN SysvTable(l.syms, B)
        BY DEF SysvTable
  <2> QED
      BY <2>1, TablesWritten DEF Written
<1>3. CASE table = NULL
      BY <1>3 DEF Fields, GnuLike, SysvLike
<1>4. CASE table # NULL
  <2>1. ASSUME NEW found, NEW x \in DOMAIN found
        PROVE  Fields(table, found)[x] = found[x]
        BY <1>4, <2>1 DEF Fields
  <2> QED
      BY <1>1, <1>2, <2>1 DEF GnuLike, SysvLike
<1> QED
    BY <1>3, <1>4

\* One entry of the dynamic section.
LEMMA ParseDynKeeps ==
    ASSUME NEW l \in Libs, NEW s, TableOf(l, s), NEW d
    PROVE  TableOf(l, ParseDyn(l, s, d))
<1> DEFINE low == s.bias + d.ptr < l.base
           r == ParseDyn(l, s, d)
<1> SUFFICES TableOf(l, r)
    OBVIOUS
<1>1. CASE r = s
      BY <1>1
<1>2. ASSUME NEW f \in {"strtab", "symtab", "relplt", "reldyn", "relandroid"},
             r = [s EXCEPT ![f] = TRUE, !.err = low]
      PROVE  TableOf(l, r)
  <2> HIDE DEF r, low
  <2> QED
      BY <1>2 DEF TableOf
<1>3. CASE r = [s EXCEPT !.end = TRUE] \/ r = [s EXCEPT !.is_use_rela = d.rela]
  <2> HIDE DEF r
  <2>1. {"table", "is_use_gnu_hash"} \subseteq DOMAIN s
        BY DEF TableOf
  <2>2. {"table", "is_use_gnu_hash"} \subseteq DOMAIN r /\ r.table = s.table
        BY <1>3, <2>1
  <2>3. r.is_use_gnu_hash = s.is_use_gnu_hash
        BY <1>3, <2>1
  <2> QED
      BY <2>2, <2>3 DEF TableOf
<1>4. CASE r = [s EXCEPT !.table = Fields(@, l.gnu), !.is_use_gnu_hash = TRUE, !.err = low]
  <2>1. PICK F : F = Fields(s.table, l.gnu)
        OBVIOUS
  <2>2. GnuLike(F, l.gnu)
        BY <2>1, FieldsFound
  <2> HIDE DEF r, low
  <2>3. r = [s EXCEPT !.table = F, !.is_use_gnu_hash = TRUE, !.err = low]
        BY <1>4, <2>1
  <2>4. {"table", "is_use_gnu_hash"} \subseteq DOMAIN s
        BY DEF TableOf
  <2>5. {"table", "is_use_gnu_hash"} \subseteq DOMAIN r /\ r.table = F
        BY <2>3, <2>4
  <2>6. r.is_use_gnu_hash = TRUE
        BY <2>3, <2>4
  <2> QED
      BY <2>2, <2>5, <2>6 DEF TableOf
<1>5. CASE ~ s.is_use_gnu_hash /\ r = [s EXCEPT !.table = Fields(@, l.sysv), !.err = low]
  <2>1. PICK F : F = Fields(s.table, l.sysv)
        OBVIOUS
  <2>2. SysvLike(F, l.sysv)
        BY <2>1, FieldsFound
  <2> HIDE DEF r, low
  <2>3. r = [s EXCEPT !.table = F, !.err = low]
        BY <1>5, <2>1
  <2>4. {"table", "is_use_gnu_hash"} \subseteq DOMAIN s
        BY DEF TableOf
  <2>5. {"table", "is_use_gnu_hash"} \subseteq DOMAIN r /\ r.table = F
        BY <2>3, <2>4
  <2>6. r.is_use_gnu_hash = s.is_use_gnu_hash
        BY <2>3, <2>4
  <2> QED
      BY <1>5, <2>2, <2>5, <2>6 DEF TableOf
<1>6. \/ r = s
      \/ \E f \in {"strtab", "symtab", "relplt", "reldyn", "relandroid"} : r = [s EXCEPT ![f] = TRUE, !.err = low]
      \/ r = [s EXCEPT !.end = TRUE] \/ r = [s EXCEPT !.is_use_rela = d.rela]
      \/ r = [s EXCEPT !.table = Fields(@, l.gnu), !.is_use_gnu_hash = TRUE, !.err = low]
      \/ ~ s.is_use_gnu_hash /\ r = [s EXCEPT !.table = Fields(@, l.sysv), !.err = low]
      BY DEF ParseDyn, HashIgnored
<1> QED
    BY <1>1, <1>2, <1>3, <1>4, <1>5, <1>6

\* The dynamic section is read one entry after the other.
LEMMA ParseEntries ==
    ASSUME NEW l \in Libs, NEW start
    PROVE  \E f : /\ f[0] = start /\ ParseDynamic(l, start) = f[Len(l.dyn)]
                  /\ \A n \in 1 .. Len(l.dyn) : f[n] = ParseDyn(l, f[n - 1], l.dyn[n])
<1> DEFINE N == Len(l.dyn)
           Val(g, n) == IF n = 0 THEN start ELSE ParseDyn(l, g[n - 1], l.dyn[n])
           Upto(g, m) == g = [n \in 0 .. m |-> Val(g, n)]
           Parsed == CHOOSE g : Upto(g, N)
<1>1. N \in Nat
      BY TablesWritten
<1>2. ParseDynamic(l, start) = Parsed[N]
      BY DEF ParseDynamic
<1>3. \A m \in 0 .. N : \E g : Upto(g, m)
  <2> DEFINE Bad == {m \in 0 .. N : ~ \E g : Upto(g, m)}
  <2> SUFFICES ASSUME Bad # {} PROVE FALSE
      OBVIOUS
  <2>1. PICK k \in Bad : \A j \in Bad : k <= j
    <3>1. Bad \subseteq Nat
          BY <1>1
    <3> HIDE DEF Bad
    <3> QED
        BY <3>1, LowestIn
  <2>2. k \in 0 .. N /\ ~ \E g : Upto(g, k)
        OBVIOUS
  <2>3. CASE k = 0
    <3>1. [n \in 0 .. 0 |-> start] = [n \in 0 .. 0 |-> Val([i \in 0 .. 0 |-> start], n)]
          OBVIOUS
    <3> QED
        BY <2>2, <2>3, <3>1
  <2>4. CASE k # 0
    <3>1. k - 1 \in 0 .. N /\ k - 1 \notin Bad
      <4>1. k - 1 \in 0 .. N /\ ~ (k <= k - 1)
            BY <1>1, <2>2, <2>4
      <4> HIDE DEF Bad
      <4> QED
          BY <2>1, <4>1
    <3>2. PICK g : Upto(g, k - 1)
          BY <3>1
    <3> DEFINE e == [n \in 0 .. k |-> IF n = k THEN ParseDyn(l, g[k - 1], l.dyn[k]) ELSE g[n]]
    <3>3. \A n \in 0 .. k - 1 : g[n] = Val(g, n) /\ e[n] = g[n]
          BY <1>1, <2>2, <3>2
    <3>4. \A n \in 0 .. k : e[n] = Val(e, n)
      <4> SUFFICES ASSUME NEW n \in 0 .. k PROVE e[n] = Val(e, n)
          OBVIOUS
      <4>1. CASE n = k
            BY <2>2, <2>4, <3>3, <4>1
      <4>2. CASE n # k
        <5>1. n \in 0 .. k - 1 /\ (n # 0 => n - 1 \in 0 .. k - 1)
              BY <2>2, <4>2
        <5> HIDE DEF e
        <5> QED
            BY <3>3, <5>1
      <4> QED
          BY <4>1, <4>2
    <3>5. e = [n \in 0 .. k |-> e[n]]
          OBVIOUS
    <3> HIDE DEF e
    <3>6. Upto(e, k)
          BY <3>4, <3>5
    <3> QED
        BY <2>2, <3>6
  <2> QED
      BY <2>3, <2>4
<1>4. Upto(Parsed, N)
  <2>1. \E g : Upto(g, N)
        BY <1>1, <1>3
  <2> HIDE DEF Upto
  <2> QED
      BY <2>1
<1>5. \A n \in 0 .. N : Parsed[n] = Val(Parsed, n)
  <2> HIDE DEF Parsed
  <2> QED
      BY <1>4
<1> HIDE DEF Parsed
<1>6. Parsed[0] = start /\ \A n \in 1 .. N : Parsed[n] = ParseDyn(l, Parsed[n - 1], l.dyn[n])
      BY <1>1, <1>5
<1> QED
    BY <1>2, <1>6

\* The whole dynamic section, by induction on its entries.
LEMMA ParseDynamicKeeps ==
    ASSUME NEW l \in Libs, NEW start, TableOf(l, start)
    PROVE  TableOf(l, ParseDynamic(l, start))
<1>1. PICK N \in Nat : N = Len(l.dyn)
      BY TablesWritten
<1>2. PICK f : /\ f[0] = start /\ ParseDynamic(l, start) = f[N]
               /\ \A n \in 1 .. N : f[n] = ParseDyn(l, f[n - 1], l.dyn[n])
      BY <1>1, ParseEntries
<1>3. \A n \in 0 .. N : TableOf(l, f[n])
  <2> DEFINE Bad == {n \in 0 .. N : ~ TableOf(l, f[n])}
  <2> SUFFICES ASSUME Bad # {} PROVE FALSE
      OBVIOUS
  <2>1. PICK k \in Bad : \A j \in Bad : k <= j
    <3>1. Bad \subseteq Nat
          BY <1>1
    <3> HIDE DEF Bad
    <3> QED
        BY <3>1, LowestIn
  <2>2. k # 0
        BY <1>2
  <2>3. k - 1 \in 0 .. N /\ k - 1 \notin Bad
        BY <1>1, <2>1, <2>2
  <2>4. TableOf(l, ParseDyn(l, f[k - 1], l.dyn[k]))
        BY <2>3, ParseDynKeeps
  <2>5. f[k] = ParseDyn(l, f[k - 1], l.dyn[k])
        BY <1>1, <1>2, <2>2
  <2> QED
      BY <2>4, <2>5
<1> QED
    BY <1>1, <1>2, <1>3

\* The symbols of an image are a table the searches are exact for.
LEMMA ImageSymbols ==
    ASSUME NEW l \in Libs
    PROVE  SymbolTable(l.syms) /\ l.syms[1] = NO_NAME
BY TablesWritten DEF Written, SymbolTable

\* Two symbols of a table have two names.
LEMMA OneName ==
    ASSUME NEW syms, SymbolTable(syms), NEW i \in 0 .. Len(syms) - 1, NEW j \in 0 .. Len(syms) - 1,
           Name(syms, i) = Name(syms, j)
    PROVE  i = j
<1>1. i + 1 \in DOMAIN syms /\ j + 1 \in DOMAIN syms /\ syms[i + 1] = syms[j + 1]
      BY DEF SymbolTable, Name
<1> QED
    BY <1>1 DEF SymbolTable

\* xh_elf_gnu_hash_lookup: the hashed symbols, then those .gnu.hash leaves out.
LEMMA GnuSearchExact ==
    ASSUME NEW syms, SymbolTable(syms), syms[1] = NO_NAME, NEW o \in 1 .. Len(syms), NEW B \in Nat \ {0},
           NEW W \in Nat \ {0}, NEW sh \in Nat, GnuOrdered(syms, o, B),
           NEW t, GnuLike(t, GnuTable(syms, o, B, W, sh)), NEW name \in DOMAIN Hash, name # NO_NAME,
           NEW found, found = IF GnuFind(t, syms, name) # NOTFND THEN GnuFind(t, syms, name)
                              ELSE GnuFindUndef(t, syms, name)
    PROVE  /\ \A i \in 1 .. Len(syms) - 1 : Name(syms, i) = name => found = i
           /\ (\A i \in 1 .. Len(syms) - 1 : Name(syms, i) # name) => found = NOTFND
<1>1. PICK N \in Nat \ {0} : N = Len(syms)
      BY DEF SymbolTable
<1>2. Name(syms, 0) = NO_NAME /\ o \in 1 .. N
      BY <1>1 DEF Name
<1>3. PICK d : d = GnuFind(t, syms, name)
      OBVIOUS
<1>4. /\ \A i \in o .. N - 1 : Name(syms, i) = name => d = i
      /\ (\A i \in o .. N - 1 : Name(syms, i) # name) => d = NOTFND
      BY <1>1, <1>3, GnuFindExact
<1>5. t.symoffset = o
      BY DEF GnuLike, GnuTable
<1> DEFINE S == {i \in 0 .. o - 1 : Name(syms, i) = name}
<1>6. found = IF d # NOTFND THEN d ELSE IF S = {} THEN NOTFND ELSE Min(S)
      BY <1>3, <1>5 DEF GnuFindUndef
<1>7. ASSUME NEW i \in 1 .. N - 1, Name(syms, i) = name
      PROVE  found = i
  <2>1. CASE i >= o
    <3>1. d = i
          BY <1>1, <1>2, <1>4, <1>7, <2>1
    <3> QED
        BY <1>1, <1>6, <3>1, HashNumbers
  <2>2. CASE i < o
    <3>1. \A j \in 0 .. N - 1 : Name(syms, j) = name => j = i
          BY <1>1, <1>7, OneName
    <3>2. d = NOTFND
          BY <1>1, <1>2, <1>4, <2>2, <3>1
    <3>3. S = {i}
          BY <1>1, <1>2, <1>7, <2>2, <3>1
    <3> HIDE DEF S
    <3>4. Min(S) = i
          BY <1>1, <3>3 DEF Min
    <3> QED
        BY <1>6, <3>2, <3>3, <3>4
  <2> QED
      BY <1>1, <1>2, <2>1, <2>2
<1>8. ASSUME \A i \in 1 .. N - 1 : Name(syms, i) # name
      PROVE  found = NOTFND
  <2>1. d = NOTFND
        BY <1>1, <1>2, <1>4, <1>8
  <2>2. S = {}
        BY <1>1, <1>2, <1>8
  <2> HIDE DEF S
  <2> QED
      BY <1>6, <2>1, <2>2
<1> QED
    BY <1>1, <1>7, <1>8

\* xh_elf_find_symidx_by_name with the hash table in use.
LEMMA SearchExact ==
    ASSUME NEW l \in Libs, NEW s, TableOf(l, s), s.table # NULL, NEW name \in DOMAIN Hash \ {NO_NAME}
    PROVE  /\ \A i \in 1 .. Len(l.syms) - 1 :
                Name(l.syms, i) = name => xh_elf_find_symidx_by_name(l, s, name) = i
           /\ (\A i \in 1 .. Len(l.syms) - 1 : Name(l.syms, i) # name)
                => xh_elf_find_symidx_by_name(l, s, name) = NOTFND
<1> DEFINE found == xh_elf_find_symidx_by_name(l, s, name)
<1>1. SymbolTable(l.syms) /\ l.syms[1] = NO_NAME /\ name \in DOMAIN Hash /\ name # NO_NAME
      BY ImageSymbols
<1>2. CASE s.is_use_gnu_hash
  <2>1. PICK o \in 1 .. Len(l.syms), B \in Nat \ {0}, W \in Nat \ {0}, sh \in Nat :
          GnuOrdered(l.syms, o, B) /\ l.gnu = GnuTable(l.syms, o, B, W, sh)
    <3>1. /\ l.gnu = GnuTable(l.syms, l.gnu.symoffset, l.gnu.bucket_cnt, l.gnu.bloom_sz, l.gnu.bloom_shift)
          /\ GnuOrdered(l.syms, l.gnu.symoffset, l.gnu.bucket_cnt)
          /\ l.gnu.symoffset \in 1 .. Len(l.syms) /\ l.gnu.bloom_shift \in Nat
          /\ {l.gnu.bucket_cnt, l.gnu.bloom_sz, l.sysv.bucket_cnt} \subseteq Nat \ {0}
          BY TablesWritten, Zenon DEF Written
    <3>2. l.gnu.bucket_cnt \in Nat \ {0} /\ l.gnu.bloom_sz \in Nat \ {0}
          BY <3>1
    <3> QED
        BY <3>1, <3>2, Zenon
  <2>2. GnuLike(s.table, GnuTable(l.syms, o, B, W, sh))
        BY <1>2, <2>1 DEF TableOf
  <2>3. found = IF GnuFind(s.table, l.syms, name) # NOTFND THEN GnuFind(s.table, l.syms, name)
                ELSE GnuFindUndef(s.table, l.syms, name)
        BY <1>2 DEF xh_elf_find_symidx_by_name
  <2> HIDE DEF found
  <2>4. /\ \A i \in 1 .. Len(l.syms) - 1 : Name(l.syms, i) = name => found = i
        /\ (\A i \in 1 .. Len(l.syms) - 1 : Name(l.syms, i) # name) => found = NOTFND
        BY <1>1, <2>1, <2>2, <2>3, GnuSearchExact
  <2> QED
      BY <2>4 DEF found
<1>3. CASE ~ s.is_use_gnu_hash
  <2>1. PICK B \in Nat \ {0} : l.sysv = SysvTable(l.syms, B)
    <3>1. /\ l.sysv = SysvTable(l.syms, l.sysv.bucket_cnt)
          /\ {l.gnu.bucket_cnt, l.gnu.bloom_sz, l.sysv.bucket_cnt} \subseteq Nat \ {0}
          BY TablesWritten, Zenon DEF Written
    <3>2. l.sysv.bucket_cnt \in Nat \ {0}
          BY <3>1
    <3> QED
        BY <3>1, <3>2, Zenon
  <2>2. SysvLike(s.table, SysvTable(l.syms, B))
        BY <1>3, <2>1 DEF TableOf
  <2>3. found = SysvFind(s.table, l.syms, name)
        BY <1>3 DEF xh_elf_find_symidx_by_name
  <2> QED
      BY <1>1, <2>2, <2>3, SysvFindExact
<1> QED
    BY <1>2, <1>3

\* xh_elf_init succeeds only with a hash table.
LEMMA ParsedTable ==
    ASSUME NEW l \in Libs, ~ xh_elf_init(l).err
    PROVE  TableOf(l, xh_elf_init(l)) /\ xh_elf_init(l).table # NULL
<1> DEFINE start == [Cleared EXCEPT !.bias = l.base - FirstSegmentAt0(l).vaddr]
           s == ParseDynamic(l, start)
<1>1. TableOf(l, start)
      BY DEF TableOf, Cleared
<1>2. TableOf(l, s)
  <2> HIDE DEF start
  <2> QED
      BY <1>1, ParseDynamicKeeps
<1>3. xh_elf_init(l) = [Cleared EXCEPT !.err = TRUE] \/ (xh_elf_init(l) = s /\ ElfChecked(l, s))
      BY DEF xh_elf_init
<1>4. [Cleared EXCEPT !.err = TRUE].err
      BY DEF Cleared
<1> HIDE DEF s
<1> QED
    BY <1>2, <1>3, <1>4 DEF ElfChecked

\* An image that has been parsed has the hash table in use.
LookupInv ==
    /\ lib \in Libs
    /\ xpc \notin {"init", "failed"} => TableOf(lib, self) /\ self.table # NULL

\* Every step keeps it.
LEMMA LookupStep ==
    ASSUME LookupInv, [XhElfNext]_xvars
    PROVE  LookupInv'
<1>1. ASSUME Parse PROVE LookupInv'
  <2>1. PICK l \in Libs : l = lib
        BY DEF LookupInv
  <2>2. lib' = l /\ self' = xh_elf_init(l) /\ xpc' = (IF self'.err THEN "failed" ELSE "ready")
        BY <1>1, <2>1 DEF Parse
  <2> QED
      BY <2>2, ParsedTable DEF LookupInv
<1>2. ASSUME xpc \notin {"init", "failed"} \/ xpc' = xpc, UNCHANGED <<lib, self>>
      PROVE  LookupInv'
      BY <1>2 DEF LookupInv
<1>3. ASSUME NEW s \in HookSymbols, Hook(s) PROVE LookupInv'
      BY <1>2, <1>3 DEF Hook
<1>4. ASSUME VisitPlt \/ VisitDyn \/ VisitAndroid \/ HookReturn PROVE LookupInv'
      BY <1>2, <1>4 DEF VisitPlt, VisitDyn, VisitAndroid, HookReturn
<1>5. ASSUME UNCHANGED xvars PROVE LookupInv'
      BY <1>2, <1>5 DEF xvars
<1> QED
    BY <1>1, <1>3, <1>4, <1>5 DEF XhElfNext

\* For every image a static linker can write, whatever the order of its
\* DT_HASH and DT_GNU_HASH, however the names collide in the buckets, the
\* chains and the Bloom filter: the search finds each symbol, and no other.
THEOREM XhElfLookupExact == XhElfSpec => []LookupExact
<1>1. XhElfInit => LookupInv
      BY DEF XhElfInit, XhElfInitOf, LookupInv
<1>2. LookupInv /\ [XhElfNext]_xvars => LookupInv'
      BY LookupStep
<1>3. LookupInv => LookupExact
  <2> SUFFICES ASSUME LookupInv, xpc \in {"ready", "plt"}, NEW s \in DOMAIN Hash \ {NO_NAME}
               PROVE  xh_elf_find_symidx_by_name(lib, self, s) =
                        IF \E i \in 1 .. Len(lib.syms) - 1 : Name(lib.syms, i) = s
                        THEN CHOOSE i \in 1 .. Len(lib.syms) - 1 : Name(lib.syms, i) = s
                        ELSE NOTFND
      BY DEF LookupExact
  <2>1. lib \in Libs /\ TableOf(lib, self) /\ self.table # NULL
        BY DEF LookupInv
  <2>2. /\ \A i \in 1 .. Len(lib.syms) - 1 :
             Name(lib.syms, i) = s => xh_elf_find_symidx_by_name(lib, self, s) = i
        /\ (\A i \in 1 .. Len(lib.syms) - 1 : Name(lib.syms, i) # s)
             => xh_elf_find_symidx_by_name(lib, self, s) = NOTFND
        BY <2>1, SearchExact
  <2> QED
      BY <2>2
<1> QED
    BY <1>1, <1>2, <1>3, PTL DEF XhElfSpec

-----------------------------------------------------------------------------
(* XhElf: what a call leaves in memory. *)

\* What the dynamic section has given after n entries without an error: it has
\* not ended, or one of them ends it, and the tables and the entry size are
\* those that the entries in front of the end declare.
FlagNames == {"err", "end", "relplt", "reldyn", "relandroid", "is_use_rela"}
Flags(s) == FlagNames \subseteq DOMAIN s /\ \A f \in FlagNames : s[f] \in BOOLEAN
NoEnd(l, n) == \A j \in 1 .. n : l.dyn[j].tag # "NULL"
Found(l, n, tag) == \E i \in 1 .. n : l.dyn[i].tag = tag /\ NoEnd(l, i - 1)
ReadUpTo(l, s, n) ==
    /\ s.end <=> ~ NoEnd(l, n)
    /\ Found(l, n, "JMPREL") => s.relplt
    /\ Found(l, n, "REL") => s.reldyn
    /\ Found(l, n, "ANDROID_REL") <=> s.relandroid
    /\ s.is_use_rela <=> (Found(l, n, "PLTREL") /\ l.rela)

\* The flags one entry leaves.
LEMMA ParseDynFlags ==
    ASSUME NEW l \in Libs, NEW s, Flags(s), NEW d, d.tag = "PLTREL" => d.rela \in BOOLEAN,
           NEW r, r = ParseDyn(l, s, d)
    PROVE  /\ Flags(r)
           /\ s.err \/ s.end => r = s
           /\ ~ s.err /\ ~ s.end =>
                /\ r.end <=> d.tag = "NULL"
                /\ r.relplt <=> (s.relplt \/ d.tag = "JMPREL")
                /\ r.reldyn <=> (s.reldyn \/ d.tag = "REL")
                /\ r.relandroid <=> (s.relandroid \/ d.tag = "ANDROID_REL")
                /\ r.is_use_rela <=> (IF d.tag = "PLTREL" THEN d.rela ELSE s.is_use_rela)
<1>1. CASE s.err \/ s.end
  <2>1. r = s
        BY <1>1 DEF ParseDyn
  <2> QED
      BY <1>1, <2>1
<1>2. CASE ~ s.err /\ ~ s.end
  <2>1. PICK low \in BOOLEAN : low = (s.bias + d.ptr < l.base)
    <3>1. (s.bias + d.ptr < l.base) \in BOOLEAN
          OBVIOUS
    <3> QED
        BY <3>1, Zenon
  <2>2. ASSUME NEW f \in {"strtab", "symtab", "relplt", "reldyn", "relandroid"}, r = [s EXCEPT ![f] = TRUE, !.err = low]
        PROVE  /\ Flags(r) /\ r.end = s.end /\ r.is_use_rela = s.is_use_rela
               /\ \A g \in {"relplt", "reldyn", "relandroid"} : r[g] = IF g = f THEN TRUE ELSE s[g]
    <3>1. DOMAIN r = DOMAIN s /\ \A g \in DOMAIN s : r[g] = IF g = "err" THEN low ELSE IF g = f THEN TRUE ELSE s[g]
          BY <2>2
    <3>2. Flags(r)
          BY <3>1 DEF Flags, FlagNames
    <3> QED
        BY <3>1, <3>2 DEF Flags, FlagNames
  <2>3. ASSUME NEW T, r = [s EXCEPT !.table = T, !.err = low]
                      \/ r = [s EXCEPT !.table = T, !.is_use_gnu_hash = TRUE, !.err = low]
        PROVE  /\ Flags(r) /\ r.end = s.end /\ r.is_use_rela = s.is_use_rela
               /\ \A g \in {"relplt", "reldyn", "relandroid"} : r[g] = s[g]
    <3>1. /\ DOMAIN r = DOMAIN s
          /\ \A g \in FlagNames : r[g] = IF g = "err" THEN low ELSE s[g]
          BY <2>3 DEF Flags, FlagNames
    <3>2. Flags(r)
          BY <3>1 DEF Flags
    <3> QED
        BY <3>1, <3>2 DEF FlagNames
  <2>4. CASE d.tag = "NULL"
    <3>1. r = [s EXCEPT !.end = TRUE]
          BY <1>2, <2>4 DEF ParseDyn
    <3> QED
        BY <1>2, <2>4, <3>1 DEF Flags, FlagNames
  <2>5. CASE d.tag = "PLTREL"
    <3>1. r = [s EXCEPT !.is_use_rela = d.rela]
          BY <1>2, <2>5 DEF ParseDyn
    <3> QED
        BY <1>2, <2>5, <3>1 DEF Flags, FlagNames
  <2>6. CASE d.tag \in {"STRTAB", "SYMTAB", "JMPREL", "REL", "ANDROID_REL"}
    <3>1. PICK f : f = CASE d.tag = "STRTAB" -> "strtab" [] d.tag = "SYMTAB" -> "symtab"
                         [] d.tag = "JMPREL" -> "relplt" [] d.tag = "REL" -> "reldyn"
                         [] d.tag = "ANDROID_REL" -> "relandroid"
          OBVIOUS
    <3>2. /\ f \in {"strtab", "symtab", "relplt", "reldyn", "relandroid"}
          /\ f = "relplt" <=> d.tag = "JMPREL"
          /\ f = "reldyn" <=> d.tag = "REL"
          /\ f = "relandroid" <=> d.tag = "ANDROID_REL"
          BY <2>6, <3>1
    <3>3. r = [s EXCEPT ![f] = TRUE, !.err = low]
          BY <1>2, <2>1, <2>6, <3>1 DEF ParseDyn
    <3>4. /\ Flags(r) /\ r.end = s.end /\ r.is_use_rela = s.is_use_rela
          /\ \A g \in {"relplt", "reldyn", "relandroid"} : r[g] = IF g = f THEN TRUE ELSE s[g]
          BY <2>2, <3>2, <3>3
    <3>5. d.tag # "NULL" /\ d.tag # "PLTREL"
          BY <2>6
    <3> QED
        BY <1>2, <3>2, <3>4, <3>5
  <2>7. CASE d.tag \in {"HASH", "GNU_HASH"}
    <3>1. CASE d.tag = "HASH" /\ HashIgnored(s)
      <4>1. r = s
            BY <1>2, <3>1 DEF ParseDyn
      <4> QED
          BY <1>2, <3>1, <4>1
    <3>2. CASE ~ (d.tag = "HASH" /\ HashIgnored(s))
      <4>1. \E T : r = [s EXCEPT !.table = T, !.err = low]
                   \/ r = [s EXCEPT !.table = T, !.is_use_gnu_hash = TRUE, !.err = low]
            BY <1>2, <2>1, <2>7, <3>2 DEF ParseDyn
      <4>2. /\ Flags(r) /\ r.end = s.end /\ r.is_use_rela = s.is_use_rela
            /\ \A g \in {"relplt", "reldyn", "relandroid"} : r[g] = s[g]
            BY <2>3, <4>1
      <4> QED
          BY <1>2, <2>7, <4>2
    <3> QED
        BY <3>1, <3>2
  <2>8. CASE d.tag \notin {"NULL", "PLTREL", "STRTAB", "SYMTAB", "JMPREL", "REL", "ANDROID_REL", "HASH", "GNU_HASH"}
    <3>1. r = s
          BY <1>2, <2>8 DEF ParseDyn
    <3> QED
        BY <1>2, <2>8, <3>1
  <2> QED
      BY <2>4, <2>5, <2>6, <2>7, <2>8
<1> QED
    BY <1>1, <1>2

\* Reading one entry more.
LEMMA ReadNext ==
    ASSUME NEW l \in Libs, NEW n \in 1 .. Len(l.dyn), NEW s, Flags(s), ~ s.err => ReadUpTo(l, s, n - 1),
           NEW r, r = ParseDyn(l, s, l.dyn[n])
    PROVE  Flags(r) /\ (~ r.err => ReadUpTo(l, r, n))
<1>1. PICK d : d = l.dyn[n]
      OBVIOUS
<1>2. d.tag = "PLTREL" => d.rela = l.rela /\ d.rela \in BOOLEAN
      BY <1>1, RelocationTables
<1>3. /\ Flags(r)
      /\ s.err \/ s.end => r = s
      /\ ~ s.err /\ ~ s.end =>
           /\ r.end <=> d.tag = "NULL"
           /\ r.relplt <=> (s.relplt \/ d.tag = "JMPREL")
           /\ r.reldyn <=> (s.reldyn \/ d.tag = "REL")
           /\ r.relandroid <=> (s.relandroid \/ d.tag = "ANDROID_REL")
           /\ r.is_use_rela <=> (IF d.tag = "PLTREL" THEN d.rela ELSE s.is_use_rela)
      BY <1>1, <1>2, ParseDynFlags
<1>4. PICK N \in Nat : N = Len(l.dyn)
      BY TablesWritten
<1>5. n \in Nat /\ n - 1 \in Nat /\ \A i \in 1 .. n : i = n \/ i \in 1 .. n - 1
      BY <1>4
<1>6. NoEnd(l, n) <=> NoEnd(l, n - 1) /\ d.tag # "NULL"
      BY <1>1, <1>5 DEF NoEnd
<1>7. \A tag : Found(l, n, tag) <=> Found(l, n - 1, tag) \/ (d.tag = tag /\ NoEnd(l, n - 1))
  <2>1. n \in 1 .. n /\ \A i \in 1 .. n - 1 : i \in 1 .. n
        BY <1>5
  <2> QED
      BY <1>1, <1>5, <2>1 DEF Found
<1>8. ASSUME ~ r.err
      PROVE  ReadUpTo(l, r, n)
  <2>1. ~ s.err
        BY <1>3, <1>8
  <2>2. ReadUpTo(l, s, n - 1)
        BY <2>1
  <2>3. CASE s.end
        BY <1>3, <1>6, <1>7, <2>2, <2>3 DEF ReadUpTo
  <2>4. CASE ~ s.end
    <3>1. NoEnd(l, n - 1)
          BY <2>2, <2>4 DEF ReadUpTo
    <3>2. r.end <=> ~ NoEnd(l, n)
          BY <1>3, <1>6, <2>1, <2>4, <3>1
    <3>3. /\ Found(l, n, "JMPREL") => r.relplt
          /\ Found(l, n, "REL") => r.reldyn
          /\ Found(l, n, "ANDROID_REL") <=> r.relandroid
          BY <1>3, <1>7, <2>1, <2>2, <2>4, <3>1 DEF ReadUpTo
    <3>4. r.is_use_rela <=> (Found(l, n, "PLTREL") /\ l.rela)
          BY <1>2, <1>3, <1>7, <2>1, <2>2, <2>4, <3>1 DEF ReadUpTo
    <3> QED
        BY <3>2, <3>3, <3>4 DEF ReadUpTo
  <2> QED
      BY <2>3, <2>4
<1> QED
    BY <1>3, <1>8

\* What xh_elf_init has when it succeeds: every table the image has, and its
\* entry size where DT_PLTREL tells.
Parsed(l, s) ==
    /\ Flags(s)
    /\ l.relplt # <<>> => s.relplt
    /\ l.reldyn # <<>> => s.reldyn
    /\ l.packed # <<>> => s.relandroid
    /\ s.relandroid => Declares(l, "ANDROID_REL")
    /\ Declares(l, "PLTREL") => s.is_use_rela = l.rela
    /\ ~ l.rela => ~ s.is_use_rela

\* The dynamic section is read to its end.
LEMMA ParsedAll ==
    ASSUME NEW l \in Libs, ~ xh_elf_init(l).err
    PROVE  Parsed(l, xh_elf_init(l))
<1>1. PICK start, s : start = [Cleared EXCEPT !.bias = l.base - FirstSegmentAt0(l).vaddr]
                      /\ s = ParseDynamic(l, start)
      OBVIOUS
<1>2. PICK N \in Nat : N = Len(l.dyn)
      BY TablesWritten
<1>3. PICK f : /\ f[0] = start /\ s = f[N]
               /\ \A n \in 1 .. N : f[n] = ParseDyn(l, f[n - 1], l.dyn[n])
      BY <1>1, <1>2, ParseEntries
<1>4. Flags(start) /\ ReadUpTo(l, start, 0)
  <2>1. Flags(start) /\ ~ start.end /\ ~ start.relandroid /\ ~ start.is_use_rela
        BY <1>1 DEF Cleared, Flags, FlagNames
  <2>2. NoEnd(l, 0) /\ \A tag : ~ Found(l, 0, tag)
        BY DEF NoEnd, Found
  <2> QED
      BY <2>1, <2>2 DEF ReadUpTo
<1>5. \A n \in 0 .. N : Flags(f[n]) /\ (~ f[n].err => ReadUpTo(l, f[n], n))
  <2> DEFINE Good(n) == Flags(f[n]) /\ (~ f[n].err => ReadUpTo(l, f[n], n))
             Bad == {n \in 0 .. N : ~ Good(n)}
  <2> SUFFICES ASSUME Bad # {} PROVE FALSE
      OBVIOUS
  <2>1. PICK k \in Bad : \A j \in Bad : k <= j
    <3>1. Bad \subseteq Nat
          BY <1>2
    <3> HIDE DEF Bad
    <3> QED
        BY <3>1, LowestIn
  <2>2. k # 0
        BY <1>3, <1>4
  <2>3. k - 1 \in 0 .. N /\ k - 1 \notin Bad /\ k \in 1 .. Len(l.dyn)
        BY <1>2, <2>1, <2>2
  <2>4. Good(k - 1)
        BY <2>3
  <2>5. f[k] = ParseDyn(l, f[k - 1], l.dyn[k])
        BY <1>2, <1>3, <2>3
  <2>6. Good(k)
        BY <2>3, <2>4, <2>5, ReadNext
  <2> QED
      BY <2>6
<1>6. xh_elf_init(l) = s
  <2>1. xh_elf_init(l) = [Cleared EXCEPT !.err = TRUE] \/ xh_elf_init(l) = s
        BY <1>1 DEF xh_elf_init
  <2>2. [Cleared EXCEPT !.err = TRUE].err
        BY DEF Cleared
  <2> QED
      BY <2>1, <2>2
<1>7. Flags(s) /\ ReadUpTo(l, s, N)
      BY <1>2, <1>3, <1>5, <1>6
<1>8. \A tag : Declares(l, tag) <=> Found(l, N, tag)
      BY <1>2 DEF Declares, Found, NoEnd
<1>9. /\ l.relplt # <<>> => Declares(l, "JMPREL")
      /\ l.reldyn # <<>> => Declares(l, "REL")
      /\ l.packed # <<>> => Declares(l, "ANDROID_REL")
      /\ l.rela \in BOOLEAN
      BY RelocationTables
<1>10. Declares(l, "PLTREL") => s.is_use_rela = l.rela
  <2>1. s.is_use_rela \in BOOLEAN
        BY <1>7 DEF Flags, FlagNames
  <2> QED
      BY <1>7, <1>8, <1>9, <2>1 DEF ReadUpTo
<1> QED
    BY <1>6, <1>7, <1>8, <1>9, <1>10 DEF Parsed, ReadUpTo

\* The packed relocations of an image are those of its table, to an iterator
\* that knows the entry size: its[k] is where it stands in front of entry k.
Bytes(l) == SubSeq(l.android, 5, Len(l.android))
Decodes(l, its) ==
    /\ its[1] = PackedInit(Bytes(l))
    /\ \A k \in 1 .. Len(l.packed) :
         PackedNext(Bytes(l), l.rela, its[k]).cur = its[k + 1]
         /\ PackedNext(Bytes(l), l.rela, its[k]).entry = l.packed[k]
    /\ PackedNext(Bytes(l), l.rela, its[Len(l.packed) + 1]).entry = NULL
PackedWritten(l) ==
    Declares(l, "ANDROID_REL") => (l.rela => Declares(l, "PLTREL")) /\ \E its : Decodes(l, its)

\* Entry e is of symbol idx; of the entries S of a table, those that are have
\* the new function in memory m.
Of(e, idx, isPlt) ==
    /\ R_SYM(e.info) = idx
    /\ IF isPlt THEN R_TYPE(e.info) = JUMP_SLOT ELSE R_TYPE(e.info) \in {GLOB_DAT, ABS}
Done(T, S, m, idx, isPlt) == \A j \in S : j \in DOMAIN T /\ Of(T[j], idx, isPlt) => m[T[j].off] = "new_func"

\* Where the iterator over the packed relocations stands.
AndroidAt(l, it, m, idx) ==
    \E its : /\ Decodes(l, its)
             /\ \E k \in 1 .. Len(l.packed) + 1 : it = its[k] /\ Done(l.packed, 1 .. k - 1, m, idx, FALSE)

\* The symbol a call is about, and what it has done of each table.
Underway ==
    /\ xpc \in {"plt", "dyn", "android"} =>
         /\ target.name \in HookSymbols \ hooked /\ target.idx \in 1 .. Len(lib.syms) - 1
         /\ Name(lib.syms, target.idx) = target.name
    /\ xpc = "plt" =>
         iter \in 0 .. Len(lib.relplt) /\ (Fits => Done(lib.relplt, 2 .. iter + 1, mem, target.idx, TRUE))
    /\ xpc \in {"dyn", "android"} /\ Fits => Done(lib.relplt, 2 .. Len(lib.relplt), mem, target.idx, TRUE)
    /\ xpc = "dyn" =>
         iter \in 0 .. Len(lib.reldyn) /\ (Fits => Done(lib.reldyn, 2 .. iter + 1, mem, target.idx, FALSE))
    /\ xpc = "android" /\ Fits => Done(lib.reldyn, 2 .. Len(lib.reldyn), mem, target.idx, FALSE)
    /\ xpc = "android" /\ self.relandroid => AndroidAt(lib, iter, mem, target.idx)

\* The memory of an image, and the calls that have returned.
MemoryKept ==
    /\ DOMAIN mem = DOMAIN lib.mem
    /\ OthersUntouched
    /\ hooked \subseteq HookSymbols /\ PointersHooked
    /\ xpc \in {"init", "failed"} => hooked = {}
    /\ xpc \in {"init", "failed", "ready", "plt", "dyn", "android"}
    /\ xpc \notin {"init", "failed"} => Parsed(lib, self)

MemoryInv == XhElfInv /\ LookupInv /\ MemoryKept /\ Underway

\* What visiting entry e does to memory, and where it leaves the call.
Grown(e, isPlt) ==
    /\ DOMAIN mem' = DOMAIN mem
    /\ \A o \in DOMAIN mem :
         mem'[o] = mem[o] \/ (mem'[o] = "new_func" /\ o = e.off /\ Of(e, target.idx, isPlt))
Left(e, isPlt, cur, table, after) ==
    \/ xpc' = "ready"
    \/ ~ Of(e, target.idx, isPlt) /\ iter' = cur /\ xpc' = table
    \/ /\ e.off \in DOMAIN mem => mem'[e.off] = "new_func"
       /\ Of(e, target.idx, isPlt)
       /\ IF isPlt THEN iter' = 0 /\ xpc' = after ELSE iter' = cur /\ xpc' = table

\* xh_elf_find_and_replace_func.
LEMMA VisitEffect ==
    ASSUME NEW e, NEW isPlt, NEW cur, NEW table, NEW after, Visit(e, isPlt, cur, table, after)
    PROVE  Grown(e, isPlt) /\ Left(e, isPlt, cur, table, after)
<1>1. Matches(e, isPlt) <=> Of(e, target.idx, isPlt)
      BY DEF Matches, Of
<1>2. ASSUME Replace(e.off), Matches(e, isPlt)
      PROVE  Grown(e, isPlt) /\ (e.off \in DOMAIN mem => mem'[e.off] = "new_func")
  <2>1. CASE Pointer(e.off) = "new_func"
        BY <1>2, <2>1 DEF Replace, Pointer, Grown
  <2>2. CASE Pointer(e.off) # "new_func"
    <3>1. e.off \in DOMAIN mem /\ mem' = [mem EXCEPT ![e.off] = "new_func"]
          BY <1>2, <2>2 DEF Replace, Pointer
    <3> QED
        BY <1>1, <1>2, <3>1 DEF Grown
  <2> QED
      BY <2>1, <2>2
<1>3. ASSUME mem' = mem
      PROVE  Grown(e, isPlt)
      BY <1>3 DEF Grown
<1>4. CASE ~ Matches(e, isPlt) /\ iter' = cur /\ xpc' = table /\ mem' = mem
      BY <1>1, <1>3, <1>4 DEF Left
<1>5. CASE /\ Matches(e, isPlt) /\ Replace(e.off)
           /\ IF isPlt THEN iter' = 0 /\ xpc' = after ELSE iter' = cur /\ xpc' = table
      BY <1>1, <1>2, <1>5 DEF Left
<1>6. CASE xpc' = "ready" /\ mem' = mem
      BY <1>3, <1>6 DEF Left
<1> QED
    BY <1>4, <1>5, <1>6 DEF Visit, ReplaceFails

\* The parts of an entry.
LEMMA EntryParts ==
    ASSUME NEW D, NEW I, NEW T, T \in Seq([off : D, info : I]), NEW j \in DOMAIN T
    PROVE  T[j] \in [off : D, info : I] /\ T[j].off \in D /\ T[j].info \in I
<1>1. j \in 1 .. Len(T)
      OBVIOUS
<1>2. PICK E : E = [off : D, info : I]
      OBVIOUS
<1>3. T[j] \in E
      BY <1>1, <1>2, ElementOfSeq
<1> QED
    BY <1>2, <1>3

\* What is done stays done.
LEMMA DoneKept ==
    ASSUME NEW e, NEW isPlt, Grown(e, isPlt), NEW T, NEW I, NEW D, D = DOMAIN mem, T \in Seq([off : D, info : I]),
           NEW S, NEW idx, NEW p, Done(T, S, mem, idx, p)
    PROVE  Done(T, S, mem', idx, p)
<1> SUFFICES ASSUME NEW j \in S, j \in DOMAIN T, Of(T[j], idx, p)
             PROVE  mem'[T[j].off] = "new_func"
    BY DEF Done
<1>1. T[j].off \in DOMAIN mem
      BY EntryParts
<1>2. mem[T[j].off] = "new_func"
      BY DEF Done
<1> QED
    BY <1>1, <1>2 DEF Grown

\* One entry more is done.
LEMMA DoneMore ==
    ASSUME NEW T, NEW S, NEW R, NEW m, NEW idx, NEW p, Done(T, S, m, idx, p), NEW k, R \subseteq S \cup {k},
           k \in DOMAIN T /\ Of(T[k], idx, p) => m[T[k].off] = "new_func"
    PROVE  Done(T, R, m, idx, p)
BY DEF Done

\* An entry of a symbol describes a pointer of it.
LEMMA PointerOf ==
    ASSUME NEW T, NEW j \in DOMAIN T, NEW types, NEW s, NEW idx, R_SYM(T[j].info) = idx, idx < Len(lib.syms),
           Name(lib.syms, idx) = s, R_TYPE(T[j].info) \in types
    PROVE  T[j].off \in Pointers(T, s, types)
BY DEF Pointers

\* A step that visits an entry of the symbol, or one that is not of it, keeps
\* what memory has to be.
LEMMA VisitKept ==
    ASSUME MemoryInv, NEW e, NEW isPlt, Grown(e, isPlt),
           UNCHANGED <<lib, self, target, hooked>>, xpc \in {"plt", "dyn", "android"},
           xpc' \in {"ready", "plt", "dyn", "android"},
           Of(e, target.idx, isPlt) => e.off \in PltPointers(target.name) \cup DataPointers(target.name)
    PROVE  MemoryKept'
<1>1. lib' = lib /\ self' = self /\ hooked' = hooked
      OBVIOUS
<1>2. \A s : PltPointers(s)' = PltPointers(s) /\ DataPointers(s)' = DataPointers(s) /\ FirstPointers' = FirstPointers
      BY <1>1 DEF PltPointers, DataPointers, Pointers, FirstPointers
<1>3. DOMAIN mem' = DOMAIN lib'.mem
      BY <1>1 DEF Grown, MemoryInv, MemoryKept
<1>4. OthersUntouched'
  <2> SUFFICES ASSUME NEW o \in DOMAIN mem, mem'[o] # lib.mem[o]
               PROVE  \E s \in HookSymbols : o \in PltPointers(s) \cup DataPointers(s)
      BY <1>1, <1>2 DEF OthersUntouched, Grown
  <2>1. CASE mem'[o] = mem[o]
        BY <2>1 DEF MemoryInv, MemoryKept, OthersUntouched
  <2>2. CASE o = e.off /\ Of(e, target.idx, isPlt)
    <3>1. target.name \in HookSymbols
          BY DEF MemoryInv, Underway
    <3> QED
        BY <2>2, <3>1
  <2> QED
      BY <2>1, <2>2 DEF Grown
<1>5. PointersHooked'
  <2> SUFFICES ASSUME NEW s \in hooked, Fits,
                      NEW o \in (PltPointers(s) \cup DataPointers(s)) \ FirstPointers
               PROVE  mem'[o] = "new_func"
      BY <1>1, <1>2 DEF PointersHooked, Fits
  <2>1. mem[o] = "new_func"
        BY DEF MemoryInv, MemoryKept, PointersHooked
  <2>2. CASE o \in DOMAIN mem
        BY <2>1, <2>2 DEF Grown
  <2>3. o \in DOMAIN mem
    <3>1. PICK D : D = DOMAIN lib.mem
          OBVIOUS
    <3>2. {lib.relplt, lib.reldyn, lib.packed} \subseteq Seq([off : D, info : Nat])
          BY <3>1, RelocationTables DEF MemoryInv, LookupInv
    <3>3. \A T \in {lib.relplt, lib.reldyn, lib.packed} : \A j \in DOMAIN T : T[j].off \in D
      <4>1. \A T \in {lib.relplt, lib.reldyn, lib.packed} : T \in Seq([off : D, info : Nat])
            BY <3>2
      <4> QED
          BY <4>1, EntryParts
    <3>4. o \in D
      <4>1. \A T, t, types : o \in Pointers(T, t, types) => \E j \in DOMAIN T : o = T[j].off
            BY DEF Pointers
      <4>2. \E T \in {lib.relplt, lib.reldyn, lib.packed} : \E t, types : o \in Pointers(T, t, types)
            BY DEF PltPointers, DataPointers
      <4> QED
          BY <3>3, <4>1, <4>2, Zenon
    <3> QED
        BY <3>1, <3>4 DEF MemoryInv, MemoryKept
  <2> QED
      BY <2>2, <2>3
<1>6. hooked \subseteq HookSymbols /\ Parsed(lib, self)
      BY DEF MemoryInv, MemoryKept
<1> QED
    BY <1>1, <1>3, <1>4, <1>5, <1>6 DEF MemoryKept

\* The tables of the image.
LEMMA ImageTables ==
    ASSUME MemoryInv
    PROVE  /\ lib \in Libs
           /\ lib.relplt \in Seq([off : DOMAIN mem, info : Nat])
           /\ lib.reldyn \in Seq([off : DOMAIN mem, info : Nat])
           /\ lib.packed \in Seq([off : DOMAIN mem, info : Nat])
           /\ Len(lib.relplt) \in Nat /\ Len(lib.reldyn) \in Nat /\ Len(lib.packed) \in Nat
           /\ \A T \in {lib.relplt, lib.reldyn, lib.packed} : \A j \in DOMAIN T :
                T[j].off \in DOMAIN mem /\ T[j].info \in Nat /\ T[j] # NULL
<1>1. lib \in Libs /\ DOMAIN mem = DOMAIN lib.mem
      BY DEF MemoryInv, LookupInv, MemoryKept
<1>2. PICK D : D = DOMAIN mem
      OBVIOUS
<1>3. {lib.relplt, lib.reldyn, lib.packed} \subseteq Seq([off : D, info : Nat]) /\ NULL \notin [off : D, info : Nat]
      BY <1>1, <1>2, RelocationTables, HookedNames
<1>4. \A T \in {lib.relplt, lib.reldyn, lib.packed} : T \in Seq([off : D, info : Nat])
      BY <1>3
<1>5. \A T \in {lib.relplt, lib.reldyn, lib.packed} : \A j \in DOMAIN T :
        T[j].off \in D /\ T[j].info \in Nat /\ T[j] # NULL
  <2> SUFFICES ASSUME NEW T \in {lib.relplt, lib.reldyn, lib.packed}, NEW j \in DOMAIN T
               PROVE  T[j].off \in D /\ T[j].info \in Nat /\ T[j] # NULL
      OBVIOUS
  <2>1. T[j] \in [off : D, info : Nat] /\ T[j].off \in D /\ T[j].info \in Nat
        BY <1>4, EntryParts
  <2> QED
      BY <1>3, <2>1
<1>6. /\ lib.relplt \in Seq([off : D, info : Nat])
      /\ lib.reldyn \in Seq([off : D, info : Nat])
      /\ lib.packed \in Seq([off : D, info : Nat])
      BY <1>4
<1>7. Len(lib.relplt) \in Nat /\ Len(lib.reldyn) \in Nat /\ Len(lib.packed) \in Nat
      BY <1>6, LenProperties
<1> QED
    BY <1>1, <1>2, <1>5, <1>6, <1>7

\* A call begins, or ends at once with a symbol the image does not have: none
\* of its pointers is one of that symbol.
LEMMA HookKeeps ==
    ASSUME MemoryInv, NEW s \in HookSymbols, Hook(s)
    PROVE  MemoryKept' /\ Underway'
<1>1. PICK found : found = xh_elf_find_symidx_by_name(lib, self, s)
      OBVIOUS
<1>2. /\ xpc = "ready" /\ lib' = lib /\ self' = self /\ mem' = mem
      /\ IF found = NOTFND
         THEN hooked' = hooked \cup {s} /\ xpc' = xpc
         ELSE /\ target' = [name |-> s, idx |-> found] /\ xpc' = "plt" /\ iter' = 0
              /\ hooked' = hooked \ {s}
      BY <1>1 DEF Hook
<1>3. /\ lib \in Libs /\ TableOf(lib, self) /\ self.table # NULL
      /\ DOMAIN mem = DOMAIN lib.mem /\ OthersUntouched /\ hooked \subseteq HookSymbols
      /\ PointersHooked /\ Parsed(lib, self)
      BY <1>2 DEF MemoryInv, LookupInv, MemoryKept
<1>4. PICK N \in Nat \ {0} : N = Len(lib.syms) /\ Name(lib.syms, 0) = NO_NAME
      BY <1>3, ImageSymbols DEF SymbolTable, Name
<1>5. s \in DOMAIN Hash \ {NO_NAME}
      BY HookedNames
<1>6. /\ \A i \in 1 .. N - 1 : Name(lib.syms, i) = s => found = i
      /\ (\A i \in 1 .. N - 1 : Name(lib.syms, i) # s) => found = NOTFND
      BY <1>1, <1>3, <1>4, <1>5, SearchExact
<1>7. \A x : PltPointers(x)' = PltPointers(x) /\ DataPointers(x)' = DataPointers(x) /\ FirstPointers' = FirstPointers
      BY <1>2 DEF PltPointers, DataPointers, Pointers, FirstPointers
<1>8. Fits' <=> Fits
      BY <1>2 DEF Fits
<1>9. OthersUntouched'
      BY <1>2, <1>3, <1>7 DEF OthersUntouched
<1>10. CASE found = NOTFND
  <2>1. \A i \in 1 .. N - 1 : Name(lib.syms, i) # s
        BY <1>4, <1>6, <1>10, HashNumbers
  <2>2. PltPointers(s) = {} /\ DataPointers(s) = {}
    <3>1. ASSUME NEW T \in {lib.relplt, lib.reldyn, lib.packed}, NEW types
          PROVE  Pointers(T, s, types) = {}
      <4> SUFFICES ASSUME NEW j \in DOMAIN T, R_SYM(T[j].info) < Len(lib.syms),
                          Name(lib.syms, R_SYM(T[j].info)) = s
                   PROVE  FALSE
          BY DEF Pointers
      <4>1. PICK r \in Nat : r = R_SYM(T[j].info)
        <5>1. T[j].info \in Nat
              BY ImageTables
        <5> QED
            BY <5>1 DEF R_SYM
      <4>2. r = 0 \/ r \in 1 .. N - 1
            BY <1>4, <4>1
      <4> QED
          BY <1>4, <1>5, <2>1, <4>1, <4>2
    <3> QED
        BY <3>1 DEF PltPointers, DataPointers
  <2>3. PointersHooked'
        BY <1>2, <1>3, <1>7, <1>8, <1>10, <2>2 DEF PointersHooked
  <2> QED
      BY <1>2, <1>3, <1>9, <1>10, <2>3 DEF MemoryKept, Underway
<1>11. CASE found # NOTFND
  <2>1. PICK i \in 1 .. N - 1 : Name(lib.syms, i) = s /\ found = i
        BY <1>6, <1>11
  <2>2. PointersHooked'
        BY <1>2, <1>3, <1>7, <1>8, <1>11 DEF PointersHooked
  <2>3. MemoryKept'
        BY <1>2, <1>3, <1>9, <1>11, <2>2 DEF MemoryKept
  <2>4. /\ target'.name = s /\ target'.idx = i /\ xpc' = "plt" /\ iter' = 0 /\ s \notin hooked'
        BY <1>2, <1>11, <2>1
  <2>5. iter' \in 0 .. Len(lib'.relplt) /\ Done(lib'.relplt, 2 .. iter' + 1, mem', target'.idx, TRUE)
    <3>1. Len(lib'.relplt) \in Nat
          BY <1>2, ImageTables
    <3> QED
        BY <2>4, <3>1 DEF Done
  <2>6. target'.idx \in 1 .. Len(lib'.syms) - 1 /\ Name(lib'.syms, target'.idx) = target'.name
        BY <1>2, <1>4, <2>1, <2>4
  <2>7. Underway'
        BY <2>4, <2>5, <2>6 DEF Underway
  <2> QED
      BY <2>3, <2>7
<1> QED
    BY <1>10, <1>11

\* What the plain iterator returns.
LEMMA PlainEntry ==
    ASSUME NEW T, NEW N \in Nat, N = Len(T), NEW behind, NEW fits, NEW i \in 0 .. N,
           NEW e, e = PlainNext(T, behind, fits, i).entry, NEW cur, cur = PlainNext(T, behind, fits, i).cur
    PROVE  \/ i >= N /\ e = NULL
           \/ i + 1 < N /\ fits /\ e = T[i + 2] /\ cur = i + 1
           \/ i < N /\ ~ (i + 1 < N /\ fits) /\ e = behind /\ cur = i + 1
<1>1. CASE i >= N
      BY <1>1 DEF PlainNext
<1>2. CASE i < N /\ i + 1 < N /\ fits
      BY <1>2 DEF PlainNext
<1>3. CASE i < N /\ ~ (i + 1 < N /\ fits)
      BY <1>3 DEF PlainNext
<1> QED
    BY <1>1, <1>2, <1>3

\* .rel.plt, up to the first match: there is no second one.
LEMMA PltKeeps ==
    ASSUME MemoryInv, VisitPlt
    PROVE  MemoryKept' /\ Underway'
<1>1. /\ xpc = "plt" /\ lib' = lib /\ self' = self /\ target' = target /\ hooked' = hooked
      BY DEF VisitPlt
<1>2. PICK T, N, D, idx : T = lib.relplt /\ N = Len(T) /\ D = DOMAIN mem /\ idx = target.idx /\ N \in Nat
      BY ImageTables
<1>3. /\ T \in Seq([off : D, info : Nat]) /\ DOMAIN T = 1 .. N
      /\ \A j \in 1 .. N : T[j].off \in D /\ T[j].info \in Nat /\ T[j] # NULL
  <2>1. T \in Seq([off : D, info : Nat])
        BY <1>2, ImageTables
  <2>2. DOMAIN T = 1 .. N
        BY <1>2, <2>1
  <2> QED
      BY <1>2, <2>1, <2>2, ImageTables
<1>4. /\ target.name \in HookSymbols \ hooked /\ idx \in 1 .. Len(lib.syms) - 1
      /\ Name(lib.syms, idx) = target.name
      /\ iter \in 0 .. N /\ (Fits => Done(T, 2 .. iter + 1, mem, idx, TRUE))
      BY <1>1, <1>2 DEF MemoryInv, Underway
<1>5. PICK e, cur : /\ e = PlainNext(T, lib.behind.plt, Fits, iter).entry
                    /\ cur = PlainNext(T, lib.behind.plt, Fits, iter).cur
      OBVIOUS
<1>6. \/ iter >= N /\ e = NULL
      \/ iter + 1 < N /\ Fits /\ e = T[iter + 2] /\ cur = iter + 1
      \/ iter < N /\ ~ (iter + 1 < N /\ Fits) /\ e = lib.behind.plt /\ cur = iter + 1
      BY <1>2, <1>4, <1>5, PlainEntry
<1>7. Fits' <=> Fits
      BY <1>1 DEF Fits
<1>8. /\ \A i, j \in DOMAIN T : R_TYPE(T[i].info) = JUMP_SLOT /\ T[i].info = T[j].info => i = j
      /\ R_TYPE(lib.behind.plt.info) # JUMP_SLOT
      BY <1>2, RelocationTables DEF MemoryInv, LookupInv
<1>9. CASE self.relplt /\ e # NULL
  <2>1. Visit(e, TRUE, cur, "plt", "dyn")
        BY <1>2, <1>5, <1>9 DEF VisitPlt
  <2>2. Grown(e, TRUE) /\ Left(e, TRUE, cur, "plt", "dyn")
        BY <2>1, VisitEffect
  <2>3. Of(e, idx, TRUE) => /\ Fits /\ iter + 2 \in 2 .. N /\ e = T[iter + 2]
    <3>1. Of(e, idx, TRUE) => R_TYPE(e.info) = JUMP_SLOT
          BY DEF Of
    <3>2. iter + 1 < N => iter + 2 \in 2 .. N
          BY <1>2, <1>4
    <3> QED
        BY <1>6, <1>8, <1>9, <3>1, <3>2
  <2>4. Of(e, idx, TRUE) => e.off \in PltPointers(target.name)
    <3> SUFFICES ASSUME Of(e, idx, TRUE) PROVE e.off \in PltPointers(target.name)
        OBVIOUS
    <3>1. PICK k \in DOMAIN T : e = T[k]
          BY <1>3, <2>3
    <3>2. R_SYM(T[k].info) = idx /\ R_TYPE(T[k].info) \in {JUMP_SLOT} /\ idx < Len(lib.syms)
      <4>1. Len(lib.syms) \in Nat
            BY ImageSymbols DEF MemoryInv, LookupInv, SymbolTable
      <4> QED
          BY <1>4, <3>1, <4>1 DEF Of
    <3> QED
        BY <1>2, <1>4, <3>1, <3>2, PointerOf DEF PltPointers
  <2>5. xpc' \in {"ready", "plt", "dyn"}
        BY <2>2 DEF Left
  <2>6. MemoryKept'
        BY <1>1, <1>2, <2>2, <2>4, <2>5, VisitKept
  <2>7. CASE xpc' = "ready"
        BY <2>6, <2>7 DEF Underway
  <2>8. CASE ~ Of(e, idx, TRUE) /\ iter' = cur /\ xpc' = "plt"
    <3>1. iter < N /\ iter' = iter + 1 /\ iter' \in 0 .. N
          BY <1>2, <1>4, <1>6, <1>9, <2>8
    <3>2. ASSUME Fits PROVE Done(T, 2 .. iter' + 1, mem', idx, TRUE)
      <4>1. Done(T, 2 .. iter + 1, mem', idx, TRUE)
            BY <1>2, <1>3, <1>4, <2>2, <3>2, DoneKept
      <4>2. PICK k \in Nat : k = iter + 2
            BY <1>2, <1>4
      <4>3. 2 .. iter' + 1 \subseteq (2 .. iter + 1) \cup {k}
            BY <1>2, <1>4, <3>1, <4>2
      <4>4. k \in DOMAIN T => ~ Of(T[k], idx, TRUE)
        <5>1. k \in DOMAIN T => iter + 1 < N
              BY <1>2, <1>3, <1>4, <4>2
        <5>2. iter + 1 < N => e = T[k]
              BY <1>2, <1>4, <1>6, <3>2, <4>2
        <5> QED
            BY <2>8, <5>1, <5>2
      <4> QED
          BY <4>1, <4>3, <4>4, DoneMore
    <3> QED
        BY <1>1, <1>2, <1>4, <1>7, <2>6, <2>8, <3>1, <3>2 DEF Underway
  <2>9. CASE Of(e, idx, TRUE) /\ (e.off \in DOMAIN mem => mem'[e.off] = "new_func") /\ iter' = 0 /\ xpc' = "dyn"
    <3>1. PICK k \in DOMAIN T : e = T[k]
          BY <1>3, <2>3, <2>9
    <3>2. mem'[T[k].off] = "new_func"
          BY <1>2, <1>3, <2>9, <3>1
    <3>3. \A j \in DOMAIN T : Of(T[j], idx, TRUE) => j = k
      <4> SUFFICES ASSUME NEW j \in DOMAIN T, Of(T[j], idx, TRUE) PROVE j = k
          OBVIOUS
      <4>1. PICK a \in Nat, b \in Nat : a = T[k].info /\ b = T[j].info
            BY <1>3
      <4>2. a \div 4 = idx /\ b \div 4 = idx /\ a % 4 = 1 /\ b % 4 = 1
            BY <2>9, <3>1, <4>1 DEF Of, R_SYM, R_TYPE, JUMP_SLOT
      <4>3. a = b
            BY <4>2
      <4> QED
          BY <1>8, <4>1, <4>2, <4>3 DEF R_TYPE, JUMP_SLOT
    <3>4. Done(T, 2 .. N, mem', idx, TRUE)
          BY <3>2, <3>3 DEF Done
    <3>5. iter' \in 0 .. Len(lib'.reldyn) /\ Done(lib'.reldyn, 2 .. iter' + 1, mem', idx, FALSE)
      <4>1. Len(lib'.reldyn) \in Nat
            BY <1>1, ImageTables
      <4> QED
          BY <2>9, <4>1 DEF Done
    <3> QED
        BY <1>1, <1>2, <1>4, <2>6, <2>9, <3>4, <3>5 DEF Underway
  <2> QED
      BY <1>2, <2>2, <2>7, <2>8, <2>9 DEF Left
<1>10. CASE ~ (self.relplt /\ e # NULL)
  <2>1. xpc' = "dyn" /\ iter' = 0 /\ mem' = mem
        BY <1>2, <1>5, <1>10 DEF VisitPlt
  <2>3. Grown([off |-> NULL, info |-> 0], TRUE) /\ ~ Of([off |-> NULL, info |-> 0], idx, TRUE)
        BY <2>1 DEF Grown, Of, R_TYPE, JUMP_SLOT
  <2>4. MemoryKept'
    <3>1. PICK z : z = [off |-> NULL, info |-> 0]
          OBVIOUS
    <3>2. Grown(z, TRUE) /\ ~ Of(z, target.idx, TRUE)
          BY <1>2, <2>3, <3>1
    <3> QED
        BY <1>1, <2>1, <3>2, VisitKept
  <2>5. ASSUME Fits PROVE Done(T, 2 .. N, mem', idx, TRUE)
    <3>1. CASE ~ self.relplt
      <4>1. T = <<>>
            BY <1>1, <1>2, <3>1 DEF MemoryInv, MemoryKept, Parsed
      <4> QED
          BY <4>1 DEF Done
    <3>2. CASE e = NULL
      <4>1. ~ (iter + 1 < N)
        <5> SUFFICES ASSUME iter + 1 < N PROVE FALSE
            OBVIOUS
        <5>1. iter + 2 \in 1 .. N
              BY <1>2, <1>4
        <5>2. e = T[iter + 2]
              BY <1>2, <1>4, <1>6, <2>5
        <5> QED
            BY <1>3, <3>2, <5>1, <5>2
      <4>2. 2 .. N \subseteq 2 .. iter + 1
            BY <1>2, <1>4, <4>1
      <4> QED
          BY <1>4, <2>1, <2>5, <4>2 DEF Done
    <3> QED
        BY <1>10, <3>1, <3>2
  <2>6. iter' \in 0 .. Len(lib'.reldyn) /\ Done(lib'.reldyn, 2 .. iter' + 1, mem', idx, FALSE)
    <3>1. Len(lib'.reldyn) \in Nat
          BY <1>1, ImageTables
    <3> QED
        BY <2>1, <3>1 DEF Done
  <2> QED
      BY <1>1, <1>2, <1>4, <1>7, <2>1, <2>4, <2>5, <2>6 DEF Underway
<1> QED
    BY <1>9, <1>10

\* .rel.dyn, to its end.
LEMMA DynKeeps ==
    ASSUME MemoryInv, VisitDyn, PackedWritten(lib)
    PROVE  MemoryKept' /\ Underway'
<1>1. /\ xpc = "dyn" /\ lib' = lib /\ self' = self /\ target' = target /\ hooked' = hooked
      BY DEF VisitDyn
<1>2. PICK T, N, D, idx : T = lib.reldyn /\ N = Len(T) /\ D = DOMAIN mem /\ idx = target.idx /\ N \in Nat
      BY ImageTables
<1>3. /\ T \in Seq([off : D, info : Nat]) /\ DOMAIN T = 1 .. N
      /\ \A j \in 1 .. N : T[j].off \in D /\ T[j].info \in Nat /\ T[j] # NULL
  <2>1. T \in Seq([off : D, info : Nat])
        BY <1>2, ImageTables
  <2>2. DOMAIN T = 1 .. N
        BY <1>2, <2>1
  <2> QED
      BY <1>2, <2>1, <2>2, ImageTables
<1>4. /\ target.name \in HookSymbols \ hooked /\ idx \in 1 .. Len(lib.syms) - 1
      /\ Name(lib.syms, idx) = target.name
      /\ iter \in 0 .. N /\ (Fits => Done(T, 2 .. iter + 1, mem, idx, FALSE))
      /\ Fits => Done(lib.relplt, 2 .. Len(lib.relplt), mem, idx, TRUE)
      BY <1>1, <1>2 DEF MemoryInv, Underway
<1>5. PICK e, cur : /\ e = PlainNext(T, lib.behind.dyn, Fits, iter).entry
                    /\ cur = PlainNext(T, lib.behind.dyn, Fits, iter).cur
      OBVIOUS
<1>6. \/ iter >= N /\ e = NULL
      \/ iter + 1 < N /\ Fits /\ e = T[iter + 2] /\ cur = iter + 1
      \/ iter < N /\ ~ (iter + 1 < N /\ Fits) /\ e = lib.behind.dyn /\ cur = iter + 1
      BY <1>2, <1>4, <1>5, PlainEntry
<1>7. Fits' <=> Fits
      BY <1>1 DEF Fits
<1>8. R_TYPE(lib.behind.dyn.info) \notin {GLOB_DAT, ABS}
      BY RelocationTables DEF MemoryInv, LookupInv
<1>9. CASE self.reldyn /\ e # NULL
  <2>1. Visit(e, FALSE, cur, "dyn", NULL)
        BY <1>2, <1>5, <1>9 DEF VisitDyn
  <2>2. Grown(e, FALSE) /\ Left(e, FALSE, cur, "dyn", NULL)
        BY <2>1, VisitEffect
  <2>3. Of(e, idx, FALSE) => /\ Fits /\ iter + 2 \in 2 .. N /\ e = T[iter + 2]
    <3>1. Of(e, idx, FALSE) => R_TYPE(e.info) \in {GLOB_DAT, ABS}
          BY DEF Of
    <3>2. iter + 1 < N => iter + 2 \in 2 .. N
          BY <1>2, <1>4
    <3> QED
        BY <1>6, <1>8, <1>9, <3>1, <3>2
  <2>4. Of(e, idx, FALSE) => e.off \in DataPointers(target.name)
    <3> SUFFICES ASSUME Of(e, idx, FALSE) PROVE e.off \in DataPointers(target.name)
        OBVIOUS
    <3>1. PICK k \in DOMAIN T : e = T[k]
          BY <1>3, <2>3
    <3>2. R_SYM(T[k].info) = idx /\ R_TYPE(T[k].info) \in {GLOB_DAT, ABS} /\ idx < Len(lib.syms)
      <4>1. Len(lib.syms) \in Nat
            BY ImageSymbols DEF MemoryInv, LookupInv, SymbolTable
      <4> QED
          BY <1>4, <3>1, <4>1 DEF Of
    <3> QED
        BY <1>2, <1>4, <3>1, <3>2, PointerOf DEF DataPointers
  <2>5. xpc' \in {"ready", "dyn"}
        BY <2>2 DEF Left
  <2>6. MemoryKept'
        BY <1>1, <1>2, <2>2, <2>4, <2>5, VisitKept
  <2>7. CASE xpc' = "ready"
        BY <2>6, <2>7 DEF Underway
  <2>8. CASE xpc' = "dyn"
    <3>1. /\ iter' = cur
          /\ Of(e, idx, FALSE) /\ e.off \in DOMAIN mem => mem'[e.off] = "new_func"
          BY <1>2, <2>2, <2>8 DEF Left
    <3>2. iter < N /\ iter' = iter + 1 /\ iter' \in 0 .. N
          BY <1>2, <1>4, <1>6, <1>9, <3>1
    <3>3. ASSUME Fits PROVE Done(T, 2 .. iter' + 1, mem', idx, FALSE)
      <4>1. Done(T, 2 .. iter + 1, mem', idx, FALSE)
            BY <1>2, <1>3, <1>4, <2>2, <3>3, DoneKept
      <4>2. PICK k \in Nat : k = iter + 2
            BY <1>2, <1>4
      <4>3. 2 .. iter' + 1 \subseteq (2 .. iter + 1) \cup {k}
            BY <1>2, <1>4, <3>2, <4>2
      <4>4. k \in DOMAIN T /\ Of(T[k], idx, FALSE) => mem'[T[k].off] = "new_func"
        <5>1. k \in DOMAIN T => iter + 1 < N
              BY <1>2, <1>3, <1>4, <4>2
        <5>2. iter + 1 < N => e = T[k]
              BY <1>2, <1>4, <1>6, <3>3, <4>2
        <5>3. k \in DOMAIN T => T[k].off \in DOMAIN mem
              BY <1>2, <1>3
        <5> QED
            BY <3>1, <5>1, <5>2, <5>3
      <4> QED
          BY <4>1, <4>3, <4>4, DoneMore
    <3>4. ASSUME Fits PROVE Done(lib.relplt, 2 .. Len(lib.relplt), mem', idx, TRUE)
      <4>1. lib.relplt \in Seq([off : D, info : Nat])
            BY <1>2, ImageTables
      <4> QED
          BY <1>2, <1>4, <2>2, <3>4, <4>1, DoneKept
    <3> QED
        BY <1>1, <1>2, <1>4, <1>7, <2>6, <2>8, <3>2, <3>3, <3>4 DEF Underway
  <2> QED
      BY <2>5, <2>7, <2>8
<1>10. CASE ~ (self.reldyn /\ e # NULL)
  <2>1. /\ xpc' = "android" /\ mem' = mem
        /\ iter' = IF self.relandroid THEN PackedInit(Bytes(lib)) ELSE 0
        BY <1>2, <1>5, <1>10 DEF VisitDyn, Bytes
  <2>2. Grown([off |-> NULL, info |-> 0], TRUE) /\ ~ Of([off |-> NULL, info |-> 0], idx, TRUE)
        BY <2>1 DEF Grown, Of, R_TYPE, JUMP_SLOT
  <2>3. MemoryKept'
    <3>1. PICK z : z = [off |-> NULL, info |-> 0]
          OBVIOUS
    <3>2. Grown(z, TRUE) /\ ~ Of(z, target.idx, TRUE)
          BY <1>2, <2>2, <3>1
    <3> QED
        BY <1>1, <2>1, <3>2, VisitKept
  <2>4. ASSUME Fits PROVE Done(T, 2 .. N, mem', idx, FALSE)
    <3>1. CASE ~ self.reldyn
      <4>1. T = <<>>
            BY <1>1, <1>2, <3>1 DEF MemoryInv, MemoryKept, Parsed
      <4> QED
          BY <4>1 DEF Done
    <3>2. CASE e = NULL
      <4>1. ~ (iter + 1 < N)
        <5> SUFFICES ASSUME iter + 1 < N PROVE FALSE
            OBVIOUS
        <5>1. iter + 2 \in 1 .. N
              BY <1>2, <1>4
        <5>2. e = T[iter + 2]
              BY <1>2, <1>4, <1>6, <2>4
        <5> QED
            BY <1>3, <3>2, <5>1, <5>2
      <4>2. 2 .. N \subseteq 2 .. iter + 1
            BY <1>2, <1>4, <4>1
      <4> QED
          BY <1>4, <2>1, <2>4, <4>2 DEF Done
    <3> QED
        BY <1>10, <3>1, <3>2
  <2>5. ASSUME self.relandroid PROVE AndroidAt(lib, iter', mem', idx)
    <3>1. Declares(lib, "ANDROID_REL")
          BY <1>1, <2>5 DEF MemoryInv, MemoryKept, Parsed
    <3>2. PICK its : Decodes(lib, its)
          BY <3>1 DEF PackedWritten
    <3>3. iter' = its[1]
          BY <2>1, <2>5, <3>2 DEF Decodes
    <3>4. 1 \in 1 .. Len(lib.packed) + 1
          BY ImageTables
    <3>5. Done(lib.packed, 1 .. 1 - 1, mem', idx, FALSE)
          BY DEF Done
    <3> QED
        BY <3>2, <3>3, <3>4, <3>5 DEF AndroidAt
  <2> QED
      BY <1>1, <1>2, <1>4, <1>7, <2>1, <2>3, <2>4, <2>5 DEF Underway
<1> QED
    BY <1>9, <1>10

\* The iterator over packed relocations knows the entry size.
LEMMA SizeKnown ==
    ASSUME MemoryInv, PackedWritten(lib), xpc = "android", self.relandroid
    PROVE  self.is_use_rela = lib.rela /\ Fits
<1>1. Parsed(lib, self) /\ lib \in Libs
      BY DEF MemoryInv, MemoryKept, LookupInv
<1>2. lib.rela => Declares(lib, "PLTREL")
      BY <1>1 DEF Parsed, PackedWritten
<1>3. lib.rela \in BOOLEAN /\ self.is_use_rela \in BOOLEAN
      BY <1>1, RelocationTables DEF Parsed, Flags, FlagNames
<1>4. self.is_use_rela = lib.rela
      BY <1>1, <1>2, <1>3 DEF Parsed
<1> QED
    BY <1>4 DEF Fits

\* The packed relocations, to their end.
LEMMA AndroidKeeps ==
    ASSUME MemoryInv, VisitAndroid, PackedWritten(lib)
    PROVE  MemoryKept' /\ Underway'
<1>1. /\ xpc = "android" /\ self.relandroid
      /\ lib' = lib /\ self' = self /\ target' = target /\ hooked' = hooked
      BY DEF VisitAndroid
<1>2. PICK T, N, D, idx : T = lib.packed /\ N = Len(T) /\ D = DOMAIN mem /\ idx = target.idx /\ N \in Nat
      BY ImageTables
<1>3. /\ T \in Seq([off : D, info : Nat]) /\ DOMAIN T = 1 .. N
      /\ \A j \in 1 .. N : T[j].off \in D /\ T[j].info \in Nat /\ T[j] # NULL
  <2>1. T \in Seq([off : D, info : Nat])
        BY <1>2, ImageTables
  <2>2. DOMAIN T = 1 .. N
        BY <1>2, <2>1
  <2> QED
      BY <1>2, <2>1, <2>2, ImageTables
<1>4. /\ target.name \in HookSymbols \ hooked /\ idx \in 1 .. Len(lib.syms) - 1
      /\ Name(lib.syms, idx) = target.name
      /\ Fits => Done(lib.relplt, 2 .. Len(lib.relplt), mem, idx, TRUE)
      /\ Fits => Done(lib.reldyn, 2 .. Len(lib.reldyn), mem, idx, FALSE)
      /\ AndroidAt(lib, iter, mem, idx)
      BY <1>1, <1>2 DEF MemoryInv, Underway
<1>5. PICK its : /\ Decodes(lib, its)
                 /\ \E k \in 1 .. N + 1 : iter = its[k] /\ Done(T, 1 .. k - 1, mem, idx, FALSE)
      BY <1>2, <1>4 DEF AndroidAt
<1>6. PICK k \in 1 .. N + 1 : iter = its[k] /\ Done(T, 1 .. k - 1, mem, idx, FALSE)
      BY <1>5
<1>7. PICK e, cur : /\ e = PackedNext(Bytes(lib), lib.rela, its[k]).entry
                    /\ cur = PackedNext(Bytes(lib), lib.rela, its[k]).cur
      OBVIOUS
<1>8. e # NULL /\ Visit(e, FALSE, cur, "android", NULL)
  <2>1. self.is_use_rela = lib.rela
        BY <1>1, SizeKnown
  <2> QED
      BY <1>6, <1>7, <2>1 DEF VisitAndroid, Bytes
<1>9. k \in 1 .. N /\ e = T[k] /\ cur = its[k + 1]
  <2>1. k # N + 1
        BY <1>2, <1>5, <1>7, <1>8 DEF Decodes
  <2>2. k \in 1 .. N
        BY <1>2, <1>6, <2>1
  <2> QED
      BY <1>2, <1>5, <1>7, <2>2 DEF Decodes
<1>10. Grown(e, FALSE) /\ Left(e, FALSE, cur, "android", NULL)
      BY <1>8, VisitEffect
<1>11. Of(e, idx, FALSE) => e.off \in DataPointers(target.name)
  <2> SUFFICES ASSUME Of(e, idx, FALSE) PROVE e.off \in DataPointers(target.name)
      OBVIOUS
  <2>1. k \in DOMAIN T
        BY <1>3, <1>9
  <2>2. R_SYM(T[k].info) = idx /\ R_TYPE(T[k].info) \in {GLOB_DAT, ABS} /\ idx < Len(lib.syms)
    <3>1. Len(lib.syms) \in Nat
          BY ImageSymbols DEF MemoryInv, LookupInv, SymbolTable
    <3> QED
        BY <1>4, <1>9, <3>1 DEF Of
  <2> QED
      BY <1>2, <1>4, <1>9, <2>1, <2>2, PointerOf DEF DataPointers
<1>12. xpc' \in {"ready", "android"}
      BY <1>10 DEF Left
<1>13. MemoryKept'
      BY <1>1, <1>2, <1>10, <1>11, <1>12, VisitKept
<1>14. CASE xpc' = "ready"
      BY <1>13, <1>14 DEF Underway
<1>15. CASE xpc' = "android"
  <2>1. /\ iter' = cur
        /\ Of(e, idx, FALSE) /\ e.off \in DOMAIN mem => mem'[e.off] = "new_func"
        BY <1>2, <1>10, <1>15 DEF Left
  <2>2. Done(T, 1 .. k, mem', idx, FALSE)
    <3>1. Done(T, 1 .. k - 1, mem', idx, FALSE)
          BY <1>2, <1>3, <1>6, <1>10, DoneKept
    <3>2. 1 .. k \subseteq (1 .. k - 1) \cup {k}
          BY <1>2, <1>9
    <3>3. k \in DOMAIN T /\ Of(T[k], idx, FALSE) => mem'[T[k].off] = "new_func"
      <4>1. T[k].off \in DOMAIN mem
            BY <1>2, <1>3, <1>9
      <4> QED
          BY <1>9, <2>1, <4>1
    <3> QED
        BY <3>1, <3>2, <3>3, DoneMore
  <2>3. AndroidAt(lib, iter', mem', idx)
    <3>1. k + 1 \in 1 .. N + 1 /\ (k + 1) - 1 = k
          BY <1>2, <1>9
    <3>2. iter' = its[k + 1] /\ Done(lib.packed, 1 .. (k + 1) - 1, mem', idx, FALSE)
          BY <1>2, <1>9, <2>1, <2>2, <3>1
    <3> QED
        BY <1>2, <1>5, <3>1, <3>2 DEF AndroidAt
  <2>4. ASSUME Fits
        PROVE  /\ Done(lib.relplt, 2 .. Len(lib.relplt), mem', idx, TRUE)
               /\ Done(lib.reldyn, 2 .. Len(lib.reldyn), mem', idx, FALSE)
    <3>1. lib.relplt \in Seq([off : D, info : Nat]) /\ lib.reldyn \in Seq([off : D, info : Nat])
          BY <1>2, ImageTables
    <3>2. Done(lib.relplt, 2 .. Len(lib.relplt), mem', idx, TRUE)
          BY <1>2, <1>4, <1>10, <2>4, <3>1, DoneKept
    <3>3. Done(lib.reldyn, 2 .. Len(lib.reldyn), mem', idx, FALSE)
          BY <1>2, <1>4, <1>10, <2>4, <3>1, DoneKept
    <3> QED
        BY <3>2, <3>3
  <2>5. Fits' <=> Fits
        BY <1>1 DEF Fits
  <2> QED
      BY <1>1, <1>2, <1>4, <1>13, <1>15, <2>3, <2>4, <2>5 DEF Underway
<1> QED
    BY <1>12, <1>14, <1>15

\* A table in which the entries S are done has no pointer of the symbol left
\* that another entry describes.
LEMMA DonePointers ==
    ASSUME MemoryInv, xpc = "android", NEW T \in {lib.relplt, lib.reldyn, lib.packed}, NEW S, NEW isPlt,
           NEW types, types = IF isPlt THEN {JUMP_SLOT} ELSE {GLOB_DAT, ABS},
           Done(T, S, mem, target.idx, isPlt), NEW o \in Pointers(T, target.name, types),
           \A j \in DOMAIN T : j \in S \/ T[j].off # o
    PROVE  mem[o] = "new_func"
<1>1. PICK j \in DOMAIN T : /\ o = T[j].off /\ R_SYM(T[j].info) < Len(lib.syms)
                            /\ Name(lib.syms, R_SYM(T[j].info)) = target.name
                            /\ R_TYPE(T[j].info) \in types
      BY DEF Pointers
<1>2. /\ target.idx \in 1 .. Len(lib.syms) - 1 /\ Name(lib.syms, target.idx) = target.name
      BY DEF MemoryInv, Underway
<1>3. SymbolTable(lib.syms) /\ Len(lib.syms) \in Nat
      BY ImageSymbols DEF MemoryInv, LookupInv, SymbolTable
<1>4. PICK r \in Nat : r = R_SYM(T[j].info)
  <2>1. T[j].info \in Nat
        BY ImageTables
  <2> QED
      BY <2>1 DEF R_SYM
<1>5. r \in 0 .. Len(lib.syms) - 1 /\ target.idx \in 0 .. Len(lib.syms) - 1
      BY <1>1, <1>2, <1>3, <1>4
<1>6. r = target.idx
      BY <1>1, <1>2, <1>3, <1>4, <1>5, OneName
<1>7. Of(T[j], target.idx, isPlt)
      BY <1>1, <1>4, <1>6 DEF Of
<1>8. j \in S
      BY <1>1
<1> QED
    BY <1>1, <1>7, <1>8 DEF Done

\* A call returns 0.
LEMMA ReturnKeeps ==
    ASSUME MemoryInv, HookReturn, PackedWritten(lib)
    PROVE  MemoryKept' /\ Underway'
<1>1. /\ xpc = "android" /\ xpc' = "ready" /\ hooked' = hooked \cup {target.name}
      /\ lib' = lib /\ self' = self /\ mem' = mem
      BY DEF HookReturn
<1>2. PICK s : s = target.name
      OBVIOUS
<1>3. /\ s \in HookSymbols
      /\ Fits => Done(lib.relplt, 2 .. Len(lib.relplt), mem, target.idx, TRUE)
      /\ Fits => Done(lib.reldyn, 2 .. Len(lib.reldyn), mem, target.idx, FALSE)
      BY <1>1, <1>2 DEF MemoryInv, Underway
<1>4. /\ DOMAIN mem = DOMAIN lib.mem /\ OthersUntouched /\ hooked \subseteq HookSymbols
      /\ PointersHooked /\ Parsed(lib, self)
      BY <1>1 DEF MemoryInv, MemoryKept
<1>5. Len(lib.relplt) \in Nat /\ Len(lib.reldyn) \in Nat /\ Len(lib.packed) \in Nat
      /\ DOMAIN lib.relplt = 1 .. Len(lib.relplt) /\ DOMAIN lib.reldyn = 1 .. Len(lib.reldyn)
      /\ DOMAIN lib.packed = 1 .. Len(lib.packed)
  <2>1. /\ lib.relplt \in Seq([off : DOMAIN mem, info : Nat])
        /\ lib.reldyn \in Seq([off : DOMAIN mem, info : Nat])
        /\ lib.packed \in Seq([off : DOMAIN mem, info : Nat])
        BY ImageTables
  <2> QED
      BY <2>1, LenProperties
<1>6. ASSUME Fits, NEW o \in (PltPointers(s) \cup DataPointers(s)) \ FirstPointers
      PROVE  mem[o] = "new_func"
  <2>1. ASSUME NEW T \in {lib.relplt, lib.reldyn}, NEW j \in DOMAIN T, T[j].off = o
        PROVE  j \in 2 .. Len(T)
    <3>1. Len(T) \in Nat /\ DOMAIN T = 1 .. Len(T)
          BY <1>5
    <3>2. j # 1
          BY <1>6, <2>1, <3>1 DEF FirstPointers
    <3> QED
        BY <2>1, <3>1, <3>2
  <2>2. CASE o \in Pointers(lib.relplt, s, {JUMP_SLOT})
    <3>1. \A j \in DOMAIN lib.relplt : j \in 2 .. Len(lib.relplt) \/ lib.relplt[j].off # o
          BY <2>1
    <3>2. PICK T, S, b, types : T = lib.relplt /\ S = 2 .. Len(lib.relplt) /\ b = TRUE /\ types = {JUMP_SLOT}
          OBVIOUS
    <3>3. /\ T \in {lib.relplt, lib.reldyn, lib.packed}
          /\ types = IF b THEN {JUMP_SLOT} ELSE {GLOB_DAT, ABS}
          BY <3>2
    <3>4. Done(T, S, mem, target.idx, b) /\ o \in Pointers(T, target.name, types)
          BY <1>2, <1>3, <1>6, <2>2, <3>2
    <3>5. \A j \in DOMAIN T : j \in S \/ T[j].off # o
          BY <3>1, <3>2
    <3> QED
        BY <1>1, <3>3, <3>4, <3>5, DonePointers
  <2>3. CASE o \in Pointers(lib.reldyn, s, {GLOB_DAT, ABS})
    <3>1. \A j \in DOMAIN lib.reldyn : j \in 2 .. Len(lib.reldyn) \/ lib.reldyn[j].off # o
          BY <2>1
    <3>2. PICK T, S, b, types : T = lib.reldyn /\ S = 2 .. Len(lib.reldyn) /\ b = FALSE /\ types = {GLOB_DAT, ABS}
          OBVIOUS
    <3>3. /\ T \in {lib.relplt, lib.reldyn, lib.packed}
          /\ types = IF b THEN {JUMP_SLOT} ELSE {GLOB_DAT, ABS}
          BY <3>2
    <3>4. Done(T, S, mem, target.idx, b) /\ o \in Pointers(T, target.name, types)
          BY <1>2, <1>3, <1>6, <2>3, <3>2
    <3>5. \A j \in DOMAIN T : j \in S \/ T[j].off # o
          BY <3>1, <3>2
    <3> QED
        BY <1>1, <3>3, <3>4, <3>5, DonePointers
  <2>4. CASE o \in Pointers(lib.packed, s, {GLOB_DAT, ABS})
    <3>1. lib.packed # <<>>
          BY <2>4 DEF Pointers
    <3>2. self.relandroid
          BY <1>4, <3>1 DEF Parsed
    <3>3. PICK its, k : /\ Decodes(lib, its) /\ k \in 1 .. Len(lib.packed) + 1 /\ iter = its[k]
                        /\ Done(lib.packed, 1 .. k - 1, mem, target.idx, FALSE)
          BY <1>1, <3>2 DEF MemoryInv, Underway, AndroidAt
    <3>4. PackedNext(Bytes(lib), lib.rela, its[k]).entry = NULL
      <4>1. self.is_use_rela = lib.rela
            BY <1>1, <3>2, SizeKnown
      <4> QED
          BY <3>2, <3>3, <4>1 DEF HookReturn, Bytes
    <3>5. k = Len(lib.packed) + 1
      <4> SUFFICES ASSUME k # Len(lib.packed) + 1 PROVE FALSE
          OBVIOUS
      <4>1. k \in 1 .. Len(lib.packed)
            BY <1>5, <3>3
      <4>2. lib.packed[k] = NULL
            BY <3>3, <3>4, <4>1 DEF Decodes
      <4>3. lib.packed[k] # NULL
            BY <1>5, <4>1, ImageTables
      <4> QED
          BY <4>2, <4>3
    <3>6. \A j \in DOMAIN lib.packed : j \in 1 .. k - 1
          BY <1>5, <3>5
    <3> QED
        BY <1>1, <1>2, <2>4, <3>3, <3>6, DonePointers
  <2> QED
      BY <1>6, <2>2, <2>3, <2>4 DEF PltPointers, DataPointers
<1>7. \A x : PltPointers(x)' = PltPointers(x) /\ DataPointers(x)' = DataPointers(x) /\ FirstPointers' = FirstPointers
      BY <1>1 DEF PltPointers, DataPointers, Pointers, FirstPointers
<1>8. OthersUntouched'
      BY <1>1, <1>4, <1>7 DEF OthersUntouched
<1>9. PointersHooked'
  <2>1. Fits' <=> Fits
        BY <1>1 DEF Fits
  <2>2. ASSUME NEW x \in hooked', Fits,
               NEW o \in (PltPointers(x) \cup DataPointers(x)) \ FirstPointers
        PROVE  mem[o] = "new_func"
    <3>1. CASE x = s
          BY <1>6, <2>2, <3>1
    <3>2. CASE x \in hooked
          BY <1>4, <2>2, <3>2 DEF PointersHooked
    <3> QED
        BY <1>1, <1>2, <3>1, <3>2
  <2> QED
      BY <1>1, <1>7, <2>1, <2>2 DEF PointersHooked
<1>10. hooked' \subseteq HookSymbols
      BY <1>1, <1>2, <1>3, <1>4
<1> QED
    BY <1>1, <1>4, <1>8, <1>9, <1>10 DEF MemoryKept, Underway

\* The dynamic section has been read.
LEMMA ParseKeeps ==
    ASSUME MemoryInv, Parse
    PROVE  MemoryKept' /\ Underway'
<1>1. PICK l \in Libs : l = lib
      BY DEF MemoryInv, LookupInv
<1>2. /\ xpc = "init" /\ lib' = l /\ self' = xh_elf_init(l)
      /\ xpc' = (IF self'.err THEN "failed" ELSE "ready")
      /\ mem' = mem /\ hooked' = hooked /\ lib = l
      BY <1>1 DEF Parse
<1>3. /\ hooked = {} /\ DOMAIN mem = DOMAIN l.mem /\ OthersUntouched
      BY <1>2 DEF MemoryInv, MemoryKept
<1>4. xpc' \in {"failed", "ready"} /\ (xpc' = "ready" => Parsed(l, self'))
      BY <1>2, ParsedAll
<1>5. OthersUntouched'
  <2>1. \A x : PltPointers(x)' = PltPointers(x) /\ DataPointers(x)' = DataPointers(x)
        BY <1>2 DEF PltPointers, DataPointers, Pointers
  <2> QED
      BY <1>2, <1>3, <2>1 DEF OthersUntouched
<1>6. hooked' = {} /\ PointersHooked'
      BY <1>2, <1>3 DEF PointersHooked
<1> QED
    BY <1>2, <1>3, <1>4, <1>5, <1>6 DEF MemoryKept, Underway

\* Every step keeps the invariant.
LEMMA MemoryStep ==
    ASSUME MemoryInv, [XhElfNext]_xvars, PackedWritten(lib)
    PROVE  MemoryInv'
<1>1. XhElfInv' /\ LookupInv'
      BY XhElfStep, LookupStep DEF MemoryInv, LookupInv
<1>2. ASSUME Parse PROVE MemoryKept' /\ Underway'
      BY <1>2, ParseKeeps
<1>3. ASSUME NEW s \in HookSymbols, Hook(s) PROVE MemoryKept' /\ Underway'
      BY <1>3, HookKeeps
<1>4. ASSUME VisitPlt PROVE MemoryKept' /\ Underway'
      BY <1>4, PltKeeps
<1>5. ASSUME VisitDyn PROVE MemoryKept' /\ Underway'
      BY <1>5, DynKeeps
<1>6. ASSUME VisitAndroid PROVE MemoryKept' /\ Underway'
      BY <1>6, AndroidKeeps
<1>7. ASSUME HookReturn PROVE MemoryKept' /\ Underway'
      BY <1>7, ReturnKeeps
<1>8. ASSUME UNCHANGED xvars PROVE MemoryKept' /\ Underway'
  <2>1. MemoryKept'
        BY <1>8
        DEF MemoryInv, MemoryKept, OthersUntouched, PointersHooked, Fits,
            FirstPointers,
                    PltPointers, DataPointers, Pointers, xvars
  <2>2. Underway'
        BY <1>8 DEF MemoryInv, Underway, Fits, xvars
  <2> QED
      BY <2>1, <2>2
<1> QED
    BY <1>1, <1>2, <1>3, <1>4, <1>5, <1>6, <1>7, <1>8 DEF XhElfNext, MemoryInv

\* For every image, however often xh_elf_hook is called and wherever a call
\* fails: a call that returned 0 has replaced every pointer to the symbol that
\* the first entry of a plain table does not describe, no other pointer has
\* changed, and every page has its protection back.  An image with packed
\* relocations is one whose bytes the code's iterator reads as its table.
THEOREM XhElfMemoryExact == XhElfSpec => [](PackedWritten(lib) => MemoryExact)
<1> DEFINE Inv == PackedWritten(lib) => MemoryInv
<1>1. XhElfInit => Inv
  <2> SUFFICES ASSUME XhElfInit PROVE MemoryInv
      OBVIOUS
  <2>1. lib \in Libs /\ mem = lib.mem /\ hooked = {} /\ xpc = "init"
        BY DEF XhElfInit, XhElfInitOf
  <2>2. MemoryKept /\ Underway
        BY <2>1 DEF MemoryKept, Underway, OthersUntouched, PointersHooked
  <2> QED
      BY <2>1, <2>2, XhElfStart DEF MemoryInv, LookupInv
<1>2. Inv /\ [XhElfNext]_xvars => Inv'
  <2> SUFFICES ASSUME Inv, [XhElfNext]_xvars, PackedWritten(lib)' PROVE MemoryInv'
      OBVIOUS
  <2>1. lib' = lib
        BY DEF XhElfNext, Parse, Hook, VisitPlt, VisitDyn, VisitAndroid,
               HookReturn, xvars
  <2>2. PackedWritten(lib)
        BY <2>1
  <2> QED
      BY <2>2, MemoryStep
<1>3. Inv => (PackedWritten(lib) => MemoryExact)
      BY DEF MemoryInv, MemoryKept, XhElfInv, MemoryExact
<1> QED
    BY <1>1, <1>2, <1>3, PTL DEF XhElfSpec

-----------------------------------------------------------------------------
(* Xdl: the answers. *)

\* The names of .dynsym are a symbol table with both hash tables.
LEMMA DynTables ==
    ASSUME NEW e \in LoadedElfs, NEW y, y = Names(e.dyn), NEW o, o = e.gnu.symoffset
    PROVE  /\ SymbolTable(y) /\ y[1] = NO_NAME
           /\ DOMAIN e.dyn = 1 .. Len(y) /\ \A i \in DOMAIN e.dyn : Name(y, i - 1) = e.dyn[i].name
           /\ o \in 1 .. Len(y)
           /\ \E B \in Nat \ {0}, W \in Nat \ {0}, sh \in Nat :
                GnuOrdered(y, o, B) /\ e.gnu = GnuTable(y, o, B, W, sh)
           /\ \E B \in Nat \ {0} : e.sysv = SysvTable(y, B)
<1>1. Written(y, e.gnu, e.sysv)
      BY DynsymWritten
<1>2. /\ y \in Seq(DOMAIN Hash) /\ Len(y) >= 1 /\ y[1] = NO_NAME
      /\ \A i, j \in DOMAIN y : y[i] = y[j] => i = j
      /\ o \in 1 .. Len(y) /\ e.gnu.bloom_shift \in Nat
      /\ {e.gnu.bucket_cnt, e.gnu.bloom_sz, e.sysv.bucket_cnt} \subseteq Nat \ {0}
      BY <1>1, Zenon DEF Written
<1>3. /\ GnuOrdered(y, o, e.gnu.bucket_cnt)
      /\ e.gnu = GnuTable(y, o, e.gnu.bucket_cnt, e.gnu.bloom_sz, e.gnu.bloom_shift)
      /\ e.sysv = SysvTable(y, e.sysv.bucket_cnt)
      BY <1>1, Zenon DEF Written
<1>4. PICK B \in Nat \ {0}, W \in Nat \ {0}, sh \in Nat, C \in Nat \ {0} :
        B = e.gnu.bucket_cnt /\ W = e.gnu.bloom_sz /\ sh = e.gnu.bloom_shift /\ C = e.sysv.bucket_cnt
      BY <1>2
<1>5. DOMAIN y = DOMAIN e.dyn /\ \A i \in DOMAIN e.dyn : y[i] = e.dyn[i].name
      BY DEF Names
<1>6. DOMAIN y = 1 .. Len(y) /\ Len(y) \in Nat
      BY <1>2
<1>7. \A i \in DOMAIN e.dyn : Name(y, i - 1) = e.dyn[i].name
      BY <1>5, <1>6 DEF Name
<1>8. SymbolTable(y)
      BY <1>2 DEF SymbolTable
<1>9. GnuOrdered(y, o, B) /\ e.gnu = GnuTable(y, o, B, W, sh) /\ e.sysv = SysvTable(y, C)
      BY <1>3, <1>4, Zenon
<1> QED
    BY <1>2, <1>5, <1>6, <1>7, <1>8, <1>9, Zenon

\* The chains of .gnu.hash have all defined symbols of .dynsym, and .hash
\* counts them.
LEMMA SeenAll ==
    ASSUME NEW e \in LoadedElfs
    PROVE  /\ \A i \in Seen(e) : i \in Nat /\ i + 1 \in DOMAIN e.dyn
           /\ \A i \in DOMAIN e.dyn : i \in Nat /\ (~ e.dyn[i].undef => i - 1 \in Seen(e))
<1>1. PICK y : y = Names(e.dyn)
      OBVIOUS
<1>2. PICK o : o = e.gnu.symoffset
      OBVIOUS
<1>3. PICK N \in Nat : N = Len(y)
      BY <1>1, <1>2, DynTables DEF SymbolTable
<1>4. DOMAIN e.dyn = 1 .. N /\ o \in 1 .. N /\ SymbolTable(y)
      BY <1>1, <1>2, <1>3, DynTables
<1>5. CASE "GNU_HASH" \in e.tags
  <2>1. PICK B \in Nat \ {0}, W \in Nat \ {0}, sh \in Nat :
          GnuOrdered(y, o, B) /\ e.gnu = GnuTable(y, o, B, W, sh)
        BY <1>1, <1>2, DynTables
  <2>2. PICK t : t = e.gnu
        OBVIOUS
  <2>3. GnuLike(t, GnuTable(y, o, B, W, sh)) /\ t.symoffset = o
        BY <1>2, <2>1, <2>2 DEF GnuLike
  <2>4. DOMAIN t.bucket = 0 .. B - 1 /\ DOMAIN t.chain = 0 .. N - 1 - o
        BY <1>3, <2>1, <2>2 DEF GnuTable
  <2>5. \A b : Bucket(t, b) \subseteq 0 .. N - 1 - o
        BY <2>4 DEF Bucket
  <2>6. Seen(e) = {i + o : i \in UNION {Bucket(t, b) : b \in 0 .. B - 1}}
        BY <1>2, <1>5, <2>2, <2>4 DEF Seen
  <2>7. \A i \in Seen(e) : i \in Nat /\ i + 1 \in 1 .. N
        BY <1>3, <1>4, <2>5, <2>6
  <2>a. \A i \in o .. N - 1 :
          /\ Hash[Name(y, i)] % B \in 0 .. B - 1
          /\ t.bucket[Hash[Name(y, i)] % B] \in o .. i
          /\ \A j \in t.bucket[Hash[Name(y, i)] % B] .. i - 1 : LowBit(t.chain[j - o]) = 0
    <3>1. o \in 1 .. Len(y)
          BY <1>3, <1>4
    <3> QED
        BY <1>3, <1>4, <2>1, <2>3, <3>1, GnuChain
  <2>8. ASSUME NEW i \in DOMAIN e.dyn, ~ e.dyn[i].undef
        PROVE  i - 1 \in Seen(e)
    <3>1. PICK n : n = i - 1
          OBVIOUS
    <3>2. n \in o .. N - 1
          BY <1>2, <1>4, <2>8, <3>1, DynsymWritten
    <3>3. PICK b : b = Hash[Name(y, n)] % B
          OBVIOUS
    <3>4. /\ b \in 0 .. B - 1 /\ t.bucket[b] \in o .. n
          /\ \A j \in t.bucket[b] .. n - 1 : LowBit(t.chain[j - o]) = 0
          BY <2>a, <3>2, <3>3
    <3>5. PICK k : k = n - o
          OBVIOUS
    <3>6. k \in 0 .. N - 1 - o /\ k + o = n /\ k + o - 1 = n - 1
          BY <1>4, <3>2, <3>5
    <3>7. k \in Bucket(t, b)
      <4>1. ~ t.bucket[b] < t.symoffset
            BY <1>4, <2>3, <3>4
      <4>2. k + t.symoffset >= t.bucket[b]
            BY <1>4, <2>3, <3>4, <3>6
      <4>3. \A j \in t.bucket[b] .. k + t.symoffset - 1 : LowBit(t.chain[j - t.symoffset]) = 0
            BY <2>3, <3>4, <3>6, Zenon
      <4> QED
          BY <2>4, <3>6, <4>1, <4>2, <4>3 DEF Bucket
    <3> QED
        BY <2>6, <3>1, <3>4, <3>6, <3>7
  <2> QED
      BY <1>4, <2>7, <2>8
<1>6. CASE "GNU_HASH" \notin e.tags
  <2>1. PICK B \in Nat \ {0} : e.sysv = SysvTable(y, B)
        BY <1>1, <1>2, DynTables
  <2>2. e.sysv.chain_cnt = N
        BY <1>3, <2>1 DEF SysvTable
  <2>3. Seen(e) = 0 .. N - 1
        BY <1>6, <2>2 DEF Seen
  <2> QED
      BY <1>4, <2>3
<1> QED
    BY <1>5, <1>6

\* xdl_sym_by_addr with .dynsym: a symbol around the offset, if one is.
LEMMA SymByAddrExact ==
    ASSUME NEW e \in LoadedElfs, NEW off
    PROVE  /\ SymByAddr(e, off) # NONE => Within(SymByAddr(e, off), off)
           /\ SymByAddr(e, off) = NONE =>
                \A i \in DOMAIN e.dyn : e.dyn[i].undef \/ ~ Within(e.dyn[i], off)
<1> DEFINE Hits == {i \in Seen(e) : Within(e.dyn[i + 1], off)}
           s == SymByAddr(e, off)
<1>1. s = IF Hits = {} THEN NONE ELSE e.dyn[Min(Hits) + 1]
      BY DEF SymByAddr
<1>2. /\ \A i \in Seen(e) : i \in Nat /\ i + 1 \in DOMAIN e.dyn
      /\ \A i \in DOMAIN e.dyn : i \in Nat /\ (~ e.dyn[i].undef => i - 1 \in Seen(e))
      BY SeenAll
<1>3. CASE Hits = {}
  <2>1. s = NONE
        BY <1>1, <1>3
  <2>2. ASSUME NEW i \in DOMAIN e.dyn, ~ e.dyn[i].undef
        PROVE  ~ Within(e.dyn[i], off)
    <3>1. i - 1 \in Seen(e) /\ i - 1 + 1 = i
          BY <1>2, <2>2
    <3> QED
        BY <1>3, <3>1
  <2> QED
      BY <2>1, <2>2
<1>4. CASE Hits # {}
  <2>1. Hits \subseteq Nat
        BY <1>2
  <2>2. PICK m \in Hits : m = Min(Hits)
    <3> HIDE DEF Hits
    <3> QED
        BY <1>4, <2>1, LowestIn
  <2>3. s = e.dyn[m + 1] /\ Within(e.dyn[m + 1], off) /\ e.dyn[m + 1] # NONE
        BY <1>1, <1>2, <1>4, <2>2, DynsymWritten
  <2> QED
      BY <2>3
<1> QED
    BY <1>3, <1>4

\* xdl_dsym_by_addr: a symbol of .symtab around the offset.
LEMMA DsymByAddrExact ==
    ASSUME NEW tab \in Tables \ {NONE}, NEW off, DsymByAddr(tab, off) # NONE
    PROVE  Within(DsymByAddr(tab, off), off)
<1> DEFINE I == {i \in 1 .. Len(tab) : Within(tab[i], off)}
           m == IF I # {} THEN Min(I) ELSE 0
<1>1. DsymByAddr(tab, off) = IF m = 0 THEN NONE ELSE tab[m]
      BY DEF DsymByAddr, SelectInSeq
<1>2. Len(tab) \in Nat
      BY NoneApart DEF Tables
<1>3. I # {} => Min(I) \in I
  <2>1. I \subseteq Nat
        BY <1>2
  <2> HIDE DEF I
  <2> QED
      BY <2>1, LowestIn
<1>4. m # 0
      BY <1>1
<1>5. m \in I
      BY <1>3, <1>4
<1> QED
    BY <1>1, <1>4, <1>5

\* xdl_dynsym_find: the defined symbol of that name, and no other name.
LEMMA DynFindExact ==
    ASSUME NEW e \in LoadedElfs, DynLoads(e), NEW name \in SymNames, NEW r, r = xdl_dynsym_find(e, name)
    PROVE  /\ \A k \in DOMAIN e.dyn : e.dyn[k].name = name /\ ~ e.dyn[k].undef => r = k - 1 /\ r \in Nat
           /\ r # NOTFND => r + 1 \in DOMAIN e.dyn /\ e.dyn[r + 1].name = name
<1>1. PICK y : y = Names(e.dyn)
      OBVIOUS
<1>2. PICK o : o = e.gnu.symoffset
      OBVIOUS
<1>3. PICK N \in Nat : N = Len(y)
      BY <1>1, <1>2, DynTables DEF SymbolTable
<1>4. /\ DOMAIN e.dyn = 1 .. N /\ o \in 1 .. N /\ SymbolTable(y) /\ o \in 1 .. Len(y)
      /\ \A i \in DOMAIN e.dyn : Name(y, i - 1) = e.dyn[i].name
      BY <1>1, <1>2, <1>3, DynTables
<1>5. name \in DOMAIN Hash
      BY DynsymWritten
<1>6. PICK g : g = IF "GNU_HASH" \in e.tags THEN GnuFind(e.gnu, y, name) ELSE NOTFND
      OBVIOUS
<1>7. PICK s : s = SysvFind(e.sysv, y, name)
      OBVIOUS
<1>8. r = IF g = NOTFND /\ "HASH" \in e.tags THEN s ELSE g
      BY <1>1, <1>6, <1>7 DEF xdl_dynsym_find
<1>9. "GNU_HASH" \in e.tags => /\ \A i \in o .. N - 1 : Name(y, i) = name => g = i
                               /\ (\A i \in o .. N - 1 : Name(y, i) # name) => g = NOTFND
  <2> SUFFICES ASSUME "GNU_HASH" \in e.tags
               PROVE  /\ \A i \in o .. N - 1 : Name(y, i) = name => g = i
                      /\ (\A i \in o .. N - 1 : Name(y, i) # name) => g = NOTFND
      OBVIOUS
  <2>1. PICK B \in Nat \ {0}, W \in Nat \ {0}, sh \in Nat :
          GnuOrdered(y, o, B) /\ e.gnu = GnuTable(y, o, B, W, sh)
        BY <1>1, <1>2, DynTables
  <2>2. GnuLike(e.gnu, GnuTable(y, o, B, W, sh))
        BY <2>1 DEF GnuLike
  <2> QED
      BY <1>3, <1>4, <1>5, <1>6, <2>1, <2>2, GnuFindExact
<1>10. /\ \A i \in 1 .. N - 1 : Name(y, i) = name => s = i
       /\ (\A i \in 1 .. N - 1 : Name(y, i) # name) => s = NOTFND
  <2>1. PICK B \in Nat \ {0} : e.sysv = SysvTable(y, B)
        BY <1>1, <1>2, DynTables
  <2>2. SysvLike(e.sysv, SysvTable(y, B))
        BY <2>1 DEF SysvLike
  <2> QED
      BY <1>3, <1>4, <1>5, <1>7, <2>2, SysvFindExact
<1>11. ASSUME NEW k \in DOMAIN e.dyn, e.dyn[k].name = name, ~ e.dyn[k].undef
       PROVE  r = k - 1 /\ r \in Nat
  <2>1. k - 1 \in o .. N - 1 /\ k - 1 \in 1 .. N - 1 /\ k - 1 \in Nat
        BY <1>2, <1>4, <1>11, DynsymWritten
  <2>2. Name(y, k - 1) = name
        BY <1>4, <1>11
  <2>3. CASE "GNU_HASH" \in e.tags
        BY <1>8, <1>9, <2>1, <2>2, <2>3, HashNumbers
  <2>4. CASE "GNU_HASH" \notin e.tags
    <3>1. "HASH" \in e.tags
          BY <2>4 DEF DynLoads
    <3>2. g = NOTFND
          BY <1>6, <2>4
    <3> QED
        BY <1>8, <1>10, <2>1, <2>2, <3>1, <3>2
  <2> QED
      BY <2>3, <2>4
<1>12. ASSUME r # NOTFND
       PROVE  r + 1 \in DOMAIN e.dyn /\ e.dyn[r + 1].name = name
  <2>1. PICK i \in 1 .. N - 1 : Name(y, i) = name /\ r = i
    <3>1. CASE r = g
      <4>1. "GNU_HASH" \in e.tags
            BY <1>6, <1>12, <3>1
      <4>2. PICK i \in o .. N - 1 : Name(y, i) = name /\ g = i
            BY <1>9, <1>12, <3>1, <4>1
      <4> QED
          BY <1>4, <3>1, <4>2
    <3>2. CASE r = s
          BY <1>10, <1>12, <3>2
    <3> QED
        BY <1>8, <3>1, <3>2
  <2>2. i + 1 \in DOMAIN e.dyn /\ i + 1 - 1 = i
        BY <1>4
  <2> QED
      BY <1>4, <2>1, <2>2
<1> QED
    BY <1>11, <1>12

\* What xdl_addr answers with a handle that covers the address.
LEMMA ResolveAnswer ==
    ASSUME NEW c, NEW i, NEW a, NEW f, Resolve(a, c, i, f), NEW h, h = c[i], h \in Handles
    PROVE  /\ answer'.call = "addr" /\ answer'.arg = a /\ answer'.result = h.elf.path
           /\ IF answer'.name = NONE
              THEN DynLoads(h.elf) => \A k \in DOMAIN h.elf.dyn :
                       h.elf.dyn[k].undef \/ ~ Within(h.elf.dyn[k], a - h.elf.bias)
              ELSE Within(answer'.name, a - h.elf.bias)
<1>1. PICK off : off = a - h.elf.bias
      OBVIOUS
<1>2. PICK d : d = IF DynLoads(h.elf) THEN SymByAddr(h.elf, off) ELSE NONE
      OBVIOUS
<1>3. PICK t : t = LoadOnce(h, f)
      OBVIOUS
<1>4. PICK s : s = IF d # NONE THEN d ELSE IF t.tab # NONE THEN DsymByAddr(t.tab, off) ELSE NONE
      OBVIOUS
<1>5. answer' = [call |-> "addr", arg |-> a, result |-> h.elf.path, name |-> s]
      BY <1>1, <1>2, <1>3, <1>4 DEF Resolve
<1>6. h.elf \in LoadedElfs /\ h.tab \in Tables
      BY DEF Handles
<1>7. t.tab \in Tables
      BY <1>3, <1>6, LoadResult DEF LoadOnce
<1>8. d # NONE => Within(d, off)
      BY <1>2, <1>6, SymByAddrExact
<1>9. d = NONE /\ DynLoads(h.elf) =>
        \A k \in DOMAIN h.elf.dyn : h.elf.dyn[k].undef \/ ~ Within(h.elf.dyn[k], off)
      BY <1>2, <1>6, SymByAddrExact
<1>10. s # NONE => Within(s, off)
      BY <1>4, <1>7, <1>8, DsymByAddrExact
<1>11. s = NONE => d = NONE
      BY <1>4
<1> QED
    BY <1>1, <1>5, <1>9, <1>10, <1>11

\* The ELF that a search ends at is a visible one.
LEMMA IterateVisible ==
    ASSUME elfs \in Processes, NEW with \in BOOLEAN, NEW wanted, NEW e, e = Iterate(elfs, with, wanted), e # NONE
    PROVE  e \in Visible
<1>1. DOMAIN elfs = 1 .. Len(elfs) /\ Len(elfs) \in Nat
      BY ProcessList
<1>2. ASSUME NEW S, S \subseteq DOMAIN elfs, NEW x, x = First(elfs, S), x # NONE
      PROVE  \E i \in S : x = elfs[i]
  <2>1. S # {} /\ x = elfs[Min(S)]
        BY <1>2 DEF First
  <2> QED
      BY <1>1, <1>2, <2>1, LowestIn
<1>3. e \in AllElfs
      BY IterateIn
<1>4. CASE api < 21
  <2>1. PICK i \in {i \in ByMaps(elfs) : elfs[i] \in wanted} : e = elfs[i]
    <3>1. e = First(elfs, {i \in ByMaps(elfs) : elfs[i] \in wanted})
          BY <1>4 DEF Iterate
    <3>2. {i \in ByMaps(elfs) : elfs[i] \in wanted} \subseteq DOMAIN elfs
          BY DEF ByMaps
    <3> QED
        BY <1>2, <3>1, <3>2
  <2>2. i \in 1 .. i
        BY <1>1 DEF ByMaps
  <2> QED
      BY <1>3, <1>4, <2>1, <2>2 DEF Visible, ByMaps
<1>5. CASE ~ api < 21 /\ EndsAtLinker(elfs, with, wanted)
  <2>1. e = LinkerFirst(elfs, with)
        BY <1>5 DEF Iterate
  <2>2. with /\ api \in 21 .. 26 /\ e = First(elfs, {i \in DOMAIN elfs : elfs[i].path = LINKER /\ elfs[i].mapped})
        BY <2>1 DEF LinkerFirst
  <2>3. PICK i \in {i \in DOMAIN elfs : elfs[i].path = LINKER /\ elfs[i].mapped} : e = elfs[i]
        BY <1>2, <2>2
  <2>4. e.path = LINKER /\ e.mapped
        BY <2>3
  <2>5. api < 27
        BY <2>2
  <2> QED
      BY <1>3, <1>5, <2>4, <2>5, Zenon DEF Visible
<1>6. CASE ~ api < 21 /\ ~ EndsAtLinker(elfs, with, wanted)
  <2>1. e = First(elfs, {i \in ByLinker(elfs, with) : elfs[i] \in wanted})
        BY <1>6 DEF Iterate
  <2>2. {i \in ByLinker(elfs, with) : elfs[i] \in wanted} \subseteq DOMAIN elfs
        BY DEF ByLinker
  <2>3. PICK i \in {i \in ByLinker(elfs, with) : elfs[i] \in wanted} : e = elfs[i]
        BY <1>2, <2>1, <2>2
  <2> QED
      BY <1>3, <1>6, <2>3 DEF Visible, ByLinker
<1> QED
    BY <1>4, <1>5, <1>6

\* A search with WITH_LINKER that finds no ELF for an address: no visible ELF
\* covers it, or Android 4 stopped at one without a path.
LEMMA IterateNone ==
    ASSUME elfs \in Processes, api \in Nat, NEW a, NEW wanted, wanted = {x \in AllElfs : Covers(x, a)},
           Iterate(elfs, TRUE, wanted) = NONE, NEW e \in Visible, Covers(e, a)
    PROVE  api < 21 /\ \E x \in AllElfs : ~ x.mapped
<1>1. e \in AllElfs /\ e \in wanted /\ e.segs # <<>>
      BY DEF Visible, Covers
<1>2. PICK i \in DOMAIN elfs : e = elfs[i]
      BY <1>1 DEF AllElfs
<1>3. NONE \notin AllElfs
      BY NoneApart, ProcessList DEF AllElfs
<1>4. \A S : S \subseteq DOMAIN elfs /\ First(elfs, S) = NONE => S = {}
  <2> SUFFICES ASSUME NEW S, S \subseteq DOMAIN elfs, S # {}
               PROVE  First(elfs, S) # NONE
      OBVIOUS
  <2>1. S \subseteq Nat
        BY ProcessList
  <2>2. Min(S) \in S
        BY <2>1, LowestIn
  <2> QED
      BY <1>3, <2>2 DEF First, AllElfs
<1>5. CASE api < 21
  <2>1. {j \in ByMaps(elfs) : elfs[j] \in wanted} = {}
    <3>1. First(elfs, {j \in ByMaps(elfs) : elfs[j] \in wanted}) = NONE
          BY <1>5 DEF Iterate
    <3>2. {j \in ByMaps(elfs) : elfs[j] \in wanted} \subseteq DOMAIN elfs
          BY DEF ByMaps
    <3> QED
        BY <1>4, <3>1, <3>2
  <2>2. i \notin ByMaps(elfs)
        BY <1>1, <1>2, <2>1
  <2>3. PICK j \in 1 .. i : ~ elfs[j].mapped
        BY <1>1, <1>2, <2>2 DEF ByMaps
  <2>4. j \in DOMAIN elfs
        BY <1>2, ProcessList
  <2> QED
      BY <1>5, <2>3, <2>4 DEF AllElfs
<1>6. CASE ~ api < 21
  <2>1. PICK l : l = LinkerFirst(elfs, TRUE)
        OBVIOUS
  <2>2. l \notin wanted
        BY <1>3, <1>6, <2>1 DEF Iterate, EndsAtLinker
  <2>3. ByLinker(elfs, TRUE) \subseteq DOMAIN elfs
        BY DEF ByLinker
  <2>4. {j \in ByLinker(elfs, TRUE) : elfs[j] \in wanted} = {}
    <3>1. First(elfs, {j \in ByLinker(elfs, TRUE) : elfs[j] \in wanted}) = NONE
          BY <1>6, <2>1, <2>2 DEF Iterate, EndsAtLinker
    <3> QED
        BY <1>4, <2>3, <3>1
  <2>5. i \notin ByLinker(elfs, TRUE)
        BY <1>1, <1>2, <2>4
  <2>6. CASE CallbackName(e) # NONE
    <3>1. l # NONE /\ l.bias = e.bias
          BY <1>2, <2>1, <2>5, <2>6 DEF ByLinker
    <3>2. l \in AllElfs
          BY <2>1, <3>1, LinkerFound
    <3>3. l = e
          BY <1>1, <3>1, <3>2, ProcessList DEF AllElfs
    <3> QED
        BY <1>1, <2>2, <3>3
  <2>7. CASE CallbackName(e) = NONE
    <3> DEFINE S == {j \in DOMAIN elfs : elfs[j].path = LINKER /\ elfs[j].mapped}
    <3>1. api < 27 /\ e.path = LINKER /\ e.mapped
          BY <1>6, <2>7 DEF Visible
    <3>2. api \in 21 .. 26
          BY <1>6, <3>1
    <3>3. S = {i}
          BY <1>2, <3>1, ProcessList
    <3>4. i \in Nat
          BY <1>2, ProcessList
    <3>5. First(elfs, S) = e
      <4> HIDE DEF S
      <4>1. Min(S) = i
            BY <3>3, <3>4 DEF Min
      <4> QED
          BY <1>2, <3>3, <4>1 DEF First
    <3>6. e # NONE
          BY <1>1, <1>3
    <3>7. l = e
          BY <1>1, <2>1, <3>2, <3>5, <3>6 DEF LinkerFirst
    <3> QED
        BY <1>1, <2>2, <3>7
  <2> QED
      BY <2>6, <2>7
<1> QED
    BY <1>5, <1>6

\* With the heap's invariant: the ELFs of the cache are visible ones, and the
\* last answer is exact.
AnswerInv ==
    /\ XdlInv /\ api \in Nat
    /\ \A i \in DOMAIN cache : cache[i].elf \in Visible
    /\ AnswerExact

\* xdl_sym answers with the defined symbol of the name.
LEMMA SymStep ==
    ASSUME XdlInv, NEW name \in SymNames, Sym(name)
    PROVE  AnswerExact'
<1>1. PICK h : h = handle
      OBVIOUS
<1>2. h \in Handles /\ h.elf \in LoadedElfs
      BY <1>1 DEF Sym, XdlInv, Heap, Sound, Handles
<1>3. PICK e : e = h.elf
      OBVIOUS
<1>4. handle'.elf = e
      BY <1>1, <1>2, <1>3 DEF Sym, Handles
<1>5. PICK r : r = IF DynLoads(e) THEN xdl_dynsym_find(e, name) ELSE NOTFND
      OBVIOUS
<1>6. answer' = [call |-> "sym", arg |-> name, name |-> name,
                 result |-> IF r = NOTFND THEN NONE ELSE SymAnswer(e, r)]
      BY <1>1, <1>3, <1>5 DEF Sym
<1>7. AddrExact'
      BY <1>6 DEF AddrExact
<1>8. ASSUME DynLoads(e), NEW S, S = {k \in DOMAIN e.dyn : e.dyn[k].name = name /\ ~ e.dyn[k].undef}
      PROVE  IF S = {} THEN answer'.result = NONE
             ELSE answer'.result \in {e.bias + e.dyn[k].value : k \in S}
  <2>1. r = xdl_dynsym_find(e, name) /\ e \in LoadedElfs
        BY <1>2, <1>3, <1>5, <1>8
  <2>2. /\ \A k \in DOMAIN e.dyn : e.dyn[k].name = name /\ ~ e.dyn[k].undef => r = k - 1 /\ r \in Nat
        /\ r # NOTFND => r + 1 \in DOMAIN e.dyn /\ e.dyn[r + 1].name = name
        BY <1>8, <2>1, DynFindExact
  <2>3. CASE S = {}
        BY <1>6, <1>8, <2>2, <2>3 DEF SymAnswer
  <2>4. CASE S # {}
    <3>1. PICK k \in S : TRUE
          BY <2>4
    <3>2. r = k - 1 /\ r \in Nat /\ k \in DOMAIN e.dyn /\ ~ e.dyn[k].undef
          BY <1>8, <2>2
    <3>3. k \in Nat
          BY <2>1, <3>2, SeenAll
    <3>4. r + 1 = k /\ r # NOTFND
          BY <3>2, <3>3, HashNumbers
    <3>5. answer'.result = e.bias + e.dyn[k].value
          BY <1>6, <3>2, <3>4 DEF SymAnswer
    <3> QED
        BY <2>4, <3>5
  <2> QED
      BY <2>3, <2>4
<1>9. answer'.arg = name
      BY <1>6
<1>10. SymExact'
      BY <1>4, <1>8, <1>9 DEF SymExact, DynLoads
<1> QED
    BY <1>7, <1>10 DEF AnswerExact

\* xdl_addr answers with the visible ELF that covers the address, or with
\* nothing if none does.
LEMMA AddrStep ==
    ASSUME AnswerInv, NEW a \in Addresses, NEW f \in Faults, Addr(a, f)
    PROVE  /\ AnswerExact'
           /\ \A i \in DOMAIN cache' : cache'[i].elf \in Visible
<1> DEFINE V == {x \in Visible : Covers(x, a)}
           W == {x \in AllElfs : Covers(x, a)}
           e == Iterate(elfs, TRUE, W)
           Exact(x) == /\ x \in V /\ answer'.result = x.path
                       /\ IF answer'.name = NONE
                          THEN DynLoads(x) => \A k \in DOMAIN x.dyn : x.dyn[k].undef \/ ~ Within(x.dyn[k], a - x.bias)
                          ELSE Within(answer'.name, a - x.bias)
<1>1. /\ XdlInv /\ api \in Nat /\ elfs \in Processes /\ cache \in Seq(Handles)
      /\ \A i \in DOMAIN cache : cache[i].elf \in Visible /\ cache[i] \in Handles
      BY DEF AnswerInv, XdlInv, Heap, CacheSound, Sound
<1>2. AllElfs' = AllElfs /\ Visible' = Visible /\ api' = api /\ faulty' = faulty \cup ({f} \ {"none"})
      BY DEF Addr, Called, AllElfs, Visible
<1>3. ASSUME NEW c, c \in Seq(Handles), NEW i \in DOMAIN c, Resolve(a, c, i, f), Covers(c[i].elf, a),
             \A j \in DOMAIN c : c[j].elf \in Visible
      PROVE  /\ answer'.call = "addr" /\ answer'.arg = a /\ Exact(c[i].elf)
             /\ \A j \in DOMAIN cache' : cache'[j].elf \in Visible
  <2>1. PICK h \in Handles : h = c[i]
        BY <1>3
  <2>2. /\ answer'.call = "addr" /\ answer'.arg = a /\ answer'.result = h.elf.path
        /\ IF answer'.name = NONE
           THEN DynLoads(h.elf) => \A k \in DOMAIN h.elf.dyn :
                    h.elf.dyn[k].undef \/ ~ Within(h.elf.dyn[k], a - h.elf.bias)
           ELSE Within(answer'.name, a - h.elf.bias)
        BY <1>3, <2>1, ResolveAnswer
  <2>3. PICK g : cache' = [c EXCEPT ![i] = g] /\ g.elf = h.elf
    <3>1. PICK t : t = LoadOnce(h, f)
          OBVIOUS
    <3>2. \/ cache' = [c EXCEPT ![i] = [h EXCEPT !.dynTry = TRUE]]
          \/ cache' = [c EXCEPT ![i] = [WithSymtab(h, t) EXCEPT !.dynTry = TRUE]]
          BY <1>3, <2>1, <3>1 DEF Resolve
    <3>3. [h EXCEPT !.dynTry = TRUE].elf = h.elf /\ [WithSymtab(h, t) EXCEPT !.dynTry = TRUE].elf = h.elf
          BY <2>1 DEF WithSymtab, Handles
    <3> QED
        BY <3>2, <3>3
  <2>4. h.elf \in V
        BY <1>3, <2>1
  <2> QED
      BY <1>3, <2>1, <2>2, <2>3, <2>4
<1>4. ASSUME answer'.call = "addr", answer'.arg = a, NEW x, Exact(x)
      PROVE  AnswerExact'
  <2>1. x.path # NONE
        BY <1>1, <1>4, NoneApart, ProcessList DEF Visible, AllElfs
  <2>2. AddrExact'
    <3> SUFFICES /\ answer'.result # NONE
                 /\ \E y \in {z \in Visible : Covers(z, a)} :
                      /\ y.path = answer'.result
                      /\ IF answer'.name = NONE
                         THEN DynLoads(y) => \A k \in DOMAIN y.dyn : y.dyn[k].undef \/ ~ Within(y.dyn[k], a - y.bias)
                         ELSE Within(answer'.name, a - y.bias)
        BY <1>2, <1>4 DEF AddrExact
    <3> QED
        BY <1>4, <2>1
  <2>3. SymExact'
        BY <1>4 DEF SymExact
  <2> QED
      BY <2>2, <2>3 DEF AnswerExact
<1>5. CASE InCache(a) # 0
  <2>1. Resolve(a, cache, InCache(a), f)
        BY <1>5 DEF Addr
  <2>2. InCache(a) \in DOMAIN cache /\ Covers(cache[InCache(a)].elf, a)
        BY <1>1, <1>5, CacheHit
  <2>3. PICK c, i : c = cache /\ i = InCache(a)
        OBVIOUS
  <2> HIDE DEF Exact
  <2>4. /\ answer'.call = "addr" /\ answer'.arg = a /\ Exact(c[i].elf)
        /\ \A j \in DOMAIN cache' : cache'[j].elf \in Visible
        BY <1>1, <1>3, <2>1, <2>2, <2>3
  <2> QED
      BY <1>4, <2>4
<1>6. CASE InCache(a) = 0 /\ e # NONE /\ Resolve(a, <<Handle(e)>> \o cache, 1, f)
  <2>1. PICK x : x = e
        OBVIOUS
  <2>2. x \in W /\ x \in LoadedElfs /\ x \in Visible
    <3> HIDE DEF W
    <3> QED
        BY <1>1, <1>6, <2>1, IterateIn, IterateVisible
  <2>3. PICK c : c = <<Handle(x)>> \o cache
        OBVIOUS
  <2>4. Handle(x) \in Handles /\ Handle(x).elf = x
        BY <1>1, <2>2 DEF Handle, Handles, Tables, XdlInv, Heap
  <2>5. /\ c \in Seq(Handles) /\ 1 \in DOMAIN c /\ c[1].elf = x
        /\ \A j \in DOMAIN c : c[j].elf \in Visible
    <3>1. c \in Seq(Handles) /\ Len(c) = 1 + Len(cache) /\ c[1] = Handle(x) /\ Len(cache) \in Nat
          BY <1>1, <2>3, <2>4
    <3>2. \A j \in DOMAIN c : j # 1 => j - 1 \in DOMAIN cache /\ c[j] = cache[j - 1]
          BY <1>1, <2>3, <2>4
    <3> QED
        BY <1>1, <2>2, <2>4, <3>1, <3>2
  <2>6. Resolve(a, c, 1, f)
        BY <1>6, <2>1, <2>3
  <2>7. Covers(c[1].elf, a)
        BY <2>2, <2>5
  <2> HIDE DEF Exact
  <2>8. /\ answer'.call = "addr" /\ answer'.arg = a /\ Exact(c[1].elf)
        /\ \A j \in DOMAIN cache' : cache'[j].elf \in Visible
        BY <1>3, <2>5, <2>6, <2>7
  <2> QED
      BY <1>4, <2>8
<1>7. CASE /\ InCache(a) = 0 /\ UNCHANGED cache
           /\ e = NONE \/ f \in {"calloc", "strdup"}
           /\ answer' = [call |-> "addr", arg |-> a, result |-> NONE, name |-> f]
  <2>1. e # NONE => faulty' # {}
        BY <1>2, <1>7
  <2>2. e = NONE => V = {} \/ (api < 21 /\ \E x \in AllElfs : ~ x.mapped)
    <3> SUFFICES ASSUME e = NONE, NEW x \in Visible, Covers(x, a)
                 PROVE  api < 21 /\ \E y \in AllElfs : ~ y.mapped
        OBVIOUS
    <3>1. PICK w : w = W
          OBVIOUS
    <3>2. w = {y \in AllElfs : Covers(y, a)} /\ Iterate(elfs, TRUE, w) = NONE
          BY <3>1
    <3> HIDE DEF W, e, V, Exact
    <3> QED
        BY <1>1, <3>2, IterateNone
  <2>3. AddrExact'
    <3> SUFFICES V = {} \/ faulty' # {} \/ (api < 21 /\ \E x \in AllElfs : ~ x.mapped)
        BY <1>2, <1>7 DEF AddrExact
    <3> QED
        BY <2>1, <2>2
  <2>4. SymExact'
        BY <1>7 DEF SymExact
  <2> QED
      BY <1>1, <1>7, <2>3, <2>4 DEF AnswerExact
<1>8. \/ InCache(a) # 0
      \/ InCache(a) = 0 /\ e # NONE /\ Resolve(a, <<Handle(e)>> \o cache, 1, f)
      \/ /\ InCache(a) = 0 /\ UNCHANGED cache
         /\ e = NONE \/ f \in {"calloc", "strdup"}
         /\ answer' = [call |-> "addr", arg |-> a, result |-> NONE, name |-> f]
      BY DEF Addr
<1> QED
    BY <1>5, <1>6, <1>7, <1>8

\* Every call keeps the invariant of the answers.
LEMMA AnswerStep ==
    ASSUME AnswerInv, [XdlNext]_dvars
    PROVE  AnswerInv'
<1>1. XdlInv'
      BY XdlStep DEF AnswerInv
<1>2. api' = api /\ Visible' = Visible
  <2>1. elfs' = elfs /\ api' = api
        BY DEF XdlNext, Open, Sym, Dsym, Close, Addr, Clean, Called, dvars
  <2> QED
      BY <2>1 DEF Visible, AllElfs
<1>3. ASSUME NEW a \in Addresses, NEW f \in Faults, Addr(a, f)
      PROVE  AnswerExact' /\ \A i \in DOMAIN cache' : cache'[i].elf \in Visible
      BY <1>3, AddrStep
<1>4. ASSUME NEW n \in SymNames, Sym(n)
      PROVE  AnswerExact' /\ cache' = cache
  <2>1. cache' = cache
        BY <1>4 DEF Sym
  <2> QED
      BY <1>4, <2>1, SymStep DEF AnswerInv
<1>5. ASSUME \/ \E n \in FileNames, f \in Faults : Open(n, f)
             \/ \E n \in SymNames, f \in Faults : Dsym(n, f)
             \/ Close \/ Clean
      PROVE  AnswerExact' /\ (cache' = cache \/ cache' = <<>>)
  <2>1. answer'.call \notin {"addr", "sym"}
    <3>1. ASSUME NEW n \in FileNames, NEW f \in Faults, Open(n, f)
          PROVE  answer'.call = "open"
          BY <3>1 DEF Open
    <3>2. ASSUME NEW n \in SymNames, NEW f \in Faults, Dsym(n, f)
          PROVE  answer'.call = "dsym"
          BY <3>2 DEF Dsym
    <3>3. Close => answer'.call = "close"
          BY DEF Close
    <3>4. Clean => answer'.call = "clean"
          BY DEF Clean
    <3> QED
        BY <1>5, <3>1, <3>2, <3>3, <3>4
  <2>2. cache' = cache \/ cache' = <<>>
        BY <1>5 DEF Open, Dsym, Close, Clean
  <2> QED
      BY <2>1, <2>2 DEF AnswerExact, AddrExact, SymExact
<1>6. ASSUME UNCHANGED dvars
      PROVE  AnswerExact' /\ cache' = cache
  <2>1. /\ answer' = answer /\ handle' = handle /\ faulty' = faulty /\ api' = api /\ elfs' = elfs
        /\ cache' = cache
        BY <1>6 DEF dvars
  <2>2. AddrExact'
        BY <1>2, <2>1 DEF AnswerInv, AnswerExact, AddrExact, AllElfs
  <2>3. SymExact'
        BY <2>1 DEF AnswerInv, AnswerExact, SymExact
  <2> QED
      BY <2>1, <2>2, <2>3 DEF AnswerExact
<1>7. AnswerExact' /\ \A i \in DOMAIN cache' : cache'[i].elf \in Visible
      BY <1>3, <1>4, <1>5, <1>6 DEF XdlNext, AnswerInv
<1> QED
    BY <1>1, <1>2, <1>7 DEF AnswerInv

\* Whatever was opened, resolved and failed before: xdl_addr answers with the
\* ELF whose segment the address is in and a symbol of it around the address,
\* if one of its exported symbols is; xdl_sym finds the exported symbols of
\* .dynsym by either hash table, and nothing else.
THEOREM XdlAnswerExact == XdlSpec => []AnswerExact
<1>1. XdlInit => AnswerInv
  <2> SUFFICES ASSUME XdlInit
               PROVE  AnswerInv
      OBVIOUS
  <2>1. api \in ApiLevels /\ cache = <<>> /\ answer.call = "none"
        BY DEF XdlInit, XdlInitOf
  <2>2. api \in Nat
        BY <2>1, NoneApart
  <2> QED
      BY <2>1, <2>2, XdlStart DEF AnswerInv, AnswerExact, AddrExact, SymExact
<1>2. AnswerInv /\ [XdlNext]_dvars => AnswerInv'
      BY AnswerStep
<1>3. AnswerInv => AnswerExact
      BY DEF AnswerInv
<1> QED
    BY <1>1, <1>2, <1>3, PTL DEF XdlSpec
================================================================================
