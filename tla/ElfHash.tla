------------------------------- MODULE ElfHash -------------------------------
(***************************************************************************)
(* The two symbol hash tables of an ELF image, as the static linker writes *)
(* them (external) and as xHook and xDL search them.  A symbol table is a  *)
(* sequence of names, entry i of the file being syms[i + 1]; entry 0 is    *)
(* STN_UNDEF.  The hash functions are one arbitrary function from names to *)
(* numbers, which the linker and the searches share.                       *)
(***************************************************************************)
EXTENDS Integers, Sequences, FiniteSets, FiniteSetsExt

CONSTANTS
    Hash,         \* name -> hash value
    ELF_BITS,     \* bits of a word of the Bloom filter
    NOTFND        \* no symbol index

\* The name of STN_UNDEF.
NO_NAME == ""

\* A hash to instantiate Hash with: "malloc" and "calloc" share a chain, the
\* Bloom filter of a table without "free" rejects it.
HashValues ==
    [s \in {"", "malloc", "calloc", "free", "mmap", "je_free"} |->
       CASE s = "" -> 0 [] s = "malloc" -> 4 [] s = "calloc" -> 6
         [] s = "free" -> 9 [] s = "mmap" -> 5 [] s = "je_free" -> 3]

ASSUME ElfBits == ELF_BITS \in Nat \ {0}
ASSUME HashNumbers == Hash \in [DOMAIN Hash -> Nat] /\ NOTFND \notin Nat

Name(syms, i) == syms[i + 1]
LowBit(n) == n % 2

\* The two bits of the Bloom filter a hash sets, and the word they are in.
BloomBits(h, shift) == {h % ELF_BITS, (h \div 2 ^ shift) % ELF_BITS}
BloomWord(h, size) == (h \div ELF_BITS) % size

\* .gnu.hash of syms: the symbols from symoffset on are the hashed ones, in
\* the order of their buckets; a chain entry is a hash whose lowest bit tells
\* the end of the bucket.
GnuTable(syms, symoffset, buckets, blooms, shift) ==
    LET H(i) == Hash[Name(syms, i)]
        Hashed == symoffset .. Len(syms) - 1
        In(b) == {i \in Hashed : H(i) % buckets = b}
    IN  [bucket_cnt |-> buckets, symoffset |-> symoffset,
         bloom_sz |-> blooms, bloom_shift |-> shift,
         bloom |-> [w \in 0 .. blooms - 1 |->
             UNION {BloomBits(H(i), shift) :
                    i \in {j \in Hashed : BloomWord(H(j), blooms) = w}}],
         bucket |-> [b \in 0 .. buckets - 1 |->
             IF In(b) = {} THEN 0 ELSE Min(In(b))],
         chain |-> [k \in 0 .. Len(syms) - 1 - symoffset |->
             LET i == k + symoffset
             IN  H(i) - LowBit(H(i))
                 + IF i = Max(In(H(i) % buckets)) THEN 1 ELSE 0]]

\* syms is in an order .gnu.hash can describe.
GnuOrdered(syms, symoffset, buckets) ==
    \A i, j \in symoffset .. Len(syms) - 1 :
        i < j => Hash[Name(syms, i)] % buckets <= Hash[Name(syms, j)] % buckets

\* .hash of syms: bucket and chain entries link all symbols of a bucket.
SysvTable(syms, buckets) ==
    LET In(b) == {i \in 1 .. Len(syms) - 1 : Hash[Name(syms, i)] % buckets = b}
        Top(S) == IF S = {} THEN 0 ELSE Max(S)
    IN  [bucket_cnt |-> buckets, chain_cnt |-> Len(syms),
         bucket |-> [b \in 0 .. buckets - 1 |-> Top(In(b))],
         chain |-> [i \in 0 .. Len(syms) - 1 |->
             IF i = 0 THEN 0
             ELSE Top({j \in In(Hash[Name(syms, i)] % buckets) : j < i})]]

\* Tables as a static linker writes them: a name has one symbol, and .gnu.hash
\* has the symbols in the order of its buckets.
Written(syms, gnu, sysv) ==
    /\ syms \in Seq(DOMAIN Hash) /\ Len(syms) >= 1 /\ syms[1] = NO_NAME
    /\ \A i, j \in DOMAIN syms : syms[i] = syms[j] => i = j
    /\ gnu.symoffset \in 1 .. Len(syms) /\ gnu.bloom_shift \in Nat
    /\ {gnu.bucket_cnt, gnu.bloom_sz, sysv.bucket_cnt} \subseteq Nat \ {0}
    /\ GnuOrdered(syms, gnu.symoffset, gnu.bucket_cnt)
    /\ gnu = GnuTable(syms, gnu.symoffset, gnu.bucket_cnt, gnu.bloom_sz, gnu.bloom_shift)
    /\ sysv = SysvTable(syms, sysv.bucket_cnt)
-----------------------------------------------------------------------------
\* The hashed symbols: the Bloom filter, then the chain of the bucket up to
\* the first entry with the lowest bit set.
GnuFind(t, syms, name) ==
    LET h == Hash[name]
        first == t.bucket[h % t.bucket_cnt]
        Entry(i) == t.chain[i - t.symoffset]
        Ends == {i \in first .. Len(syms) - 1 : LowBit(Entry(i)) = 1}
        Hits == {i \in first .. Min(Ends \cup {Len(syms) - 1}) :
                    /\ Entry(i) \div 2 = h \div 2
                    /\ Name(syms, i) = name}
    IN  IF \/ ~ BloomBits(h, t.bloom_shift) \subseteq t.bloom[BloomWord(h, t.bloom_sz)]
           \/ first < t.symoffset
           \/ Hits = {}
        THEN NOTFND
        ELSE Min(Hits)

\* The chain of the bucket, from any of its entries on.
SysvFind(t, syms, name) ==
    LET From[i \in 0 .. Len(syms) - 1] ==
            IF i = 0 THEN NOTFND
            ELSE IF Name(syms, i) = name THEN i
            ELSE From[t.chain[i]]
    IN  From[t.bucket[Hash[name] % t.bucket_cnt]]
=============================================================================
