------------------------------- MODULE MCXhElf -------------------------------
(***************************************************************************)
(* Images for XhElf: symbol tables with colliding hashes, both hash tables *)
(* in either order, the function in any of the three relocation tables,    *)
(* and the packed table in several groupings.                              *)
(***************************************************************************)
EXTENDS XhElf

Info(i, type) == i * 4 + type
Entry(o, i, type) == [off |-> o, info |-> Info(i, type)]
RELATIVE == 0
Nothing == [off |-> 0, info |-> RELATIVE]

\* sleb128 of v, in one byte or two.
Sleb(v) ==
    IF v \in -64 .. 63 THEN <<v % 128>>
    ELSE LET w == v % 16384 IN <<128 + (w % 128), w \div 128>>

\* A group of packed relocations behind offset from: its members have the flagged fields in common.
Encode(from, rels, flags, rela) ==
    LET Has(f) == (flags \div f) % 2 = 1
        Delta(i) == rels[i].off - (IF i = 1 THEN from ELSE rels[i - 1].off)
        One(i) == (IF Has(GROUPED_BY_OFFSET_DELTA) THEN <<>> ELSE Sleb(Delta(i)))
                  \o (IF Has(GROUPED_BY_INFO) THEN <<>> ELSE Sleb(rels[i].info))
                  \o (IF Has(HAS_ADDEND) /\ ~ Has(GROUPED_BY_ADDEND) THEN Sleb(-1) ELSE <<>>)
    IN  Sleb(Len(rels)) \o Sleb(flags)
        \o (IF Has(GROUPED_BY_OFFSET_DELTA) THEN Sleb(Delta(1)) ELSE <<>>)
        \o (IF Has(GROUPED_BY_INFO) THEN Sleb(rels[1].info) ELSE <<>>)
        \o (IF Has(HAS_ADDEND) /\ Has(GROUPED_BY_ADDEND) THEN Sleb(70) ELSE <<>>)
        \o FlattenSeq([i \in DOMAIN rels |-> One(i)])

Tag(t) == [tag |-> t, ptr |-> 9, rela |-> FALSE]
Dynamics(rela) ==
    {<<Tag("STRTAB"), Tag("SYMTAB"), Tag("JMPREL"), Tag("REL"), Tag("ANDROID_REL")>> \o p \o h
        \o <<Tag("NULL"), [Tag("HASH") EXCEPT !.ptr = 0]>> :
     p \in {<<>>, <<[Tag("PLTREL") EXCEPT !.rela = rela]>>},
     h \in {<<>>, <<Tag("HASH")>>, <<Tag("GNU_HASH")>>, <<Tag("OTHER"), Tag("HASH"), Tag("GNU_HASH")>>,
            <<Tag("GNU_HASH"), Tag("HASH")>>, <<[Tag("GNU_HASH") EXCEPT !.ptr = 0]>>}}

\* Where malloc's pointers are: entry 1 of the table is another symbol's.
Plts == {<<Entry(3, 3, JUMP_SLOT), Entry(2, 1, JUMP_SLOT), Entry(1, 2, JUMP_SLOT)>>}
Dyns == {<<>>, <<Entry(4, 0, RELATIVE), Entry(5, 1, GLOB_DAT), Entry(6, 1, ABS)>>}
Packs == {<<>>, <<Entry(7, 1, ABS), Entry(9, 1, ABS), Entry(11, 1, ABS), Entry(8, 2, GLOB_DAT), Entry(10, 3, ABS)>>}

Syms == {<<"", "malloc", "free", "calloc">>, <<"", "free", "calloc", "malloc">>,
         <<"", "calloc", "malloc", "free">>}

\* The tables of each list of symbols, and the bytes of each grouping.
Gnu == [syms \in Syms |-> GnuTable(syms, 2, 2, 2, 1)]
Sysv == [syms \in Syms |-> SysvTable(syms, 2)]
Android == [pack \in Packs, flags \in {0, 1, 2, 3, 11}, flags2 \in {0, 8, 12}, rela \in BOOLEAN |->
              APS2 \o Sleb(Len(pack)) \o Sleb(5)
              \o (IF pack = <<>> THEN <<>>
                  ELSE Encode(5, SubSeq(pack, 1, 3), flags, rela)
                       \o Encode(11, SubSeq(pack, 4, 5), flags2, rela))]

Image(base, vaddr, syms, rela, dyn, plt, rdyn, pack, flags, flags2) ==
    [base |-> base, syms |-> syms, rela |-> rela, dyn |-> dyn,
     phdr |-> <<[type |-> "LOAD", offset |-> 1, vaddr |-> 3],
                [type |-> "LOAD", offset |-> 0, vaddr |-> vaddr],
                [type |-> "DYNAMIC", offset |-> 0, vaddr |-> 0]>>,
     gnu |-> Gnu[syms], sysv |-> Sysv[syms],
     relplt |-> plt, reldyn |-> rdyn, packed |-> pack,
     behind |-> [plt |-> Nothing, dyn |-> IF plt = <<>> THEN Nothing ELSE plt[1]],
     android |-> Android[pack, flags, flags2, rela],
     mem |-> [o \in 0 .. 12 |-> "orig"],
     prot |-> [p \in 0 .. 6 |-> IF p % 2 = 1 THEN "r" ELSE "rw"]]

\* Every dynamic section with one grouping, and every grouping with both hash tables.
BothHashes(d) == {"HASH", "GNU_HASH"} \subseteq {d[i].tag : i \in 1 .. SelectInSeq(d, LAMBDA x : x.tag = "NULL")}
MCLibs ==
    {Image(8, 2, y, TRUE, d, p, q, k, f, g) :
        y \in {z \in Syms : GnuOrdered(z, 2, 2)}, d \in {x \in Dynamics(TRUE) : BothHashes(x)},
        p \in Plts, q \in Dyns, k \in Packs, f \in {0, 3, 11}, g \in {0, 8, 12}}
    \cup {Image(8, 2, y, TRUE, d, p, q, k, 3, 8) :
        y \in {z \in Syms : GnuOrdered(z, 2, 2)}, d \in Dynamics(TRUE),
        p \in Plts, q \in Dyns, k \in Packs}
    \cup {Image(8, v, y, FALSE, d, p, q, k, f, 0) :
        v \in {2, 8, 9}, y \in {z \in Syms : GnuOrdered(z, 2, 2)}, d \in Dynamics(FALSE),
        p \in {<<>>} \cup Plts, q \in Dyns, k \in Packs, f \in {1, 2}}
=============================================================================
