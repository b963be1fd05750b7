--------------------------------- MODULE Xdl ---------------------------------
(***************************************************************************)
(* xDL (xdl.c, xdl_iterate.c, xdl_lzma.c): finding a loaded ELF by name or *)
(* by address, its symbols in .dynsym, .symtab or the compressed           *)
(* .gnu_debugdata, and the cache of handles that print fills with xdl_addr *)
(* and empties with xdl_addr_clean.                                        *)
(*                                                                         *)
(* An ELF is a record of Processes' sequences: what dl_iterate_phdr lists  *)
(* it as, its segments, its tables.  A call is one step; one of the        *)
(* allocations, reads or system calls of a behaviour fails.  Memory is the *)
(* set of blocks <<serial of the handle, what it holds>>.                  *)
(***************************************************************************)
EXTENDS ElfHash, SequencesExt

CONSTANTS
    Processes,   \* sequences of the loaded ELFs
    ApiLevels,
    FileNames,   \* arguments of xdl_open: <<dir, base>> or <<base>>
    SymNames,    \* arguments of xdl_sym and xdl_dsym
    Addresses,   \* arguments of xdl_addr
    MaxXdlCalls, \* bound on calls
    NONE

VARIABLES
    elfs,        \* the loaded ELFs
    api,         \* API level of the device
    handle,      \* result of xdl_open
    cache,       \* handles of xdl_addr, the newest first
    blocks,      \* allocated memory
    dfree,       \* memory was released twice
    maps,        \* open files of /proc/self/maps
    mutex,       \* xdl_iterate_linker_mutex
    inited,      \* linker_mutex_inited
    answer,      \* the last call and its result
    serial, ncalls,
    faulty       \* what has failed so far

LINKER == <<"/system/bin/", "linker">>
LINKER_MUTEX == "g_dl_mutex"

\* What can be a handle: its ELF is one that was loaded, and its table, once
\* it is found, one of that ELF's.
LoadedElfs == UNION {{p[i] : i \in DOMAIN p} : p \in Processes}
Tables == {NONE} \cup {e.syms : e \in LoadedElfs} \cup {e.debug.syms : e \in LoadedElfs}
Handles == [elf : LoadedElfs, serial : Nat, dynTry : BOOLEAN, symTry : BOOLEAN, tab : Tables]

\* The loaded ELFs are a list; no two have the same load bias, and at most
\* one is the linker.
ASSUME ProcessList ==
    \A p \in Processes :
        /\ p \in Seq(LoadedElfs)
        /\ \A i, j \in DOMAIN p : p[i].bias = p[j].bias => i = j
        /\ \A i, j \in DOMAIN p : p[i].path = LINKER /\ p[j].path = LINKER => i = j

\* NONE is no ELF, no handle, no path and no table, a name has one part or
\* two, and levels are numbers.
ASSUME NoneApart ==
    /\ NONE \notin LoadedElfs \cup Handles
    /\ \A e \in LoadedElfs :
         /\ NONE \notin {e.path, e.syms, e.debug.syms}
         /\ Len(e.syms) \in Nat /\ Len(e.debug.syms) \in Nat
    /\ \A n \in FileNames : Len(n) \in {1, 2}
    /\ ApiLevels \subseteq Nat

Names(syms) == [i \in DOMAIN syms |-> syms[i].name]

\* The symbols and hash tables of .dynsym are those of a static linker, which
\* leaves only undefined symbols out of .gnu.hash.
ASSUME DynsymWritten ==
    /\ \A e \in LoadedElfs :
         /\ Written(Names(e.dyn), e.gnu, e.sysv)
         /\ \A i \in DOMAIN e.dyn : e.dyn[i] # NONE /\ (i <= e.gnu.symoffset => e.dyn[i].undef)
    /\ SymNames \subseteq DOMAIN Hash \ {NO_NAME}

dvars == <<elfs, api, handle, cache, blocks, dfree, maps, mutex, inited, answer, serial, ncalls, faulty>>

-----------------------------------------------------------------------------
(* Iteration. *)

AllElfs == {elfs[i] : i \in DOMAIN elfs}

\* The name an ELF has for the callback: from dl_iterate_phdr if that is a
\* path, else from /proc/self/maps; NONE if the ELF is ignored.
CallbackName(e) ==
    IF e.bias = 0 \/ e.listed = "none" THEN NONE
    ELSE IF e.listed = "path" THEN e.path
    ELSE IF e.mapped /\ e.segs # <<>> THEN e.path ELSE NONE

\* The element of s with the lowest of the indices S.
First(s, S) == IF S = {} THEN NONE ELSE s[Min(S)]

\* Android 4: the ELFs of /proc/self/maps, up to the first without a path.
ByMaps(s) == {i \in DOMAIN s : s[i].segs # <<>> /\ \A j \in 1 .. i : s[j].mapped}

\* The linker, found in /proc/self/maps before Android 8.1; NONE if the
\* callback is not called for it.
LinkerFirst(s, with) ==
    LET found == First(s, {i \in DOMAIN s : s[i].path = LINKER /\ s[i].mapped})
    IN  IF with /\ api \in 21 .. 26 /\ found # NONE /\ found.segs # <<>> THEN found ELSE NONE
ByLinker(s, with) ==
    {i \in DOMAIN s : /\ CallbackName(s[i]) # NONE
                      /\ LinkerFirst(s, with) # NONE => LinkerFirst(s, with).bias # s[i].bias}

\* The callback found it as the linker, before dl_iterate_phdr was called.
EndsAtLinker(s, with, wanted) == LinkerFirst(s, with) \in wanted

\* The first ELF the callback accepts: one of wanted.
Iterate(s, with, wanted) ==
    LET Accepted(S) == First(s, {i \in S : s[i] \in wanted})
    IN  IF api < 21 THEN Accepted(ByMaps(s))
        ELSE IF EndsAtLinker(s, with, wanted) THEN LinkerFirst(s, with)
        ELSE Accepted(ByLinker(s, with))

\* Files left open by an iteration: the return at the linker closes nothing.
MapsLeft(s, with, wanted) == IF EndsAtLinker(s, with, wanted) THEN 1 ELSE 0

NameMatches(e, name) == IF Len(name) = 2 THEN e.path = name ELSE e.path[2] = name[1]

\* xdl_elf_is_match.
Covers(e, a) ==
    a >= e.bias /\ \E i \in DOMAIN e.segs :
        a - e.bias \in e.segs[i].vaddr .. e.segs[i].vaddr + e.segs[i].memsz - 1
-----------------------------------------------------------------------------
(* Symbol tables. *)

\* xdl_dynsym_load succeeds.
DynLoads(e) ==
    e.dynamic /\ {"SYMTAB", "STRTAB"} \subseteq e.tags /\ e.tags \cap {"HASH", "GNU_HASH"} # {}

xdl_dynsym_find(e, name) ==
    LET g == IF "GNU_HASH" \in e.tags THEN GnuFind(e.gnu, Names(e.dyn), name) ELSE NOTFND
    IN  IF g = NOTFND /\ "HASH" \in e.tags THEN SysvFind(e.sysv, Names(e.dyn), name) ELSE g

SymAnswer(e, i) == IF e.dyn[i + 1].undef THEN NONE ELSE e.bias + e.dyn[i + 1].value

\* xdl_sym_is_match: its test of exported symbols has no effect.
Within(sym, off) == ~ sym.tls /\ off >= sym.value /\ off < sym.value + sym.size

\* Mutant: a chain ends before its last symbol.
BucketShort(t, b) ==
    IF t.bucket[b] < t.symoffset THEN {}
    ELSE {i \in DOMAIN t.chain : \A j \in t.bucket[b] .. i + t.symoffset : LowBit(t.chain[j - t.symoffset]) = 0}

\* The symbols of a chain of .gnu.hash, counted from symoffset.
Bucket(t, b) ==
    IF t.bucket[b] < t.symoffset THEN {}
    ELSE {i \in DOMAIN t.chain : /\ i + t.symoffset >= t.bucket[b]
                                 /\ \A j \in t.bucket[b] .. i + t.symoffset - 1 :
                                        LowBit(t.chain[j - t.symoffset]) = 0}

\* xdl_sym_by_addr: all chains of .gnu.hash, or all symbols .hash counts.
Seen(e) ==
    IF "GNU_HASH" \in e.tags
    THEN {i + e.gnu.symoffset : i \in UNION {Bucket(e.gnu, b) : b \in DOMAIN e.gnu.bucket}}
    ELSE 0 .. e.sysv.chain_cnt - 1

SymByAddr(e, off) ==
    LET Hits == {i \in Seen(e) : Within(e.dyn[i + 1], off)}
    IN  IF Hits = {} THEN NONE ELSE e.dyn[Min(Hits) + 1]

\* xdl_lzma_decompress: dst is what self->debugdata is afterwards.  An error
\* of the decoder, or a stream that is not finished, frees it and leaves the
\* pointer; a realloc that cannot grow it clears the pointer and loses it.
xdl_lzma_decompress(d, f) ==
    IF f \in {"lzma_init", "grow1"} THEN [ok |-> FALSE, dst |-> "null", lost |-> FALSE]
    ELSE IF f = "grow2" /\ d.rounds > 1 THEN [ok |-> FALSE, dst |-> "null", lost |-> TRUE]
    ELSE IF d.stream = "bad" THEN [ok |-> FALSE, dst |-> "freed", lost |-> FALSE]
    ELSE [ok |-> TRUE, dst |-> "live", lost |-> FALSE]

Usable(s) == s.type = "symtab" /\ s.link = "strtab"

\* xdl_symtab_load_from_debugdata succeeds.
FromDebugdata(e, f) ==
    /\ f # "zip" /\ xdl_lzma_decompress(e.debug, f).ok
    /\ e.debug.header /\ SelectInSeq(e.debug.sections, Usable) # 0

\* Section s of the search gives the tables.
FromSection(e, f, s) ==
    IF s.type = "debugdata" THEN FromDebugdata(e, f) ELSE Usable(s) /\ f \notin {"symtab", "strtab"}

\* The table, what is allocated for it, and whether something was freed twice.
\* A .gnu_debugdata before the section that is used was tried in vain: all of
\* its memory is freed at the end, what the decoder has freed once more.
xdl_symtab_load(e, f) ==
    LET i == SelectInSeq(e.sections, LAMBDA s : FromSection(e, f, s))
        z == xdl_lzma_decompress(e.debug, f)
        vain == f # "zip" /\ \E j \in DOMAIN e.sections :
                               e.sections[j].type = "debugdata" /\ (i # 0 => j < i)
        lost == IF vain /\ z.lost THEN {"lost"} ELSE {}
    IN  IF \/ e.segs = <<>> \/ f \in {"open", "shdrs", "shstrtab"} \/ ~ e.header
        THEN [tab |-> NONE, live |-> {}, twice |-> FALSE]
        ELSE IF i = 0
        THEN [tab |-> NONE, live |-> lost, twice |-> vain /\ z.dst = "freed"]
        ELSE IF e.sections[i].type = "debugdata"
        THEN [tab |-> e.debug.syms, live |-> {"debugdata"}, twice |-> FALSE]
        ELSE [tab |-> e.syms, live |-> {"symtab", "strtab"} \cup lost, twice |-> vain /\ z.dst = "freed"]

\* xdl_dsym: the first exported symbol of that name.
DsymAnswer(e, tab, name) ==
    LET i == SelectInSeq(tab, LAMBDA s : ~ s.undef /\ ~ s.reserved /\ s.name = name)
    IN  IF i = 0 THEN NONE ELSE e.bias + tab[i].value

DsymByAddr(tab, off) ==
    LET i == SelectInSeq(tab, LAMBDA s : Within(s, off)) IN IF i = 0 THEN NONE ELSE tab[i]
-----------------------------------------------------------------------------
(* Handles. *)

Handle(e) == [elf |-> e, serial |-> serial, dynTry |-> FALSE, symTry |-> FALSE, tab |-> NONE]
Owned(h) == {b \in blocks : b[1] = h.serial}

XdlInitOf(process, level) ==
    /\ elfs = process /\ api = level
    /\ handle = NONE /\ cache = <<>> /\ blocks = {} /\ dfree = FALSE
    /\ maps = 0 /\ mutex = NONE /\ inited = FALSE
    /\ answer = [call |-> "none", arg |-> NONE, result |-> NONE, name |-> NONE]
    /\ serial = 0 /\ ncalls = 0 /\ faulty = {}

XdlInit == \E process \in Processes, level \in ApiLevels : XdlInitOf(process, level)

Faults == {"none", "calloc", "strdup", "open", "shdrs", "shstrtab", "symtab", "strtab",
           "zip", "lzma_init", "grow1", "grow2"}

Called(f) ==
    /\ ncalls < MaxXdlCalls
    /\ ncalls' = ncalls + 1
    /\ f = "none" \/ faulty = {}
    /\ faulty' = faulty \cup ({f} \ {"none"})
    /\ UNCHANGED <<elfs, api>>

\* The first iteration on Android 5 opens the linker for its lock, reads its
\* .symtab and closes it; what stays is the file the search left open.
MutexInit(f) ==
    LET l == Iterate(elfs, TRUE, {e \in AllElfs : e.path = LINKER})
        t == xdl_symtab_load(l, f)
        first == api \in {21, 22} /\ ~ inited
        opened == l # NONE /\ f \notin {"calloc", "strdup"}
    IN  /\ inited' = (inited \/ first)
        /\ mutex' = IF first /\ opened /\ t.tab # NONE THEN DsymAnswer(l, t.tab, LINKER_MUTEX) ELSE mutex

\* Mutant: the file of the search for the lock is always left open.
MutexMapsAlways == 1

MutexMaps == IF api \in {21, 22} /\ ~ inited THEN MapsLeft(elfs, TRUE, {e \in AllElfs : e.path = LINKER}) ELSE 0

\* xdl_open.  With WITH_LINKER only if the name ends in the linker's.
Open(name, f) ==
    /\ handle = NONE /\ f \in {"none", "calloc", "strdup"}
    /\ Called(f) /\ MutexInit(f)
    /\ LET with == name[Len(name)] = LINKER[2]
           wanted == {x \in AllElfs : NameMatches(x, name)}
           e == Iterate(elfs, with, wanted)
       IN  /\ maps' = maps + MutexMaps + MapsLeft(elfs, with, wanted)
           /\ IF e = NONE \/ f # "none"
              THEN UNCHANGED <<handle, blocks, serial>>
              ELSE /\ handle' = Handle(e)
                   /\ serial' = serial + 1
                   /\ blocks' = blocks \cup {<<serial, "self">>, <<serial, "pathname">>}
           /\ answer' = [call |-> "open", arg |-> name, name |-> f,
                         result |-> IF handle' = NONE THEN NONE ELSE e.path]
    /\ UNCHANGED <<cache, dfree>>

\* xdl_sym.
Sym(name) ==
    /\ handle # NONE
    /\ Called("none")
    /\ handle' = [handle EXCEPT !.dynTry = TRUE]
    /\ LET e == handle.elf
           i == IF DynLoads(e) THEN xdl_dynsym_find(e, name) ELSE NOTFND
       IN  answer' = [call |-> "sym", arg |-> name, name |-> name,
                      result |-> IF i = NOTFND THEN NONE ELSE SymAnswer(e, i)]
    /\ UNCHANGED <<cache, blocks, dfree, maps, mutex, inited, serial>>

\* What the handle's first use of .symtab loads; later uses load nothing.
LoadOnce(h, f) ==
    IF h.symTry THEN [tab |-> h.tab, live |-> {}, twice |-> FALSE] ELSE xdl_symtab_load(h.elf, f)
WithSymtab(h, t) == [h EXCEPT !.symTry = TRUE, !.tab = t.tab]
Allocated(h, t) == {<<h.serial, k>> : k \in t.live}

\* xdl_dsym.
Dsym(name, f) ==
    /\ handle # NONE /\ f \notin {"calloc", "strdup"} /\ (handle.symTry => f = "none")
    /\ Called(f)
    /\ LET t == LoadOnce(handle, f)
       IN  /\ handle' = WithSymtab(handle, t)
           /\ blocks' = blocks \cup Allocated(handle, t)
           /\ dfree' = (dfree \/ t.twice)
           /\ answer' = [call |-> "dsym", arg |-> name, name |-> name,
                         result |-> IF t.tab = NONE THEN NONE ELSE DsymAnswer(handle.elf, t.tab, name)]
    /\ UNCHANGED <<cache, maps, mutex, inited, serial>>

\* Mutant: symtab and strtab are never freed.
FreedTablesKept(h) == {b \in Owned(h) : b[2] \in {"self", "pathname", "debugdata"}}

\* xdl_close: the data of .gnu_debugdata, or else the two tables.
Freed(h) ==
    {b \in Owned(h) :
        b[2] \in {"self", "pathname"}
                 \cup (IF <<h.serial, "debugdata">> \in blocks THEN {"debugdata"} ELSE {"symtab", "strtab"})}

Close ==
    /\ handle # NONE
    /\ Called("none")
    /\ blocks' = blocks \ Freed(handle)
    /\ handle' = NONE
    /\ answer' = [call |-> "close", arg |-> NONE, result |-> NONE, name |-> NONE]
    /\ UNCHANGED <<cache, dfree, maps, mutex, inited, serial>>

InCache(a) == SelectInSeq(cache, LAMBDA h : Covers(h.elf, a))

\* xdl_addr when handle h, the i-th of c, covers a.
Resolve(a, c, i, f) ==
    LET h == c[i]
        off == a - h.elf.bias
        d == IF DynLoads(h.elf) THEN SymByAddr(h.elf, off) ELSE NONE
        t == LoadOnce(h, f)
        s == IF d # NONE THEN d ELSE IF t.tab # NONE THEN DsymByAddr(t.tab, off) ELSE NONE
    IN  /\ cache' = [c EXCEPT ![i] = IF d # NONE THEN [h EXCEPT !.dynTry = TRUE]
                                     ELSE [WithSymtab(h, t) EXCEPT !.dynTry = TRUE]]
        /\ blocks' = blocks \cup {<<h.serial, "self">>, <<h.serial, "pathname">>}
                            \cup (IF d # NONE THEN {} ELSE Allocated(h, t))
        /\ dfree' = (dfree \/ (d = NONE /\ t.twice))
        /\ answer' = [call |-> "addr", arg |-> a, result |-> h.elf.path,
                      name |-> IF s = NONE THEN NONE ELSE s]

Addr(a, f) ==
    /\ Called(f)
    /\ UNCHANGED handle
    /\ IF InCache(a) # 0
       THEN /\ f \notin {"calloc", "strdup"}
            /\ Resolve(a, cache, InCache(a), f)
            /\ UNCHANGED <<maps, mutex, inited, serial>>
       ELSE LET e == Iterate(elfs, TRUE, {x \in AllElfs : Covers(x, a)})
            IN  /\ MutexInit(f)
                /\ maps' = maps + MutexMaps + MapsLeft(elfs, TRUE, {x \in AllElfs : Covers(x, a)})
                /\ IF e = NONE \/ f \in {"calloc", "strdup"}
                   THEN /\ answer' = [call |-> "addr", arg |-> a, result |-> NONE, name |-> f]
                        /\ UNCHANGED <<cache, blocks, dfree, serial>>
                   ELSE /\ Resolve(a, <<Handle(e)>> \o cache, 1, f)
                        /\ serial' = serial + 1

\* xdl_addr_clean.
Clean ==
    /\ cache # <<>>
    /\ Called("none")
    /\ blocks' = blocks \ UNION {Freed(cache[i]) : i \in DOMAIN cache}
    /\ cache' = <<>>
    /\ answer' = [call |-> "clean", arg |-> NONE, result |-> NONE, name |-> NONE]
    /\ UNCHANGED <<handle, dfree, maps, mutex, inited, serial>>

XdlNext ==
    \/ \E n \in FileNames, f \in Faults : Open(n, f)
    \/ \E n \in SymNames : Sym(n)
    \/ \E n \in SymNames, f \in Faults : Dsym(n, f)
    \/ Close
    \/ \E a \in Addresses, f \in Faults : Addr(a, f)
    \/ Clean

XdlSpec == XdlInit /\ [][XdlNext]_dvars
-----------------------------------------------------------------------------
(* Properties. *)

Live == {cache[i] : i \in DOMAIN cache} \cup (IF handle = NONE THEN {} ELSE {handle})
Visible == {e \in AllElfs : IF api < 21 THEN e.mapped /\ e.segs # <<>>
                            ELSE CallbackName(e) # NONE \/ (api < 27 /\ e.path = LINKER /\ e.mapped)}

\* Memory is freed twice only for a .gnu_debugdata that does not decompress.
FreedOnce == dfree => \E e \in AllElfs : e.debug.stream = "bad"

\* An ELF has one handle in the cache: an address of it is resolved by that
\* handle, and its tables are loaded once, for the whole of print.
CacheOnePerElf ==
    \A i, j \in DOMAIN cache : i # j => cache[i].elf.bias # cache[j].elf.bias

\* Whatever fails on the way, the memory in use is that of the handles in use:
\* nothing is left behind by a load that ends in the middle, by xdl_close or
\* by xdl_addr_clean, but for what a realloc that cannot grow loses;
\* nothing is freed twice, and an ELF has its tables once.
HeapReleased ==
    /\ FreedOnce /\ CacheOnePerElf
    /\ \A b \in blocks : b[1] \in {h.serial : h \in Live} \/ (b[2] = "lost" /\ "grow2" \in faulty)
    /\ \A h \in Live : {<<h.serial, "self">>, <<h.serial, "pathname">>} \subseteq blocks
    /\ \A h \in Live : h.tab # NONE =>
         \/ <<h.serial, "debugdata">> \in blocks
         \/ {<<h.serial, "symtab">>, <<h.serial, "strtab">>} \subseteq blocks

\* The answer of xdl_addr: the ELF whose segment the address is in, whatever
\* was cached before it, and a symbol of it around the address, if one of its
\* exported symbols is; NULL only if no visible ELF has the address.  (On
\* Android 4 the search ends at the first ELF without a path.)
AddrExact ==
    answer.call = "addr" =>
        LET Owners == {e \in Visible : Covers(e, answer.arg)}
        IN  IF answer.result = NONE
            THEN Owners = {} \/ faulty # {} \/ (api < 21 /\ \E e \in AllElfs : ~ e.mapped)
            ELSE \E e \in Owners :
                    /\ e.path = answer.result
                    /\ IF answer.name = NONE
                       THEN DynLoads(e) => \A i \in DOMAIN e.dyn :
                                e.dyn[i].undef \/ ~ Within(e.dyn[i], answer.arg - e.bias)
                       ELSE Within(answer.name, answer.arg - e.bias)

\* xdl_sym finds the exported symbols of .dynsym by either hash table, and
\* nothing else.
SymExact ==
    answer.call = "sym" /\ DynLoads(handle.elf) =>
        LET e == handle.elf
            S == {i \in DOMAIN e.dyn : e.dyn[i].name = answer.arg /\ ~ e.dyn[i].undef}
        IN  IF S = {} THEN answer.result = NONE
            ELSE answer.result \in {e.bias + e.dyn[i].value : i \in S}

\* Whatever was opened, resolved and failed before, a call's answer is right.
AnswerExact == AddrExact /\ SymExact

\* The linker is what a call asks for.
AskedForLinker(c) ==
    \E e \in AllElfs : /\ e.path = LINKER
                       /\ \/ c.call = "open" /\ NameMatches(e, c.arg)
                          \/ c.call = "addr" /\ Covers(e, c.arg)

\* A call closes the /proc/self/maps it opened, for the linker's lock and for
\* the ELF it is asked for, unless the search ended at the linker itself
\* (before Android 8.1); then one file of each search stays open.
MapsClosed ==
    [][maps' # maps =>
        /\ api \in 21 .. 26
        /\ maps' - maps = (IF inited' # inited THEN 1 ELSE 0) + (IF AskedForLinker(answer') THEN 1 ELSE 0)]_dvars
===============================================================================
