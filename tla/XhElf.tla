-------------------------------- MODULE XhElf --------------------------------
(***************************************************************************)
(* xHook's view of one loaded ELF image (xh_elf.c): xh_elf_init reads the  *)
(* program headers and the dynamic section, xh_elf_hook finds a symbol's   *)
(* index and replaces the function pointers of its relocations in .rel.plt,*)
(* .rel.dyn and the packed .rel.android.                                   *)
(*                                                                         *)
(* An image is a record of the set Libs.  Its tables are sequences of      *)
(* relocation entries [off, info]; memory is a function from offsets to    *)
(* what the pointer there points to; two neighbouring offsets share a page.*)
(* Pointers of the structure xh_elf_t are kept as "is not NULL".           *)
(***************************************************************************)
EXTENDS ElfHash, SequencesExt

CONSTANTS
    Libs,         \* the images
    HookSymbols,  \* names that are hooked
    MaxHooks,     \* bound on the calls of xh_elf_hook
    SIZE_BITS,    \* bits of a size_t
    NULL

VARIABLES
    lib,          \* the image
    self,         \* xh_elf_t
    xpc,          \* where the caller is: init, ready, or the table in progress
    target,       \* the symbol being hooked and its index
    iter,         \* relocation iterator of the table in progress
    mem,          \* offset -> pointer value
    prot,         \* page -> protection
    old_func,     \* symbol -> the original the caller has been given
    hooked,       \* symbols whose last call returned 0 (history)
    calls,        \* number of calls (bound)
    faults        \* system calls that have failed

\* The symbols and hash tables of an image are those of a static linker.
ASSUME TablesWritten == \A l \in Libs : Written(l.syms, l.gnu, l.sysv) /\ Len(l.dyn) \in Nat

\* The linker has resolved the pointers of an image before it is hooked.
ASSUME PointersResolved == \A l \in Libs : \A o \in DOMAIN l.mem : l.mem[o] = "orig"

xvars == <<lib, self, xpc, target, iter, mem, prot, old_func, hooked, calls, faults>>

JUMP_SLOT == 1
GLOB_DAT == 2
ABS == 3
R_SYM(info) == info \div 4
R_TYPE(info) == info % 4
Page(off) == off \div 2

\* The dynamic section has an entry with this tag in front of its end.
Declares(l, tag) ==
    \E i \in 1 .. Len(l.dyn) : l.dyn[i].tag = tag /\ \A j \in 1 .. i - 1 : l.dyn[j].tag # "NULL"

\* A relocation table has its entry in the dynamic section and is about
\* pointers of the image, .rel.plt has one entry for a function, and behind a
\* table lies no relocation of its kind.
ASSUME RelocationTables ==
    \A l \in Libs :
        /\ {l.relplt, l.reldyn, l.packed} \subseteq Seq([off : DOMAIN l.mem, info : Nat])
        /\ l.relplt # <<>> => Declares(l, "JMPREL")
        /\ l.reldyn # <<>> => Declares(l, "REL")
        /\ l.packed # <<>> => Declares(l, "ANDROID_REL")
        /\ l.rela \in BOOLEAN
        /\ \A i \in 1 .. Len(l.dyn) : l.dyn[i].tag = "PLTREL" => l.dyn[i].rela = l.rela
        /\ \A i, j \in DOMAIN l.relplt :
             R_TYPE(l.relplt[i].info) = JUMP_SLOT /\ l.relplt[i].info = l.relplt[j].info => i = j
        /\ R_TYPE(l.behind.plt.info) # JUMP_SLOT
        /\ R_TYPE(l.behind.dyn.info) \notin {GLOB_DAT, ABS}

ASSUME HookedNames ==
    /\ HookSymbols \subseteq DOMAIN Hash \ {NO_NAME}
    /\ \A l \in Libs : NULL \notin [off : DOMAIN l.mem, info : Nat]
-----------------------------------------------------------------------------
(* Relocation iterators. *)

\* The plain iterator: cur counts the entries gone by.  It steps first and
\* returns the entry it then stands on, so that entry 0 is never returned and
\* the last result is what lies behind the table.  Entries of the wrong size
\* (is_use_rela does not fit the table) do not decode to a relocation.
PlainNext(table, behind, fits, cur) ==
    IF cur >= Len(table) THEN [cur |-> cur, entry |-> NULL]
    ELSE [cur |-> cur + 1,
          entry |-> IF cur + 1 < Len(table) /\ fits THEN table[cur + 2] ELSE behind]

\* What the sign of the last byte takes off the sum.
Sign(byte, done) == IF done < SIZE_BITS /\ byte >= 64 THEN 2 ^ done ELSE 0

\* sleb128 from cur on: seven bits a byte, the last byte's bit 6 is the sign.
SlebNext(bytes, cur) ==
    LET Sum[k \in Nat] ==
            (IF k = cur THEN 0 ELSE Sum[k - 1]) + (bytes[k] % 128) * 2 ^ (7 * (k - cur))
        Ends == {k \in cur .. Len(bytes) : bytes[k] < 128}
        last == Min(Ends)
        sign == Sign(bytes[last], 7 * (last + 1 - cur))
    IN  IF Ends = {} THEN [ok |-> FALSE, value |-> 0, cur |-> cur]
        ELSE [ok |-> TRUE, value |-> (Sum[last] - sign) % 2 ^ SIZE_BITS, cur |-> last + 1]

\* Iterator over packed relocations.  A read that fails leaves ok = FALSE,
\* and the iterator returns NULL.
Read(bytes, it, field) ==
    LET d == SlebNext(bytes, it.cur)
    IN  IF it.ok /\ d.ok THEN [it EXCEPT ![field] = d.value, !.cur = d.cur]
        ELSE [it EXCEPT !.ok = FALSE]
ReadAll(bytes, it, fields) == FoldLeft(LAMBDA acc, field : Read(bytes, acc, field), it, fields)
When(cond, field) == IF cond THEN <<field>> ELSE <<>>

GROUPED_BY_INFO == 1
GROUPED_BY_OFFSET_DELTA == 2
GROUPED_BY_ADDEND == 4
HAS_ADDEND == 8
Flag(it, f) == (it.group_flags \div f) % 2 = 1

PackedInit(bytes) ==
    LET zero == [ok |-> TRUE, cur |-> 1, relocation_count |-> 0, group_size |-> 0,
                 group_flags |-> 0, group_r_offset_delta |-> 0, relocation_index |-> 0,
                 relocation_group_index |-> 0, r_offset |-> 0, r_info |-> 0, delta |-> 0, addend |-> 0]
    IN  ReadAll(bytes, zero, <<"relocation_count", "r_offset">>)

\* What the members of a group have in common.  An addend is read, and
\* nothing looks at it.
GroupAddend(it) == Flag(it, HAS_ADDEND) /\ Flag(it, GROUPED_BY_ADDEND)
GroupFields(it) ==
    When(Flag(it, GROUPED_BY_OFFSET_DELTA), "group_r_offset_delta")
    \o When(Flag(it, GROUPED_BY_INFO), "r_info") \o When(GroupAddend(it), "addend")

PackedGroup(bytes, it, rela) ==
    LET head == ReadAll(bytes, it, <<"group_size", "group_flags">>)
        group == ReadAll(bytes, head, GroupFields(head))
    IN  [group EXCEPT !.ok = @ /\ (GroupAddend(head) => rela), !.relocation_group_index = 0]

\* What each relocation has for itself.
EntryFields(it, rela) ==
    When(~ Flag(it, GROUPED_BY_OFFSET_DELTA), "delta") \o When(~ Flag(it, GROUPED_BY_INFO), "r_info")
    \o When(rela /\ Flag(it, HAS_ADDEND) /\ ~ Flag(it, GROUPED_BY_ADDEND), "addend")

\* Mutant: a new group is read one relocation late.
NeedsGroupLate(it) == it.relocation_group_index > it.group_size \/ it.group_size = 0

NeedsGroup(it) == it.relocation_group_index = it.group_size

PackedNext(bytes, rela, it) ==
    LET group == IF NeedsGroup(it) THEN PackedGroup(bytes, it, rela) ELSE it
        read == ReadAll(bytes, group, EntryFields(group, rela))
        step == IF Flag(read, GROUPED_BY_OFFSET_DELTA) THEN read.group_r_offset_delta ELSE read.delta
        next == [read EXCEPT !.r_offset = (@ + step) % 2 ^ SIZE_BITS,
                             !.relocation_index = @ + 1, !.relocation_group_index = @ + 1]
    IN  IF it.relocation_index >= it.relocation_count \/ ~ read.ok
        THEN [cur |-> it, entry |-> NULL]
        ELSE [cur |-> next, entry |-> [off |-> next.r_offset, info |-> next.r_info]]
-----------------------------------------------------------------------------
(* xh_elf_init. *)

FirstSegment(l, type) ==
    LET S == {i \in DOMAIN l.phdr : l.phdr[i].type = type}
    IN  IF S = {} THEN NULL ELSE l.phdr[Min(S)]
FirstSegmentAt0(l) ==
    LET S == {i \in DOMAIN l.phdr : l.phdr[i].type = "LOAD" /\ l.phdr[i].offset = 0}
    IN  IF S = {} THEN NULL ELSE l.phdr[Min(S)]

Cleared == [err |-> FALSE, end |-> FALSE, bias |-> 0, strtab |-> FALSE, symtab |-> FALSE,
            relplt |-> FALSE, reldyn |-> FALSE, relandroid |-> FALSE, table |-> NULL,
            is_use_rela |-> FALSE, is_use_gnu_hash |-> FALSE]

\* The fields of a hash table overwrite those of the other kind.
Fields(table, found) ==
    IF table = NULL THEN found
    ELSE [x \in DOMAIN found \cup DOMAIN table |-> IF x \in DOMAIN found THEN found[x] ELSE table[x]]

\* Mutant: DT_HASH is taken although DT_GNU_HASH came first.
HashNeverIgnored(s) == FALSE

HashIgnored(s) == s.is_use_gnu_hash

\* One entry of the dynamic section.  A pointer below base_addr is an error.
\* The sizes (DT_PLTRELSZ, DT_RELSZ) are the lengths of the image's tables.
ParseDyn(l, s, d) ==
    LET low == s.bias + d.ptr < l.base
        Address(f) == [s EXCEPT ![f] = TRUE, !.err = low]
    IN  IF s.err \/ s.end THEN s
        ELSE CASE d.tag = "NULL" -> [s EXCEPT !.end = TRUE]
               [] d.tag = "STRTAB" -> Address("strtab")
               [] d.tag = "SYMTAB" -> Address("symtab")
               [] d.tag = "PLTREL" -> [s EXCEPT !.is_use_rela = d.rela]
               [] d.tag = "JMPREL" -> Address("relplt")
               [] d.tag = "REL" -> Address("reldyn")
               [] d.tag = "ANDROID_REL" -> Address("relandroid")
               [] d.tag = "HASH" ->
                    IF HashIgnored(s) THEN s
                    ELSE [s EXCEPT !.table = Fields(@, l.sysv), !.err = low]
               [] d.tag = "GNU_HASH" ->
                    [s EXCEPT !.table = Fields(@, l.gnu), !.is_use_gnu_hash = TRUE, !.err = low]
               [] OTHER -> s

ElfChecked(l, s) == l.base # 0 /\ s.bias # 0 /\ s.strtab /\ s.symtab /\ s.table # NULL

APS2 == <<65, 80, 83, 50>>

\* The dynamic section, entry by entry.
ParseDynamic(l, start) ==
    LET Parsed[n \in 0 .. Len(l.dyn)] == IF n = 0 THEN start ELSE ParseDyn(l, Parsed[n - 1], l.dyn[n])
    IN  Parsed[Len(l.dyn)]

xh_elf_init(l) ==
    LET load == FirstSegmentAt0(l)
        dynamic == FirstSegment(l, "DYNAMIC")
        s == ParseDynamic(l, [Cleared EXCEPT !.bias = l.base - load.vaddr])
    IN  IF \/ load = NULL \/ l.base < load.vaddr \/ dynamic = NULL
           \/ s.err
           \/ s.relandroid /\ (Len(l.android) < 4 \/ SubSeq(l.android, 1, 4) # APS2)
           \/ ~ ElfChecked(l, s)
        THEN [Cleared EXCEPT !.err = TRUE]
        ELSE s

\* The symbols .gnu.hash leaves out.
GnuFindUndef(t, syms, name) ==
    LET S == {i \in 0 .. t.symoffset - 1 : Name(syms, i) = name}
    IN  IF S = {} THEN NOTFND ELSE Min(S)

xh_elf_find_symidx_by_name(l, s, name) ==
    IF s.is_use_gnu_hash
    THEN LET def == GnuFind(s.table, l.syms, name)
         IN  IF def # NOTFND THEN def ELSE GnuFindUndef(s.table, l.syms, name)
    ELSE SysvFind(s.table, l.syms, name)
-----------------------------------------------------------------------------
(* The steps. *)

XhElfInitOf(image) ==
    /\ lib = image
    /\ self = Cleared
    /\ xpc = "init"
    /\ target = [name |-> NULL, idx |-> NOTFND]
    /\ iter = 0
    /\ mem = lib.mem
    /\ prot = lib.prot
    /\ old_func = [s \in HookSymbols |-> NULL]
    /\ hooked = {}
    /\ calls = 0
    /\ faults = {}

XhElfInit == \E image \in Libs : XhElfInitOf(image)

Parse ==
    /\ xpc = "init"
    /\ self' = xh_elf_init(lib)
    /\ xpc' = IF self'.err THEN "failed" ELSE "ready"
    /\ UNCHANGED <<lib, target, iter, mem, prot, old_func, hooked, calls, faults>>

\* xh_elf_hook up to the first table.  A symbol that is not found is success.
Hook(s) ==
    /\ xpc = "ready" /\ calls < MaxHooks
    /\ calls' = calls + 1
    /\ LET idx == xh_elf_find_symidx_by_name(lib, self, s)
       IN  IF idx = NOTFND
           THEN /\ hooked' = hooked \cup {s}
                /\ UNCHANGED <<xpc, target, iter>>
           ELSE /\ target' = [name |-> s, idx |-> idx]
                /\ xpc' = "plt"
                /\ iter' = 0
                /\ hooked' = hooked \ {s}
    /\ UNCHANGED <<lib, self, mem, prot, old_func, faults>>

\* The relocation is one of the target in this kind of table.
Matches(e, isPlt) ==
    /\ R_SYM(e.info) = target.idx
    /\ IF isPlt THEN R_TYPE(e.info) = JUMP_SLOT ELSE R_TYPE(e.info) \in {GLOB_DAT, ABS}

\* The pointer at an offset; what lies outside of the tables is left alone.
Pointer(off) == IF off \in DOMAIN mem THEN mem[off] ELSE "new_func"

\* Mutant: a pointer that is the new function already is saved and replaced again.
ReplaceAgain(off) ==
    /\ old_func' = [old_func EXCEPT ![target.name] = mem[off]]
    /\ mem' = [mem EXCEPT ![off] = "new_func"]
    /\ UNCHANGED <<prot, faults>>

\* xh_elf_replace_function succeeding at off: nothing to do, or the page made
\* writable, the pointer saved and replaced, and the page's protection put
\* back, which may fail without an error.
Replace(off) ==
    \/ /\ Pointer(off) = "new_func"
       /\ UNCHANGED <<mem, prot, old_func, faults>>
    \/ /\ Pointer(off) # "new_func"
       /\ old_func' = [old_func EXCEPT ![target.name] = mem[off]]
       /\ mem' = [mem EXCEPT ![off] = "new_func"]
       /\ \/ UNCHANGED <<prot, faults>>
          \/ /\ prot[Page(off)] # "rw"
             /\ prot' = [prot EXCEPT ![Page(off)] = "rw"]
             /\ faults' = faults \cup {"restore"}

\* xh_elf_replace_function failing: the protection is unknown or cannot be
\* changed.  xh_elf_hook returns in the middle of its tables.
ReplaceFails(off) ==
    /\ Pointer(off) # "new_func"
    /\ faults' = faults \cup {"protect"}
    /\ UNCHANGED <<mem, prot, old_func>>

\* xh_elf_find_and_replace_func for entry e, the iterator standing at cur.
Visit(e, isPlt, cur, table, after) ==
    \/ /\ ~ Matches(e, isPlt)
       /\ iter' = cur /\ xpc' = table
       /\ UNCHANGED <<mem, prot, old_func, faults>>
    \/ /\ Matches(e, isPlt)
       /\ self.bias + e.off >= lib.base
       /\ Replace(e.off)
       /\ IF isPlt THEN iter' = 0 /\ xpc' = after ELSE iter' = cur /\ xpc' = table
    \/ /\ Matches(e, isPlt)
       /\ self.bias + e.off >= lib.base
       /\ ReplaceFails(e.off)
       /\ iter' = 0 /\ xpc' = "ready"
    \/ /\ Matches(e, isPlt)
       /\ self.bias + e.off < lib.base
       /\ iter' = 0 /\ xpc' = "ready"
       /\ UNCHANGED <<mem, prot, old_func, faults>>

Fits == self.is_use_rela = lib.rela

\* The loop over .rel(a).plt ends at the first match.
VisitPlt ==
    /\ xpc = "plt"
    /\ LET n == PlainNext(lib.relplt, lib.behind.plt, Fits, iter)
       IN  IF self.relplt /\ n.entry # NULL
           THEN Visit(n.entry, TRUE, n.cur, "plt", "dyn")
           ELSE /\ xpc' = "dyn" /\ iter' = 0
                /\ UNCHANGED <<mem, prot, old_func, faults>>
    /\ UNCHANGED <<lib, self, target, hooked, calls>>

VisitDyn ==
    /\ xpc = "dyn"
    /\ LET n == PlainNext(lib.reldyn, lib.behind.dyn, Fits, iter)
       IN  IF self.reldyn /\ n.entry # NULL
           THEN Visit(n.entry, FALSE, n.cur, "dyn", NULL)
           ELSE /\ xpc' = "android"
                /\ iter' = IF self.relandroid THEN PackedInit(SubSeq(lib.android, 5, Len(lib.android))) ELSE 0
                /\ UNCHANGED <<mem, prot, old_func, faults>>
    /\ UNCHANGED <<lib, self, target, hooked, calls>>

VisitAndroid ==
    /\ xpc = "android" /\ self.relandroid
    /\ \E n \in {PackedNext(SubSeq(lib.android, 5, Len(lib.android)), self.is_use_rela, iter)} :
         /\ n.entry # NULL
         /\ Visit(n.entry, FALSE, n.cur, "android", NULL)
    /\ UNCHANGED <<lib, self, target, hooked, calls>>

HookReturn ==
    /\ xpc = "android"
    /\ self.relandroid =>
         PackedNext(SubSeq(lib.android, 5, Len(lib.android)), self.is_use_rela, iter).entry = NULL
    /\ xpc' = "ready" /\ iter' = 0
    /\ hooked' = hooked \cup {target.name}
    /\ UNCHANGED <<lib, self, target, mem, prot, old_func, calls, faults>>

XhElfNext ==
    \/ Parse
    \/ \E s \in HookSymbols : Hook(s)
    \/ VisitPlt \/ VisitDyn \/ VisitAndroid \/ HookReturn

XhElfSpec == XhElfInit /\ [][XhElfNext]_xvars
-----------------------------------------------------------------------------
(* Properties. *)

\* The pointers of the relocations of symbol s that refer to the function.
Pointers(table, s, types) ==
    {table[i].off : i \in {j \in DOMAIN table :
        /\ R_SYM(table[j].info) < Len(lib.syms)
        /\ Name(lib.syms, R_SYM(table[j].info)) = s
        /\ R_TYPE(table[j].info) \in types}}
PltPointers(s) == Pointers(lib.relplt, s, {JUMP_SLOT})
DataPointers(s) ==
    Pointers(lib.reldyn, s, {GLOB_DAT, ABS}) \cup Pointers(lib.packed, s, {GLOB_DAT, ABS})
\* What the first entry of a plain table describes.
FirstPointers ==
    {t[1].off : t \in {u \in {lib.relplt, lib.reldyn} : Len(u) > 0}}

\* xh_elf_init finds the hash table in use whatever the order of DT_HASH and
\* DT_GNU_HASH, and the search by it (Bloom filter, chains, undefined symbols)
\* finds every name of the symbol table at its index and no other name.
LookupExact ==
    xpc \in {"ready", "plt"} =>
        \A s \in DOMAIN Hash \ {NO_NAME} :
            xh_elf_find_symidx_by_name(lib, self, s) =
                IF \E i \in 1 .. Len(lib.syms) - 1 : Name(lib.syms, i) = s
                THEN CHOOSE i \in 1 .. Len(lib.syms) - 1 : Name(lib.syms, i) = s
                ELSE NOTFND

\* After a call of xh_elf_hook that returned 0, every pointer to the symbol in
\* .rel.plt, .rel.dyn and the packed relocations is the new function: except
\* what the first entry of a plain table describes, and images whose entry
\* size was not recognised.
PointersHooked ==
    \A s \in hooked :
        Fits => \A o \in (PltPointers(s) \cup DataPointers(s)) \ FirstPointers :
                    mem[o] = "new_func"

\* A call changes no pointer that is not one of a symbol some call was for,
\* although the plain iterator returns what lies behind the table.
OthersUntouched ==
    \A o \in DOMAIN mem :
        mem[o] # lib.mem[o] => \E s \in HookSymbols : o \in PltPointers(s) \cup DataPointers(s)

\* Between calls, and between entries, every page has the protection it had,
\* unless putting it back failed.
ProtectionKept == "restore" \notin faults => prot = lib.prot

\* What calls of xh_elf_hook leave in memory, failing ones included: the
\* pointers of the hooked symbols, no other pointer, and no other protection.
MemoryExact == PointersHooked /\ OthersUntouched /\ ProtectionKept

\* Hooking again, after a failure in the middle too, never hands out the new
\* function as the original: the proxy would call itself.
OldIsOriginal == \A s \in HookSymbols : old_func[s] \in {NULL, "orig"}

\* After a call that returned 0 every pointer to the symbol is the new one.
AllPointersHooked ==
    \A s \in hooked : Fits => \A o \in PltPointers(s) \cup DataPointers(s) : mem[o] = "new_func"
=============================================================================
