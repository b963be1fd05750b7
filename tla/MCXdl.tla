-------------------------------- MODULE MCXdl --------------------------------
(***************************************************************************)
(* Processes for Xdl: a libc with both hash tables and a .symtab, an       *)
(* application library with .gnu_debugdata only, the linker, and ELFs      *)
(* that are listed without a path or not at all.                           *)
(***************************************************************************)
EXTENDS Xdl

Symbol(n, v, s) == [name |-> n, value |-> v, size |-> s, undef |-> FALSE, tls |-> FALSE, reserved |-> FALSE]
Undefined(n) == [Symbol(n, 0, 0) EXCEPT !.undef = TRUE]
Tls(n, v, s) == [Symbol(n, v, s) EXCEPT !.tls = TRUE]
Zero == Undefined("")
Section(t, l) == [type |-> t, link |-> l]

Elf(path, listed, bias, tags, dyn, sections, debug) ==
    [path |-> path, listed |-> listed, bias |-> bias, mapped |-> TRUE, dynamic |-> TRUE, header |-> TRUE,
     tags |-> tags, segs |-> <<[vaddr |-> 0, memsz |-> 4], [vaddr |-> 6, memsz |-> 4]>>,
     dyn |-> dyn, gnu |-> GnuTable(Names(dyn), 2, 2, 2, 1), sysv |-> SysvTable(Names(dyn), 2),
     sections |-> sections,
     syms |-> <<Zero, [Symbol("je_free", 8, 1) EXCEPT !.reserved = TRUE], Symbol("je_free", 7, 2),
                Symbol("g_dl_mutex", 9, 1)>>,
     debug |-> debug]
Debug(stream, rounds, header, sections) ==
    [stream |-> stream, rounds |-> rounds, header |-> header, sections |-> sections,
     syms |-> <<Zero, Symbol("je_free", 8, 2)>>]

SymtabOk == Section("symtab", "strtab")
DynSyms == <<Zero, Undefined("mmap"), Symbol("malloc", 1, 2), Tls("calloc", 6, 4), Symbol("free", 6, 1)>>
Debugs == {Debug("ok", 1, TRUE, <<Section("symtab", "none"), SymtabOk>>), Debug("ok", 2, TRUE, <<SymtabOk>>),
           Debug("ok", 1, TRUE, <<>>), Debug("ok", 1, FALSE, <<SymtabOk>>), Debug("bad", 2, TRUE, <<SymtabOk>>)}
NoDebug == Debug("ok", 1, FALSE, <<>>)

Libc(tags, d) ==
    Elf(<<"/system/lib/", "libc.so">>, "path", 100, tags, DynSyms,
        <<Section("other", "none"), Section("symtab", "none"), Section("debugdata", "none"), SymtabOk>>, d)
Linker(listed) == Elf(LINKER, listed, 200, {}, <<Zero, Undefined("mmap")>>, <<SymtabOk>>, NoDebug)
App(listed, mapped, d) ==
    [Elf(<<"/data/app/", "libapp.so">>, listed, 300, {"SYMTAB", "STRTAB", "HASH"}, DynSyms,
         <<Section("debugdata", "none")>>, d) EXCEPT !.mapped = mapped]
Vdso == Elf(<<"", "[vdso]">>, "none", 50, {}, <<Zero, Undefined("mmap")>>, <<>>, NoDebug)

MCProcesses ==
    {<<Vdso, Linker("path"), App("path", TRUE, d), Libc({"SYMTAB", "STRTAB", "GNU_HASH"}, NoDebug)>> : d \in Debugs}
    \cup {<<Libc({"SYMTAB", "STRTAB", "HASH", "GNU_HASH"}, NoDebug), App("base", m, NoDebug), Linker("none")>> :
            m \in BOOLEAN}
    \cup {<<[Libc({"SYMTAB", "STRTAB"}, NoDebug) EXCEPT !.segs = <<>>, !.header = FALSE],
            [App("path", TRUE, NoDebug) EXCEPT !.header = FALSE, !.dynamic = FALSE]>>}

MCFileNames == {LINKER, <<"libc.so">>, <<"/data/app/", "libapp.so">>}
===============================================================================
