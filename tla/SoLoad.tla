-------------------------------- MODULE SoLoad --------------------------------
(***************************************************************************)
(* Monitoring chosen libraries (PltGotHookProxy.h): start goes through the *)
(* libraries that are loaded, hooks the allocation functions of the ones   *)
(* the regular expression matches, and the loader functions of all of      *)
(* them; the loaders' proxies hook what is loaded later.  Other threads    *)
(* load and unload libraries throughout, and print resolves symbols.       *)
(*                                                                         *)
(* A library stands for its path and for the name it is loaded by; a       *)
(* regular expression is the two sets it matches.  The linker's lock is    *)
(* held while it loads a library and runs its constructors, and while it   *)
(* lists the libraries (by itself, or by xDL on Android 5).                *)
(***************************************************************************)
EXTENDS Integers, Sequences, FiniteSets, SequencesExt

CONSTANTS
    Images,         \* libraries
    LIBDL, SELF,    \* libdl.so and libraphael.so
    Preloaded,      \* the list when the process begins
    Plugins,        \* the libraries that are loaded later by name
    Imports,        \* which loader functions a library calls
    Needs,          \* the libraries loaded with a library
    SameName,       \* <<x, l>>: the path of x contains the name of l, or is contained in it
    Unparsable,     \* xh_elf_init fails
    Focuses,        \* records [path, file]: what a regular expression matches
    Levels,         \* "O", "N" or "L": API level 26 up, 24 and 25, 21 to 23
    Loaders,        \* application threads
    JAVA,           \* the thread that calls start and print
    MaxSoCalls,     \* bound on dlopen, dlclose, start and print
    NOBODY

Present == {Preloaded[i] : i \in DOMAIN Preloaded}

\* What a process is like.  The platform's libraries need none but each other,
\* and what a library needs has no further needs but those; a loader function
\* that is called is called by a library of the platform too, and on Android 8
\* ends in libdl.so.
ASSUME ProcessAssumption ==
    /\ IsFiniteSet(Images) /\ IsFiniteSet(Loaders) /\ JAVA \notin Loaders
    /\ NOBODY \notin Images \cup Loaders \cup {JAVA}
    /\ Preloaded \in Seq(Images) /\ Plugins \subseteq Images
    /\ Needs \in [Images -> SUBSET Images]
    /\ \A l \in Images : \A x \in Needs[l] : x \in Present \/ Needs[x] = {}
    /\ \A l \in Present : Needs[l] \subseteq Present
    /\ \A l \in Images : <<l, l>> \in SameName
    /\ Levels \subseteq {"O", "N", "L"}
    /\ LIBDL \in Present \ ({SELF} \cup Unparsable)
    /\ \A x \in Images : \A s \in Imports[x] :
         /\ \E y \in Present \ ({SELF} \cup Unparsable) : s \in Imports[y]
         /\ "O" \in Levels => s \in Imports[LIBDL]

VARIABLES
    level, focus,   \* api_level, focused_regex
    ext,            \* dlopen_ext_N and g_dl_mutex were found
    list, refs,     \* the linker's list (NOBODY where one was unloaded), and the references
    pointers,       \* libraries whose allocation functions are replaced
    loaders,        \* <<library, function>>: loader functions that are replaced
    origins,        \* loader functions whose original is known
    is_hook_libdl_success,
    g_dl_mutex, alloc_mutex,
    task,           \* what each thread does: [pc, lib, sym, by, meant]
    at,             \* start's position in the list
    handles,        \* what dlopen returned and dlclose was not called for
    known,          \* <<library, how>>: met by start ("path") or when loaded ("file")
    calls2

lvars == <<level, focus, ext, list, refs, pointers, loaders, origins, is_hook_libdl_success,
           g_dl_mutex, alloc_mutex, task, at, handles, known, calls2>>

Members == {list[i] : i \in DOMAIN list} \ {NOBODY}
Resting == [pc |-> "idle", lib |-> NOBODY, sym |-> "", by |-> FALSE, meant |-> FALSE]
Do(t, pc) == task' = [task EXCEPT ![t].pc = pc]
Finish(t) == task' = [task EXCEPT ![t] = Resting]
Begin(t) == task[t].pc = "idle" /\ calls2 < MaxSoCalls /\ calls2' = calls2 + 1

SoLoadInitOf(l) ==
    /\ level = l
    /\ focus = [path |-> {}, file |-> {}]
    /\ ext = FALSE
    /\ list = Preloaded
    /\ refs = [x \in Images |-> IF x \in Present THEN 1 ELSE 0]
    /\ pointers = {} /\ loaders = {} /\ origins = {}
    /\ is_hook_libdl_success = FALSE
    /\ g_dl_mutex = NOBODY /\ alloc_mutex = NOBODY
    /\ task = [t \in Loaders \cup {JAVA} |-> Resting]
    /\ at = 0 /\ known = {} /\ calls2 = 0
    /\ handles = [x \in Images |-> 0]

SoLoadInit == \E l \in Levels : SoLoadInitOf(l)
-----------------------------------------------------------------------------
(* Hooking one library. *)

\* Mutant: the loader functions of libraries loaded later are left alone.
SoLoadFuncAtStart(x, save) ==
    CASE ~ save -> {}
      [] level = "O" -> IF x = LIBDL /\ ~ is_hook_libdl_success THEN Imports[x] ELSE {}
      [] level = "N" -> IF ext THEN Imports[x] ELSE {}
      [] level = "L" -> Imports[x] \cap {"dlopen"}

\* The loader functions that tryHookSoLoadFunc replaces in x.
SoLoadFunc(x, save) ==
    CASE level = "O" -> IF x = LIBDL /\ ~ is_hook_libdl_success THEN Imports[x] ELSE {}
      [] level = "N" -> IF ext THEN Imports[x] ELSE {}
      [] level = "L" -> Imports[x] \cap {"dlopen"}

\* Mutant: the original is not saved.
SavedNever(x, save) == origins

\* The originals known after x: a pointer that is replaced already is skipped.
Saved(x, save) ==
    IF save THEN origins \cup {s \in SoLoadFunc(x, save) : <<x, s>> \notin loaders} ELSE origins

tryHookSoLoadFunc(x, save) ==
    /\ loaders' = loaders \cup {<<x, s>> : s \in SoLoadFunc(x, save)}
    /\ origins' = Saved(x, save)
    /\ is_hook_libdl_success' = (is_hook_libdl_success \/ (level = "O" /\ x = LIBDL))

HookNothing == UNCHANGED <<pointers, loaders, origins, is_hook_libdl_success>>
-----------------------------------------------------------------------------
(* start: registerSoLoadProxy. *)

\* The regular expression, and on Android 7 the linker's own functions.
StartRegister(f) ==
    /\ Begin(JAVA)
    /\ focus' = f
    /\ ext' \in IF level = "N" THEN {ext, TRUE} ELSE {ext}
    /\ known' = {}
    /\ Do(JAVA, "list")
    /\ UNCHANGED <<level, list, refs, pointers, loaders, origins, is_hook_libdl_success,
                   g_dl_mutex, alloc_mutex, at, handles>>

StartList ==
    /\ task[JAVA].pc = "list" /\ g_dl_mutex = NOBODY
    /\ g_dl_mutex' = JAVA /\ at' = 1
    /\ Do(JAVA, "visit")
    /\ UNCHANGED <<level, focus, ext, list, refs, pointers, loaders, origins,
                   is_hook_libdl_success, alloc_mutex, handles, known, calls2>>

\* default_callback
StartVisit ==
    /\ task[JAVA].pc = "visit" /\ at <= Len(list)
    /\ LET x == list[at]
       IN  IF x \in {SELF, NOBODY} \cup Unparsable THEN HookNothing
           ELSE /\ pointers' = IF x \in focus.path THEN pointers \cup {x} ELSE pointers
                /\ tryHookSoLoadFunc(x, TRUE)
    /\ known' = known \cup ({list[at]} \ {NOBODY}) \X {"path"}
    /\ at' = at + 1
    /\ UNCHANGED <<level, focus, ext, list, refs, g_dl_mutex, alloc_mutex, task, handles, calls2>>

StartReturn ==
    /\ task[JAVA].pc = "visit" /\ at > Len(list)
    /\ g_dl_mutex' = NOBODY
    /\ at' = 0
    /\ Finish(JAVA)
    /\ UNCHANGED <<level, focus, ext, list, refs, pointers, loaders, origins,
                   is_hook_libdl_success, alloc_mutex, handles, known, calls2>>
-----------------------------------------------------------------------------
(* The loader functions and their proxies. *)

\* The pointer that a call of s in library c goes through: its own, or on
\* Android 8 the one in libdl.so that every call ends at.
Through(c, s) == IF level = "O" THEN <<LIBDL, s>> ELSE <<c, s>>

\* The library that is loaded is the only one with its name.
Unambiguous(l) == \A x \in Images \ {SELF} : <<x, l>> \in SameName => x = l

\* The session has met c, and the calls it is meant to see from then on.
Met(c) ==
    /\ c \notin {SELF} \cup Unparsable
    /\ <<c, "path">> \in known \/ (<<c, "file">> \in known /\ Unambiguous(c))
Meant(c, s) ==
    CASE level = "O" -> <<LIBDL, "path">> \in known
      [] level = "N" -> ext /\ Met(c)
      [] level = "L" -> s = "dlopen" /\ Met(c)

Dlopen(t, c, s, l) ==
    /\ Begin(t)
    /\ c \in Members /\ s \in Imports[c]
    /\ task' = [task EXCEPT ![t] = [pc |-> "load", lib |-> l, sym |-> s,
                                    by |-> Through(c, s) \in loaders,
                                    meant |-> Meant(c, s)]]
    /\ UNCHANGED <<level, focus, ext, list, refs, pointers, loaders, origins,
                   is_hook_libdl_success, g_dl_mutex, alloc_mutex, at, handles, known>>

\* What a load by the name of l makes known.
Loaded2(l) == IF l \in focus.file THEN {<<l, "file">>} ELSE {}

Load(t) ==
    LET l == task[t].lib
        new == SetToSeq(({l} \cup Needs[l]) \ Members)
    IN  /\ list' = list \o new
        /\ refs' = [x \in Images |->
                      refs[x] + (IF x = l THEN 1 ELSE 0)
                              + (IF x \in Needs[l] /\ l \notin Members THEN 1 ELSE 0)]

\* The original function, or dlopen_ext_N with the caller's address.
Loading(t) ==
    /\ task[t].pc \in {"load", "retry"} /\ g_dl_mutex = NOBODY
    /\ Load(t)
    /\ g_dl_mutex' = t
    /\ Do(t, "constructors")
    /\ UNCHANGED <<level, focus, ext, pointers, loaders, origins, is_hook_libdl_success,
                   alloc_mutex, at, handles, known, calls2>>

LoadFails(t) ==
    /\ task[t].pc \in {"load", "retry"} /\ g_dl_mutex = NOBODY
    /\ IF task[t].pc = "load" /\ task[t].by /\ level = "N" THEN Do(t, "retry") ELSE Finish(t)
    /\ UNCHANGED <<level, focus, ext, list, refs, pointers, loaders, origins,
                   is_hook_libdl_success, g_dl_mutex, alloc_mutex, at, handles, known, calls2>>

\* A constructor allocates in a library that is hooked: insert.
ConstructorAllocates(t) ==
    /\ task[t].pc = "constructors" /\ pointers # {}
    /\ Do(t, "insert")
    /\ UNCHANGED <<level, focus, ext, list, refs, pointers, loaders, origins,
                   is_hook_libdl_success, g_dl_mutex, alloc_mutex, at, handles, known, calls2>>

\* The linker returns, with the constructor's record in the cache.
LoadReturns(t) ==
    /\ \/ task[t].pc = "constructors"
       \/ task[t].pc = "insert" /\ alloc_mutex = NOBODY
    /\ g_dl_mutex' = NOBODY
    /\ IF task[t].by
       THEN Do(t, "hook") /\ UNCHANGED <<handles, known>>
       ELSE /\ Finish(t)
            /\ handles' = [handles EXCEPT ![task[t].lib] = @ + 1]
            /\ known' = IF task[t].meant THEN known \cup Loaded2(task[t].lib) ELSE known
    /\ UNCHANGED <<level, focus, ext, list, refs, pointers, loaders, origins,
                   is_hook_libdl_success, alloc_mutex, at, calls2>>

\* The places in the list of libraries with the name, libraphael.so skipped,
\* and the first of them.
Named(l) == {i \in DOMAIN list : list[i] \notin {SELF, NOBODY} /\ <<list[i], l>> \in SameName}
FirstNamed(l) == IF Named(l) = {} THEN 0 ELSE Min(Named(l))

\* try_pltgot_hook_on_soload with so_load_callback, under the linker's lock.
HookOnLoad(t) ==
    /\ task[t].pc = "hook" /\ g_dl_mutex = NOBODY
    /\ LET l == task[t].lib
           i == FirstNamed(l)
       IN  /\ IF l \notin focus.file \/ i = 0 \/ list[i] \in Unparsable
              THEN HookNothing
              ELSE /\ pointers' = pointers \cup {list[i]}
                   /\ tryHookSoLoadFunc(list[i], FALSE)
           /\ known' = known \cup Loaded2(l)
           /\ handles' = [handles EXCEPT ![l] = @ + 1]
    /\ Finish(t)
    /\ UNCHANGED <<level, focus, ext, list, refs, g_dl_mutex, alloc_mutex, at, calls2>>

\* dlclose on a handle; the last reference unloads the library and what only it needs.
Dlclose(t, l) ==
    /\ Begin(t) /\ g_dl_mutex = NOBODY /\ handles[l] > 0
    /\ handles' = [handles EXCEPT ![l] = @ - 1]
    /\ refs' = [x \in Images |->
                  refs[x] - (IF x = l THEN 1 ELSE 0)
                          - (IF x \in Needs[l] /\ refs[l] = 1 THEN 1 ELSE 0)]
    /\ LET stays == {x \in Images : refs'[x] > 0}
       IN  /\ list' = [i \in DOMAIN list |-> IF list[i] \in stays THEN list[i] ELSE NOBODY]
           /\ pointers' = pointers \cap stays
           /\ loaders' = {p \in loaders : p[1] \in stays}
           /\ known' = {p \in known : p[1] \in stays}
    /\ UNCHANGED <<level, focus, ext, origins, is_hook_libdl_success, g_dl_mutex, alloc_mutex,
                   task, at>>
-----------------------------------------------------------------------------
(* print: write_trace resolves addresses with alloc_mutex held. *)

PrintLock ==
    /\ Begin(JAVA) /\ alloc_mutex = NOBODY
    /\ alloc_mutex' = JAVA
    /\ Do(JAVA, "resolve")
    /\ UNCHANGED <<level, focus, ext, list, refs, pointers, loaders, origins,
                   is_hook_libdl_success, g_dl_mutex, at, handles, known>>

\* The last xdl_addr has had the linker's lock, and print unlocks.
PrintResolved ==
    /\ task[JAVA].pc = "resolve" /\ g_dl_mutex = NOBODY
    /\ alloc_mutex' = NOBODY
    /\ Finish(JAVA)
    /\ UNCHANGED <<level, focus, ext, list, refs, pointers, loaders, origins,
                   is_hook_libdl_success, g_dl_mutex, at, handles, known, calls2>>

SoLoadNext ==
    \/ \E f \in Focuses : StartRegister(f)
    \/ StartList \/ StartVisit \/ StartReturn \/ PrintLock \/ PrintResolved
    \/ \E t \in Loaders :
         \/ \E c \in Images \ {LIBDL}, l \in Plugins : \E s \in Imports[c] : Dlopen(t, c, s, l)
         \/ Loading(t) \/ LoadFails(t) \/ ConstructorAllocates(t) \/ LoadReturns(t)
         \/ HookOnLoad(t)
         \/ \E l \in Plugins : Dlclose(t, l)

SoLoadSpec == SoLoadInit /\ [][SoLoadNext]_lvars
-----------------------------------------------------------------------------
(* Properties. *)

\* A library the session has met is monitored if it is focused: one that start
\* found by its path, one that was loaded afterwards by its name, from a
\* library that was itself met, whoever loads and unloads at the same time.
\* Left out are libraries that come as another's dependency or by a call that
\* was under way when start began, and names that are part of another's.
FocusedHooked ==
    \A l \in Images \ ({SELF} \cup Unparsable) :
        \/ <<l, "path">> \in known /\ l \in focus.path
        \/ <<l, "file">> \in known /\ Unambiguous(l)
        => l \in pointers

\* A loader's proxy has an original to call, although libraries that are
\* hooked when they are loaded do not provide one.
OriginSaved ==
    \A t \in Loaders : task[t].pc = "load" /\ task[t].by => task[t].sym \in origins

\* print and a constructor that allocates do not wait for each other's lock.
NoLockCycle ==
    ~ \E t \in Loaders : /\ task[t].pc = "insert" /\ alloc_mutex = JAVA
                         /\ task[JAVA].pc = "resolve" /\ g_dl_mutex = t
===============================================================================
