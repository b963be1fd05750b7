----------------------------- MODULE SoLoadProofs -----------------------------
(***************************************************************************)
(* Proofs about the hooks on the loaders, for any process that has the     *)
(* shape of ProcessAssumption, any number of threads, calls and regular    *)
(* expressions: OriginSaved and FocusedHooked.                             *)
(*                                                                         *)
(* The invariant has four parts.  Locks: the linker's lock is where the    *)
(* threads' positions say.  Counts: a library's references cover its       *)
(* handles, the loads under way and its users, so that neither a library   *)
(* of the platform nor one that a thread is about to hook is unloaded.     *)
(* Originals: a replaced loader function has its original.  Monitored:     *)
(* what the session has met is hooked.                                     *)
(***************************************************************************)
EXTENDS SoLoad, FiniteSetTheorems, SequenceTheorems, WellFoundedInduction, TLAPS

Actors == Loaders \cup {JAVA}
Monitorable == Images \ ({SELF} \cup Unparsable)

LoaderPcs == {"idle", "load", "retry", "constructors", "insert", "hook"}
JavaPcs == {"idle", "list", "visit", "resolve"}
Busy == {"constructors", "insert", "hook"}
Task == [pc : LoaderPcs \cup JavaPcs, lib : Images \cup {NOBODY},
         sym : {""} \cup UNION {Imports[x] : x \in Images}, by : BOOLEAN, meant : BOOLEAN]

TaskTypes ==
    /\ level \in Levels
    /\ task \in [Actors -> Task]
    /\ \A t \in Loaders : task[t].pc \in LoaderPcs
    /\ task[JAVA].pc \in JavaPcs
    /\ \A t \in Loaders : task[t].pc # "idle" => task[t].lib \in Plugins

\* The linker's lock is held by the thread that loads, or by start.
Locks ==
    /\ \A t \in Loaders : task[t].pc \in {"constructors", "insert"} => g_dl_mutex = t
    /\ task[JAVA].pc = "visit" => g_dl_mutex = JAVA

\* Threads whose load of x has not returned its handle, and libraries that
\* came later and need x.
Pending(x) == {t \in Loaders : task[t].lib = x /\ task[t].pc \in Busy}
Users(x) == {l \in Images \ Present : x \in Needs[l] /\ refs[l] > 0}
Base(x) == IF x \in Present THEN 1 ELSE 0

Counts ==
    /\ list \in Seq(Images \cup {NOBODY})
    /\ refs \in [Images -> Nat] /\ handles \in [Images -> Nat]
    /\ \A x \in Images : x \in Members <=> refs[x] > 0
    /\ \A x \in Images :
         refs[x] >= Base(x) + handles[x] + Cardinality(Pending(x)) + Cardinality(Users(x))

\* The loader functions to be replaced in x.
Wanted(x) ==
    CASE level = "O" -> IF x = LIBDL THEN Imports[x] ELSE {}
      [] level = "N" -> IF ext THEN Imports[x] ELSE {}
      [] level = "L" -> Imports[x] \cap {"dlopen"}

AllSaved == \A x \in Images : Imports[x] \subseteq origins

\* What a thread knows whose call went through a replaced function.
Redirected ==
    /\ level = "O" => is_hook_libdl_success
    /\ level = "N" => ext /\ (task[JAVA].pc = "visit" \/ AllSaved)

Originals ==
    /\ \A q \in loaders : q \in Images \X origins /\ (level = "L" => q[2] = "dlopen")
    /\ loaders # {} => Redirected
    /\ \A t \in Loaders : task[t].pc # "idle" /\ task[t].by =>
         task[t].sym \in origins /\ Redirected /\ (level = "L" => task[t].sym = "dlopen")
    /\ \A t \in Loaders : task[t].pc = "hook" => task[t].by
    /\ level = "N" /\ ext /\ task[JAVA].pc = "visit" =>
         \A i \in 1 .. Len(list) :
            i < at /\ list[i] \in Monitorable => Imports[list[i]] \subseteq origins
    /\ task[JAVA].pc = "visit" => at \in Nat \ {0}

\* The functions to be replaced in x are.
LoadersHooked(x) == \A s \in Wanted(x) : <<x, s>> \in loaders

Monitored ==
    /\ known \subseteq Images \X {"path", "file"}
    /\ is_hook_libdl_success \in BOOLEAN
    /\ level = "O" /\ is_hook_libdl_success => LoadersHooked(LIBDL)
    /\ \A x \in Monitorable : <<x, "path">> \in known =>
         LoadersHooked(x) /\ (x \in focus.path => x \in pointers)
    /\ \A x \in Monitorable : <<x, "file">> \in known /\ Unambiguous(x) =>
         LoadersHooked(x) /\ x \in pointers
    /\ \A t \in Loaders : task[t].pc # "idle" /\ task[t].meant => task[t].by

SoInv == TaskTypes /\ Locks /\ Counts /\ Originals /\ Monitored
-----------------------------------------------------------------------------
(* What the operators return. *)

\* The sequence of the libraries that are loaded has them all.
LEMMA SetToSeqAll ==
    ASSUME NEW S, IsFiniteSet(S)
    PROVE  /\ SetToSeq(S) \in Seq(S)
           /\ \A x \in S : \E i \in 1 .. Len(SetToSeq(S)) : SetToSeq(S)[i] = x
<1> DEFINE n == Cardinality(S)
           q == SetToSeq(S)
<1>1. n \in Nat /\ ExistsBijection(1 .. n, S)
  BY FS_CardinalityType
<1>2. \E f \in [1 .. n -> S] : IsInjective(f)
  BY <1>1 DEF ExistsBijection, Bijection, Injection, IsInjective
<1>3. q \in [1 .. n -> S] /\ IsInjective(q)
  BY <1>2 DEF SetToSeq
<1> HIDE DEF q
<1>4. q \in Injection(1 .. n, S)
  BY <1>3 DEF Injection
<1>5. Cardinality(1 .. n) = n
  BY <1>1, FS_Interval
<1>6. q \in Surjection(1 .. n, S)
  BY <1>4, <1>5, FS_Injection
<1>7. q \in Seq(S) /\ Len(q) = n
  BY <1>1, <1>3
<1>8. QED
  BY <1>6, <1>7 DEF Surjection, q

\* A set of positions has a first.
LEMMA FirstPosition ==
    ASSUME NEW T, T \subseteq Nat, T # {}
    PROVE  Min(T) \in T
<1>1. PICK k \in T : \A j \in T : ~ (<<j, k>> \in OpToRel(<, Nat))
  BY WFMin, NatLessThanWellFounded
<1>2. \A j \in T : ~ (j < k)
  BY <1>1 DEF OpToRel
<1>3. \A j \in T : k <= j
  BY <1>2
<1>4. QED
  BY <1>3 DEF Min

\* The search by name finds a library that has it, if there is one.
LEMMA FirstNamedFound ==
    ASSUME list \in Seq(Images \cup {NOBODY}), NEW l
    PROVE  /\ Named(l) = {} => FirstNamed(l) = 0
           /\ Named(l) # {} => FirstNamed(l) \in Named(l) /\ FirstNamed(l) # 0
<1>1. Named(l) \subseteq 1 .. Len(list)
  BY DEF Named
<1>2. Named(l) # {} => Min(Named(l)) \in Named(l)
  BY <1>1, FirstPosition
<1>3. QED
  BY <1>1, <1>2 DEF FirstNamed
-----------------------------------------------------------------------------
(* The tasks. *)

\* Going on: one thread's position changes and nothing else.
LEMMA DoTask ==
    ASSUME task \in [Actors -> Task], NEW t \in Actors, NEW l \in LoaderPcs \cup JavaPcs, Do(t, l)
    PROVE  /\ task' \in [Actors -> Task]
           /\ \A u \in Actors : u # t => task'[u] = task[u]
           /\ task'[t].pc = l /\ task'[t].lib = task[t].lib /\ task'[t].sym = task[t].sym
           /\ task'[t].by = task[t].by /\ task'[t].meant = task[t].meant
<1>1. task[t] \in Task
  OBVIOUS
<1>2. /\ [task[t] EXCEPT !.pc = l] \in Task
      /\ [task[t] EXCEPT !.pc = l].pc = l
      /\ [task[t] EXCEPT !.pc = l].lib = task[t].lib
      /\ [task[t] EXCEPT !.pc = l].sym = task[t].sym
      /\ [task[t] EXCEPT !.pc = l].by = task[t].by
      /\ [task[t] EXCEPT !.pc = l].meant = task[t].meant
  BY <1>1 DEF Task
<1>3. task' = [task EXCEPT ![t] = [task[t] EXCEPT !.pc = l]]
  BY DEF Do
<1>4. QED
  BY <1>2, <1>3

\* The end of a call.
LEMMA FinishTask ==
    ASSUME task \in [Actors -> Task], NEW t \in Actors, Finish(t)
    PROVE  /\ task' \in [Actors -> Task]
           /\ \A u \in Actors : u # t => task'[u] = task[u]
           /\ task'[t].pc = "idle"
<1>1. Resting \in Task /\ Resting.pc = "idle"
  BY DEF Resting, Task, LoaderPcs
<1>2. QED
  BY <1>1 DEF Finish

\* The device stays what it is.
LEMMA LevelSame == [SoLoadNext]_lvars => level' = level
  BY DEF SoLoadNext, StartRegister, StartList, StartVisit, StartReturn, PrintLock,
         PrintResolved, Dlopen, Loading, LoadFails, ConstructorAllocates, LoadReturns,
         HookOnLoad, Dlclose, lvars

\* Every step keeps the tasks' types and the lock where the tasks say it is.
LEMMA LocksNext ==
    ASSUME TaskTypes, Locks, [SoLoadNext]_lvars
    PROVE  TaskTypes' /\ Locks'
<1> USE ProcessAssumption DEF Actors
<1>1. /\ task \in [Actors -> Task] /\ JAVA \in Actors /\ Loaders \subseteq Actors
      /\ JAVA \notin Loaders /\ NOBODY # JAVA /\ NOBODY \notin Loaders
  BY DEF TaskTypes
\* A step of the Java thread, without the lock before and after or with it.
<1>2. ASSUME task' \in [Actors -> Task], \A u \in Actors : u # JAVA => task'[u] = task[u],
             task'[JAVA].pc \in JavaPcs,
             task'[JAVA].pc = "visit" => g_dl_mutex' = JAVA,
             g_dl_mutex' # g_dl_mutex => g_dl_mutex \in {NOBODY, JAVA}
      PROVE  TaskTypes' /\ Locks'
  <2>1. \A t \in Loaders : task'[t] = task[t]
    BY <1>1, <1>2
  <2>2. TaskTypes'
    BY <1>2, <2>1, LevelSame DEF TaskTypes
  <2>3. Locks'
    BY <1>1, <1>2, <2>1 DEF Locks
  <2>4. QED
    BY <2>2, <2>3
\* A step of another.
<1>3. ASSUME NEW t \in Loaders,
             task' \in [Actors -> Task], \A u \in Actors : u # t => task'[u] = task[u],
             task'[t].pc \in LoaderPcs,
             task'[t].pc # "idle" => task'[t].lib \in Plugins,
             task'[t].pc \in {"constructors", "insert"} => g_dl_mutex' = t,
             g_dl_mutex' # g_dl_mutex => g_dl_mutex \in {NOBODY, t}
      PROVE  TaskTypes' /\ Locks'
  <2>1. task'[JAVA] = task[JAVA] /\ \A u \in Loaders : u # t => task'[u] = task[u]
    BY <1>1, <1>3
  <2>2. TaskTypes'
    BY <1>3, <2>1, LevelSame DEF TaskTypes
  <2>3. Locks'
    BY <1>1, <1>3, <2>1 DEF Locks
  <2>4. QED
    BY <2>2, <2>3
<1>4. ASSUME NEW f \in Focuses, StartRegister(f) PROVE TaskTypes' /\ Locks'
  BY <1>1, <1>2, <1>4, DoTask DEF StartRegister, JavaPcs
<1>5. CASE StartList
  BY <1>1, <1>2, <1>5, DoTask DEF StartList, JavaPcs
<1>6. CASE StartVisit
  BY <1>6 DEF StartVisit, TaskTypes, Locks
<1>7. CASE StartReturn
  <2>1. g_dl_mutex = JAVA
    BY <1>7 DEF StartReturn, Locks
  <2>2. QED
    BY <1>1, <1>2, <1>7, <2>1, FinishTask DEF StartReturn, JavaPcs
<1>8. CASE PrintLock
  BY <1>1, <1>2, <1>8, DoTask DEF PrintLock, JavaPcs
<1>9. CASE PrintResolved
  BY <1>1, <1>2, <1>9, FinishTask DEF PrintResolved, JavaPcs
<1>10. ASSUME NEW t \in Loaders, NEW c \in Images \ {LIBDL}, NEW l \in Plugins,
              NEW s \in Imports[c], Dlopen(t, c, s, l)
       PROVE  TaskTypes' /\ Locks'
  <2> DEFINE new == [pc |-> "load", lib |-> l, sym |-> s,
                     by |-> Through(c, s) \in loaders, meant |-> Meant(c, s)]
  <2>1. Meant(c, s) \in BOOLEAN
    <3>1. CASE level = "O"
      BY <3>1 DEF Meant
    <3>2. CASE level = "N"
      BY <3>2 DEF Meant
    <3>3. CASE level = "L"
      BY <3>3 DEF Meant
    <3>4. QED
      BY <3>1, <3>2, <3>3 DEF TaskTypes
  <2>2. new \in Task /\ new.pc = "load" /\ new.lib = l
    <3>1. s \in {""} \cup UNION {Imports[x] : x \in Images}
      OBVIOUS
    <3>2. l \in Images \cup {NOBODY} /\ (Through(c, s) \in loaders) \in BOOLEAN
      OBVIOUS
    <3>3. QED
      BY <2>1, <3>1, <3>2 DEF Task, LoaderPcs
  <2>3. task' = [task EXCEPT ![t] = new] /\ UNCHANGED g_dl_mutex
    BY <1>10 DEF Dlopen
  <2> HIDE DEF new
  <2>4. QED
    BY <1>1, <1>3, <2>2, <2>3 DEF LoaderPcs
<1>11. ASSUME NEW t \in Loaders, Loading(t) PROVE TaskTypes' /\ Locks'
  <2>1. task[t].pc \in {"load", "retry"} /\ task[t].lib \in Plugins
    BY <1>11 DEF Loading, TaskTypes
  <2>2. /\ task' \in [Actors -> Task] /\ \A u \in Actors : u # t => task'[u] = task[u]
        /\ task'[t].pc = "constructors" /\ task'[t].lib = task[t].lib
    BY <1>1, <1>11, DoTask DEF Loading, LoaderPcs
  <2>3. QED
    BY <1>1, <1>3, <1>11, <2>1, <2>2 DEF Loading, LoaderPcs
<1>12. ASSUME NEW t \in Loaders, LoadFails(t) PROVE TaskTypes' /\ Locks'
  <2>1. task[t].lib \in Plugins
    BY <1>12 DEF LoadFails, TaskTypes
  <2>2. CASE Do(t, "retry")
    <3>1. /\ task' \in [Actors -> Task] /\ \A u \in Actors : u # t => task'[u] = task[u]
          /\ task'[t].pc = "retry" /\ task'[t].lib = task[t].lib
      BY <1>1, <2>2, DoTask DEF LoaderPcs
    <3>2. QED
      BY <1>1, <1>3, <1>12, <2>1, <3>1 DEF LoadFails, LoaderPcs
  <2>3. CASE Finish(t)
    BY <1>1, <1>3, <1>12, <2>3, FinishTask DEF LoadFails, LoaderPcs
  <2>4. QED
    BY <1>12, <2>2, <2>3 DEF LoadFails
<1>13. ASSUME NEW t \in Loaders, ConstructorAllocates(t) PROVE TaskTypes' /\ Locks'
  <2>1. task[t].lib \in Plugins /\ g_dl_mutex = t
    BY <1>13 DEF ConstructorAllocates, TaskTypes, Locks
  <2>2. /\ task' \in [Actors -> Task] /\ \A u \in Actors : u # t => task'[u] = task[u]
        /\ task'[t].pc = "insert" /\ task'[t].lib = task[t].lib
    BY <1>1, <1>13, DoTask DEF ConstructorAllocates, LoaderPcs
  <2>3. QED
    BY <1>1, <1>3, <1>13, <2>1, <2>2 DEF ConstructorAllocates, LoaderPcs
<1>14. ASSUME NEW t \in Loaders, LoadReturns(t) PROVE TaskTypes' /\ Locks'
  <2>1. task[t].lib \in Plugins /\ g_dl_mutex = t
    BY <1>14 DEF LoadReturns, TaskTypes, Locks
  <2>2. CASE Do(t, "hook")
    <3>1. /\ task' \in [Actors -> Task] /\ \A u \in Actors : u # t => task'[u] = task[u]
          /\ task'[t].pc = "hook" /\ task'[t].lib = task[t].lib
      BY <1>1, <2>2, DoTask DEF LoaderPcs
    <3>2. QED
      BY <1>1, <1>3, <1>14, <2>1, <3>1 DEF LoadReturns, LoaderPcs
  <2>3. CASE Finish(t)
    BY <1>1, <1>3, <1>14, <2>1, <2>3, FinishTask DEF LoadReturns, LoaderPcs
  <2>4. QED
    BY <1>14, <2>2, <2>3 DEF LoadReturns
<1>15. ASSUME NEW t \in Loaders, HookOnLoad(t) PROVE TaskTypes' /\ Locks'
  BY <1>1, <1>3, <1>15, FinishTask DEF HookOnLoad, LoaderPcs
<1>16. ASSUME NEW t \in Loaders, NEW l \in Plugins, Dlclose(t, l) PROVE TaskTypes' /\ Locks'
  BY <1>16 DEF Dlclose, TaskTypes, Locks
<1>17. CASE UNCHANGED lvars
  BY <1>17 DEF lvars, TaskTypes, Locks
<1>18. QED
  BY <1>4, <1>5, <1>6, <1>7, <1>8, <1>9, <1>10, <1>11, <1>12, <1>13, <1>14, <1>15,
     <1>16, <1>17
     DEF SoLoadNext
-----------------------------------------------------------------------------
(* The references. *)

\* The sets that are counted are finite, before a step and after it.
LEMMA Countable ==
    /\ \A x : /\ IsFiniteSet(Pending(x)) /\ Cardinality(Pending(x)) \in Nat
              /\ IsFiniteSet(Users(x)) /\ Cardinality(Users(x)) \in Nat
    /\ \A x : /\ IsFiniteSet(Pending(x)') /\ Cardinality(Pending(x)') \in Nat
              /\ IsFiniteSet(Users(x)') /\ Cardinality(Users(x)') \in Nat
<1>1. \A x : /\ Pending(x) \in SUBSET Loaders /\ Users(x) \in SUBSET Images
             /\ Pending(x)' \in SUBSET Loaders /\ Users(x)' \in SUBSET Images
  BY DEF Pending, Users
<1>2. IsFiniteSet(Loaders) /\ IsFiniteSet(Images)
  BY ProcessAssumption
<1>3. \A S \in SUBSET Loaders : IsFiniteSet(S) /\ Cardinality(S) \in Nat
  BY <1>2, FS_Subset, FS_CardinalityType
<1>4. \A S \in SUBSET Images : IsFiniteSet(S) /\ Cardinality(S) \in Nat
  BY <1>2, FS_Subset, FS_CardinalityType
<1>5. QED
  BY <1>1, <1>3, <1>4

\* Members of the list, and the libraries of the platform among them.
LEMMA MembersOf ==
    ASSUME Counts
    PROVE  /\ Members \subseteq Images
           /\ \A x \in Images : x \in Members <=> \E i \in 1 .. Len(list) : list[i] = x
           /\ Present \subseteq Images /\ Present \subseteq Members
<1>1. DOMAIN list = 1 .. Len(list) /\ \A i \in 1 .. Len(list) : list[i] \in Images \cup {NOBODY}
  BY ElementOfSeq DEF Counts
<1>2. NOBODY \notin Images /\ Preloaded \in Seq(Images)
  BY ProcessAssumption
<1>3. Present \subseteq Images
  BY <1>2, ElementOfSeq DEF Present
<1>4. \A x \in Present : refs[x] > 0
  <2> SUFFICES ASSUME NEW x \in Present PROVE refs[x] > 0
    OBVIOUS
  <2>1. /\ x \in Images /\ Base(x) = 1 /\ refs[x] \in Nat /\ handles[x] \in Nat
        /\ refs[x] >= Base(x) + handles[x] + Cardinality(Pending(x)) + Cardinality(Users(x))
    BY <1>3 DEF Counts, Base
  <2>2. QED
    BY <2>1, Countable
<1>5. /\ Members \subseteq Images
      /\ \A x \in Images : x \in Members <=> \E i \in 1 .. Len(list) : list[i] = x
  BY <1>1, <1>2 DEF Members
<1>6. QED
  BY <1>3, <1>4, <1>5 DEF Counts

\* A step that loads, returns and closes nothing.
LEMMA CountsFrame ==
    ASSUME Counts, UNCHANGED <<list, refs, handles>>,
           \A u \in Loaders : \/ task'[u].pc \notin Busy /\ task[u].pc \notin Busy
                              \/ /\ task'[u].pc \in Busy /\ task[u].pc \in Busy
                                 /\ task'[u].lib = task[u].lib
    PROVE  Counts'
<1>1. \A x : Pending(x)' = Pending(x)
  BY DEF Pending
<1>2. \A x : Users(x)' = Users(x)
  BY DEF Users
<1>3. Members' = Members
  BY DEF Members
<1>4. QED
  BY <1>1, <1>2, <1>3 DEF Counts, Base

\* A load that is under way becomes a handle.
LEMMA ReturnCounts ==
    ASSUME TaskTypes, Counts, NEW t \in Loaders, task[t].pc \in Busy, task'[t].pc = "idle",
           \A u \in Loaders : u # t => task'[u] = task[u],
           handles' = [handles EXCEPT ![task[t].lib] = @ + 1], UNCHANGED <<list, refs>>
    PROVE  Counts'
<1>1. PICK l \in Images : l = task[t].lib
  BY ProcessAssumption DEF TaskTypes, Busy
<1>2. \A x : Users(x)' = Users(x)
  BY DEF Users
<1>3. \A x \in Images : x # l => Pending(x)' = Pending(x) /\ handles'[x] = handles[x]
  BY <1>1 DEF Pending, Counts, Busy
<1>4. /\ Pending(l)' = Pending(l) \ {t} /\ t \in Pending(l)
      /\ handles'[l] = handles[l] + 1
  BY <1>1 DEF Pending, Counts, Busy
<1>5. Cardinality(Pending(l)') = Cardinality(Pending(l)) - 1
  BY <1>4, Countable, FS_RemoveElement
<1>6. handles' \in [Images -> Nat] /\ Members' = Members
  BY <1>1 DEF Counts, Members
<1>7. ASSUME NEW x \in Images
      PROVE  refs[x] >= Base(x) + handles'[x] + Cardinality(Pending(x)') + Cardinality(Users(x))
  <2>1. /\ refs[x] >= Base(x) + handles[x] + Cardinality(Pending(x)) + Cardinality(Users(x))
        /\ refs[x] \in Nat /\ handles[x] \in Nat /\ Base(x) \in Nat
        /\ Cardinality(Pending(x)) \in Nat /\ Cardinality(Users(x)) \in Nat
    BY Countable DEF Counts, Base
  <2>2. CASE x = l
    <3>1. /\ handles'[x] = handles[x] + 1
          /\ Cardinality(Pending(x)') = Cardinality(Pending(x)) - 1
      BY <1>4, <1>5, <2>2
    <3>2. QED
      BY <2>1, <3>1
  <2>3. CASE x # l
    BY <1>3, <2>1, <2>3
  <2>4. QED
    BY <2>2, <2>3
<1>8. QED
  BY <1>2, <1>6, <1>7 DEF Counts, Base

\* A load counts itself and, if the library is new, what it needs; the linker
\* lists all of them.
LEMMA LoadCounts ==
    ASSUME TaskTypes, Counts, NEW t \in Loaders, task[t].pc \in {"load", "retry"}, Load(t),
           task'[t].pc = "constructors", task'[t].lib = task[t].lib,
           \A u \in Loaders : u # t => task'[u] = task[u], UNCHANGED handles
    PROVE  Counts'
<1>1. PICK l \in Images : l = task[t].lib
  BY ProcessAssumption DEF TaskTypes
<1> DEFINE S == ({l} \cup Needs[l]) \ Members
           new == SetToSeq(S)
           n == Len(list)
<1>2. /\ Needs[l] \in SUBSET Images /\ S \in SUBSET Images /\ IsFiniteSet(S)
      /\ \A x \in Needs[l] : x \in Present \/ Needs[x] = {}
  <2>1. Needs[l] \in SUBSET Images /\ \A x \in Needs[l] : x \in Present \/ Needs[x] = {}
    BY ProcessAssumption
  <2>2. QED
    BY <2>1, ProcessAssumption, FS_Subset
<1>3. /\ list' = list \o new
      /\ \A x \in Images : refs'[x] = refs[x] + (IF x = l THEN 1 ELSE 0)
                                      + (IF x \in Needs[l] /\ l \notin Members THEN 1 ELSE 0)
      /\ DOMAIN refs' = Images
  BY <1>1 DEF Load
<1>4. new \in Seq(S) /\ \A x \in S : \E i \in 1 .. Len(new) : new[i] = x
  BY <1>2, SetToSeqAll
<1> HIDE DEF new
<1>5. /\ list \in Seq(Images \cup {NOBODY}) /\ new \in Seq(Images \cup {NOBODY})
      /\ n \in Nat /\ Len(new) \in Nat /\ \A i \in 1 .. Len(new) : new[i] \in S
  <2>1. \A i \in 1 .. Len(new) : new[i] \in S
    BY <1>4, ElementOfSeq
  <2>2. new \in Seq(Images \cup {NOBODY})
    BY <1>2, <1>4, <2>1
  <2>3. QED
    BY <1>4, <2>1, <2>2 DEF Counts
<1>6. /\ list' \in Seq(Images \cup {NOBODY}) /\ Len(list') = n + Len(new)
      /\ \A i \in 1 .. n + Len(new) : list'[i] = IF i <= n THEN list[i] ELSE new[i - n]
  BY <1>3, <1>5, ConcatProperties
<1>7. \A x \in Images : x \in Members' <=> x \in Members \cup {l} \cup Needs[l]
  <2>1. \A x \in Images : x \in Members' <=> \E i \in 1 .. n + Len(new) : list'[i] = x
    BY <1>6, ProcessAssumption DEF Members
  <2>2. ASSUME NEW x \in Images, x \in Members \cup {l} \cup Needs[l] PROVE x \in Members'
    <3>1. CASE x \in Members
      <4>1. PICK i \in 1 .. n : list[i] = x
        BY <3>1, MembersOf
      <4>2. i \in 1 .. n + Len(new) /\ list'[i] = x
        BY <1>5, <1>6, <4>1
      <4>3. QED
        BY <2>1, <4>2
    <3>2. CASE x \in S
      <4>1. PICK i \in 1 .. Len(new) : new[i] = x
        BY <1>4, <3>2
      <4>2. i + n \in 1 .. n + Len(new) /\ list'[i + n] = x
        BY <1>5, <1>6, <4>1
      <4>3. QED
        BY <2>1, <4>2
    <3>3. QED
      BY <2>2, <3>1, <3>2
  <2>3. ASSUME NEW x \in Images, x \in Members' PROVE x \in Members \cup {l} \cup Needs[l]
    <3>1. PICK i \in 1 .. n + Len(new) : list'[i] = x
      BY <2>1, <2>3
    <3>2. CASE i <= n
      BY <1>5, <1>6, <3>1, <3>2, MembersOf
    <3>3. CASE i > n
      <4>1. i - n \in 1 .. Len(new) /\ new[i - n] = x
        BY <1>5, <1>6, <3>1, <3>3
      <4>2. QED
        BY <1>5, <4>1
    <3>4. QED
      BY <1>5, <3>2, <3>3
  <2>4. QED
    BY <2>2, <2>3
<1>8. \A x \in Images : refs[x] \in Nat /\ refs'[x] \in Nat /\ handles[x] \in Nat
  BY <1>3 DEF Counts
<1>9. \A x \in Images :
        /\ refs[x] >= Base(x) + handles[x] + Cardinality(Pending(x)) + Cardinality(Users(x))
        /\ Cardinality(Pending(x)) \in Nat /\ Cardinality(Users(x)) \in Nat /\ Base(x) \in Nat
  BY Countable DEF Counts, Base
\* What a loaded library needs is loaded.
<1>10. l \in Members => Needs[l] \subseteq Members
  <2> SUFFICES ASSUME l \in Members, NEW x \in Needs[l] PROVE refs[x] > 0
    BY <1>2 DEF Counts
  <2>1. CASE l \in Present
    <3>1. x \in Present
      BY <2>1, ProcessAssumption
    <3>2. QED
      BY <1>2, <3>1, MembersOf DEF Counts
  <2>2. CASE l \notin Present
    <3>1. l \in Users(x)
      BY <2>2 DEF Users, Counts
    <3>2. Cardinality(Users(x)) # 0
      BY <3>1, Countable, FS_EmptySet
    <3>3. QED
      BY <1>2, <1>8, <1>9, <3>2
  <2>3. QED
    BY <2>1, <2>2
<1>11. \A x \in Images : x \in Members' <=> refs'[x] > 0
  <2>1. \A x \in Images : x \in Members <=> refs[x] > 0
    BY DEF Counts
  <2>2. QED
    BY <1>3, <1>7, <1>8, <1>10, <2>1
<1>12. /\ \A x \in Images : x # l => Pending(x)' = Pending(x)
       /\ Pending(l)' = Pending(l) \cup {t} /\ t \notin Pending(l)
  BY <1>1 DEF Pending, Busy
<1>13. Cardinality(Pending(l)') = Cardinality(Pending(l)) + 1
  BY <1>12, Countable, FS_AddElement
<1>14. ASSUME NEW x \in Images
       PROVE  Cardinality(Users(x)') <=
                Cardinality(Users(x)) + (IF x \in Needs[l] /\ l \notin Members THEN 1 ELSE 0)
  <2>1. CASE l \in Members
    <3>1. refs[l] > 0
      BY <2>1 DEF Counts
    <3>2. ASSUME NEW u \in Images PROVE refs'[u] > 0 <=> refs[u] > 0
      <4>1. refs'[u] = refs[u] + (IF u = l THEN 1 ELSE 0)
        BY <1>3, <1>8, <2>1
      <4>2. QED
        BY <1>8, <3>1, <4>1
    <3>3. Users(x)' = Users(x)
      BY <3>2 DEF Users
    <3>4. QED
      BY <1>9, <2>1, <3>3
  <2>2. CASE l \notin Members
    <3>1. ASSUME NEW u \in Users(x)', u \notin Users(x) PROVE u = l
      <4>1. u \in Images \ Present /\ x \in Needs[u] /\ refs'[u] > 0 /\ ~ (refs[u] > 0)
        BY <3>1 DEF Users
      <4>2. u = l \/ u \in Needs[l]
        BY <1>3, <1>8, <4>1
      <4>3. QED
        BY <1>2, <4>1, <4>2
    <3>2. \A u \in Users(x)' : x \in Needs[u]
      BY DEF Users
    <3>3. CASE x \in Needs[l]
      <4>1. Users(x)' \in SUBSET (Users(x) \cup {l})
        BY <3>1
      <4>2. /\ IsFiniteSet(Users(x) \cup {l})
            /\ Cardinality(Users(x) \cup {l}) <= Cardinality(Users(x)) + 1
            /\ Cardinality(Users(x) \cup {l}) \in Nat
        <5>1. /\ IsFiniteSet(Users(x) \cup {l})
              /\ \/ Cardinality(Users(x) \cup {l}) = Cardinality(Users(x))
                 \/ Cardinality(Users(x) \cup {l}) = Cardinality(Users(x)) + 1
          BY Countable, FS_AddElement
        <5>2. QED
          BY <1>9, <5>1
      <4>3. Cardinality(Users(x)') <= Cardinality(Users(x) \cup {l})
        BY <4>1, <4>2, FS_Subset
      <4>4. QED
        BY <1>9, <2>2, <3>3, <4>2, <4>3, Countable
    <3>4. CASE x \notin Needs[l]
      <4>1. Users(x)' \in SUBSET Users(x)
        BY <3>1, <3>2, <3>4
      <4>2. Cardinality(Users(x)') <= Cardinality(Users(x))
        BY <4>1, Countable, FS_Subset
      <4>3. QED
        BY <1>9, <3>4, <4>2, Countable
    <3>5. QED
      BY <3>3, <3>4
  <2>3. QED
    BY <2>1, <2>2
<1>15. ASSUME NEW x \in Images
       PROVE  refs'[x] >= Base(x) + handles[x] + Cardinality(Pending(x)') + Cardinality(Users(x)')
  <2> DEFINE added == IF x \in Needs[l] /\ l \notin Members THEN 1 ELSE 0
  <2>1. added \in Nat /\ Cardinality(Users(x)') \in Nat
    BY Countable
  <2>2. Cardinality(Users(x)') <= Cardinality(Users(x)) + added
    BY <1>14
  <2>3. refs'[x] = refs[x] + (IF x = l THEN 1 ELSE 0) + added
    BY <1>3
  <2> HIDE DEF added
  <2>4. CASE x = l
    <3>1. Cardinality(Pending(x)') = Cardinality(Pending(x)) + 1
      BY <1>13, <2>4
    <3>2. refs'[x] = refs[x] + 1 + added
      BY <2>3, <2>4
    <3>3. QED
      BY <1>8, <1>9, <2>1, <2>2, <3>1, <3>2
  <2>5. CASE x # l
    <3>1. Cardinality(Pending(x)') = Cardinality(Pending(x))
      BY <1>12, <2>5
    <3>2. refs'[x] = refs[x] + added
      BY <1>8, <2>1, <2>3, <2>5
    <3>3. QED
      BY <1>8, <1>9, <2>1, <2>2, <3>1, <3>2
  <2>6. QED
    BY <2>4, <2>5
<1>16. refs' \in [Images -> Nat]
  BY <1>3, <1>8 DEF Load
<1>17. QED
  BY <1>6, <1>11, <1>15, <1>16 DEF Counts, Base

\* A handle is given back: the last reference takes the library away and the
\* references it held, and the others keep theirs.
LEMMA DlcloseCounts ==
    ASSUME Counts, NEW t, NEW l \in Images, Dlclose(t, l)
    PROVE  Counts'
<1> DEFINE less(x) == IF x \in Needs[l] /\ refs[l] = 1 THEN 1 ELSE 0
<1>1. /\ \A x \in Images : refs'[x] = refs[x] - (IF x = l THEN 1 ELSE 0) - less(x)
      /\ DOMAIN refs' = Images
      /\ handles' = [handles EXCEPT ![l] = @ - 1] /\ handles[l] > 0 /\ UNCHANGED task
      /\ list' = [i \in DOMAIN list |->
                    IF list[i] \in {x \in Images : refs'[x] > 0} THEN list[i] ELSE NOBODY]
  BY DEF Dlclose
<1>2. \A x : Pending(x)' = Pending(x)
  BY <1>1 DEF Pending
<1>3. \A x \in Images :
        /\ refs[x] >= Base(x) + handles[x] + Cardinality(Pending(x)) + Cardinality(Users(x))
        /\ refs[x] \in Nat /\ handles[x] \in Nat /\ Base(x) \in Nat
        /\ Cardinality(Pending(x)) \in Nat /\ Cardinality(Users(x)) \in Nat
        /\ Cardinality(Users(x)') \in Nat
        /\ less(x) \in {0, 1}
  BY Countable DEF Counts, Base
<1>4. handles' \in [Images -> Nat] /\ \A x \in Images : x # l => handles'[x] = handles[x]
  BY <1>1, <1>3 DEF Counts
<1>5. handles'[l] = handles[l] - 1
  BY <1>1 DEF Counts
<1>6. refs[l] = 1 => l \notin Present /\ l \notin Needs[l]
  <2> SUFFICES ASSUME refs[l] = 1 PROVE l \notin Present /\ l \notin Needs[l]
    OBVIOUS
  <2>1. Base(l) = 0
    BY <1>1, <1>3
  <2>2. l \notin Present
    BY <2>1 DEF Base
  <2>3. QED
    BY <2>2, ProcessAssumption
<1>7. less(l) = 0
  BY <1>6
<1>8. \A x \in Images : refs'[x] \in Int /\ refs'[x] <= refs[x]
  BY <1>1, <1>3
<1>9. \A x : Users(x)' \subseteq Users(x)
  <2> SUFFICES ASSUME NEW x, NEW u \in Users(x)' PROVE u \in Users(x)
    OBVIOUS
  <2>1. u \in Images \ Present /\ x \in Needs[u] /\ refs'[u] > 0
    BY DEF Users
  <2>2. refs[u] > 0
    BY <1>3, <1>8, <2>1
  <2>3. QED
    BY <2>1, <2>2 DEF Users
<1>10. ASSUME NEW x \in Images PROVE Cardinality(Users(x)') <= Cardinality(Users(x)) - less(x)
  <2>1. CASE less(x) = 0
    <3>1. Cardinality(Users(x)') <= Cardinality(Users(x))
      BY <1>9, Countable, FS_Subset
    <3>2. QED
      BY <1>3, <2>1, <3>1
  <2>2. CASE less(x) = 1
    <3>1. x \in Needs[l] /\ refs[l] = 1
      BY <2>2
    <3>2. l \in Users(x)
      BY <1>6, <3>1 DEF Users
    <3>3. refs'[l] = 0
      BY <1>1, <1>7, <3>1
    <3>4. Users(x)' \in SUBSET (Users(x) \ {l})
      <4>1. l \notin Users(x)'
        BY <3>3 DEF Users
      <4>2. QED
        BY <1>9, <4>1
    <3>5. /\ IsFiniteSet(Users(x) \ {l})
          /\ Cardinality(Users(x) \ {l}) = Cardinality(Users(x)) - 1
      BY <3>2, Countable, FS_RemoveElement
    <3>6. Cardinality(Users(x)') <= Cardinality(Users(x) \ {l})
      BY <3>4, <3>5, FS_Subset
    <3>7. QED
      BY <2>2, <3>5, <3>6
  <2>3. QED
    BY <1>3, <2>1, <2>2
<1> HIDE DEF less
<1>11. ASSUME NEW x \in Images
       PROVE  /\ refs'[x] >= Base(x) + handles'[x] + Cardinality(Pending(x))
                              + Cardinality(Users(x)')
              /\ refs'[x] \in Nat
  <2>1. Cardinality(Users(x)') <= Cardinality(Users(x)) - less(x)
    BY <1>10
  <2>2. CASE x = l
    <3>1. refs'[x] = refs[x] - 1 /\ handles'[x] = handles[x] - 1 /\ less(x) = 0 /\ handles[x] > 0
      <4>1. refs'[x] = refs[x] - 1 - less(x)
        BY <1>1, <2>2
      <4>2. QED
        BY <1>1, <1>3, <1>5, <1>7, <2>2, <4>1
    <3>2. QED
      BY <1>3, <2>1, <3>1
  <2>3. CASE x # l
    <3>1. refs'[x] = refs[x] - less(x) /\ handles'[x] = handles[x]
      BY <1>1, <1>3, <1>4, <2>3
    <3>2. QED
      BY <1>3, <2>1, <3>1
  <2>4. QED
    BY <2>2, <2>3
<1>12. /\ list \in Seq(Images \cup {NOBODY}) /\ list' \in Seq(Images \cup {NOBODY})
       /\ Len(list') = Len(list)
       /\ \A i \in 1 .. Len(list) :
            list'[i] = IF list[i] \in {x \in Images : refs'[x] > 0} THEN list[i] ELSE NOBODY
  <2>1. list \in Seq(Images \cup {NOBODY}) /\ Len(list) \in Nat /\ DOMAIN list = 1 .. Len(list)
    BY DEF Counts
  <2>2. QED
    BY <1>1, <2>1
<1>13. ASSUME NEW x \in Images PROVE x \in Members' <=> refs'[x] > 0
  <2>1. x \in Members' <=> \E i \in 1 .. Len(list) : list'[i] = x
    BY <1>12, ProcessAssumption DEF Members
  <2>2. x \in Members <=> \E i \in 1 .. Len(list) : list[i] = x
    BY MembersOf
  <2>3. x \in Members <=> refs[x] > 0
    BY DEF Counts
  <2>4. refs'[x] > 0 => refs[x] > 0
    BY <1>3, <1>8
  <2>5. QED
    BY <1>12, <2>1, <2>2, <2>3, <2>4, ProcessAssumption
<1>14. refs' \in [Images -> Nat]
  <2>1. refs' = [x \in Images |-> refs'[x]]
    BY DEF Dlclose
  <2>2. QED
    BY <1>11, <2>1
<1>15. QED
  BY <1>2, <1>4, <1>11, <1>12, <1>13, <1>14 DEF Counts, Base

\* Every step keeps the references.
LEMMA CountsNext ==
    ASSUME TaskTypes, Counts, [SoLoadNext]_lvars
    PROVE  Counts'
<1> USE ProcessAssumption DEF Actors
<1>1. /\ task \in [Actors -> Task] /\ JAVA \in Actors /\ Loaders \subseteq Actors
      /\ JAVA \notin Loaders /\ Plugins \subseteq Images
  BY DEF TaskTypes
\* A step of the Java thread loads and closes nothing.
<1>2. ASSUME UNCHANGED <<list, refs, handles>>,
             \A u \in Actors : u # JAVA => task'[u] = task[u]
      PROVE  Counts'
  BY <1>1, <1>2, CountsFrame
<1>3. ASSUME NEW f \in Focuses, StartRegister(f) PROVE Counts'
  BY <1>1, <1>2, <1>3, DoTask DEF StartRegister, JavaPcs
<1>4. CASE StartList
  BY <1>1, <1>2, <1>4, DoTask DEF StartList, JavaPcs
<1>5. CASE StartVisit
  BY <1>2, <1>5 DEF StartVisit
<1>6. CASE StartReturn
  BY <1>1, <1>2, <1>6, FinishTask DEF StartReturn
<1>7. CASE PrintLock
  BY <1>1, <1>2, <1>7, DoTask DEF PrintLock, JavaPcs
<1>8. CASE PrintResolved
  BY <1>1, <1>2, <1>8, FinishTask DEF PrintResolved
<1>9. ASSUME NEW t \in Loaders, UNCHANGED <<list, refs, handles>>,
             \A u \in Actors : u # t => task'[u] = task[u],
             \/ task'[t].pc \notin Busy /\ task[t].pc \notin Busy
             \/ task'[t].pc \in Busy /\ task[t].pc \in Busy /\ task'[t].lib = task[t].lib
      PROVE  Counts'
  BY <1>1, <1>9, CountsFrame
<1>10. ASSUME NEW t \in Loaders, NEW c \in Images \ {LIBDL}, NEW l \in Plugins,
              NEW s \in Imports[c], Dlopen(t, c, s, l)
       PROVE  Counts'
  <2>1. /\ \A u \in Actors : u # t => task'[u] = task[u]
        /\ task'[t].pc = "load" /\ task[t].pc = "idle"
    BY <1>1, <1>10 DEF Dlopen, Begin
  <2>2. QED
    BY <1>9, <1>10, <2>1 DEF Dlopen, Busy
<1>11. ASSUME NEW t \in Loaders, Loading(t) PROVE Counts'
  <2>1. /\ \A u \in Actors : u # t => task'[u] = task[u]
        /\ task'[t].pc = "constructors" /\ task'[t].lib = task[t].lib
    BY <1>1, <1>11, DoTask DEF Loading, LoaderPcs
  <2>2. QED
    BY <1>1, <1>11, <2>1, LoadCounts DEF Loading
<1>12. ASSUME NEW t \in Loaders, LoadFails(t) PROVE Counts'
  <2>1. /\ \A u \in Actors : u # t => task'[u] = task[u]
        /\ task'[t].pc \in {"retry", "idle"}
    <3>1. CASE Do(t, "retry")
      BY <1>1, <3>1, DoTask DEF LoaderPcs
    <3>2. CASE Finish(t)
      BY <1>1, <3>2, FinishTask
    <3>3. QED
      BY <1>12, <3>1, <3>2 DEF LoadFails
  <2>2. QED
    BY <1>9, <1>12, <2>1 DEF LoadFails, Busy
<1>13. ASSUME NEW t \in Loaders, ConstructorAllocates(t) PROVE Counts'
  <2>1. /\ \A u \in Actors : u # t => task'[u] = task[u]
        /\ task'[t].pc = "insert" /\ task'[t].lib = task[t].lib
    BY <1>1, <1>13, DoTask DEF ConstructorAllocates, LoaderPcs
  <2>2. QED
    BY <1>9, <1>13, <2>1 DEF ConstructorAllocates, Busy
<1>14. ASSUME NEW t \in Loaders, LoadReturns(t) PROVE Counts'
  <2>1. task[t].pc \in Busy /\ UNCHANGED <<list, refs>>
    BY <1>14 DEF LoadReturns, Busy
  <2>2. CASE task[t].by
    <3>1. /\ \A u \in Actors : u # t => task'[u] = task[u]
          /\ task'[t].pc = "hook" /\ task'[t].lib = task[t].lib /\ UNCHANGED handles
      BY <1>1, <1>14, <2>2, DoTask DEF LoadReturns, LoaderPcs
    <3>2. QED
      BY <1>9, <2>1, <3>1 DEF Busy
  <2>3. CASE ~ task[t].by
    <3>1. /\ \A u \in Actors : u # t => task'[u] = task[u]
          /\ task'[t].pc = "idle"
          /\ handles' = [handles EXCEPT ![task[t].lib] = @ + 1]
      BY <1>1, <1>14, <2>3, FinishTask DEF LoadReturns
    <3>2. QED
      BY <1>1, <2>1, <3>1, ReturnCounts
  <2>4. QED
    BY <2>2, <2>3
<1>15. ASSUME NEW t \in Loaders, HookOnLoad(t) PROVE Counts'
  <2>1. task[t].pc \in Busy /\ UNCHANGED <<list, refs>>
    BY <1>15 DEF HookOnLoad, Busy
  <2>2. /\ \A u \in Actors : u # t => task'[u] = task[u]
        /\ task'[t].pc = "idle"
        /\ handles' = [handles EXCEPT ![task[t].lib] = @ + 1]
    BY <1>1, <1>15, FinishTask DEF HookOnLoad
  <2>3. QED
    BY <1>1, <2>1, <2>2, ReturnCounts
<1>16. ASSUME NEW t \in Loaders, NEW l \in Plugins, Dlclose(t, l) PROVE Counts'
  BY <1>1, <1>16, DlcloseCounts
<1>17. CASE UNCHANGED lvars
  BY <1>2, <1>17 DEF lvars
<1>18. QED
  BY <1>3, <1>4, <1>5, <1>6, <1>7, <1>8, <1>10, <1>11, <1>12, <1>13, <1>14, <1>15,
     <1>16, <1>17
     DEF SoLoadNext
-----------------------------------------------------------------------------
(* The loader functions. *)

\* What is replaced in a library, case by case.
LEMMA AtLevel ==
    ASSUME TaskTypes, NEW x, NEW save
    PROVE  /\ level \in {"O", "N", "L"}
           /\ level = "O" =>
                /\ SoLoadFunc(x, save) =
                     IF x = LIBDL /\ ~ is_hook_libdl_success THEN Imports[x] ELSE {}
                /\ Wanted(x) = IF x = LIBDL THEN Imports[x] ELSE {}
           /\ level = "N" => /\ SoLoadFunc(x, save) = IF ext THEN Imports[x] ELSE {}
                             /\ Wanted(x) = IF ext THEN Imports[x] ELSE {}
           /\ level = "L" => /\ SoLoadFunc(x, save) = Imports[x] \cap {"dlopen"}
                             /\ Wanted(x) = Imports[x] \cap {"dlopen"}
<1>1. level \in {"O", "N", "L"}
  BY ProcessAssumption DEF TaskTypes
<1>2. CASE level = "O"
  BY <1>2 DEF SoLoadFunc, Wanted
<1>3. CASE level = "N"
  BY <1>3 DEF SoLoadFunc, Wanted
<1>4. CASE level = "L"
  BY <1>4 DEF SoLoadFunc, Wanted
<1>5. QED
  BY <1>1, <1>2, <1>3, <1>4

\* A step that replaces no loader function and does not move start along.
LEMMA OriginalsFrame ==
    ASSUME Originals, UNCHANGED <<level, ext, origins, is_hook_libdl_success>>,
           \A q \in loaders' : q \in loaders,
           task[JAVA].pc # "visit" \/ UNCHANGED <<list, at>>,
           task'[JAVA].pc = "visit" <=> task[JAVA].pc = "visit",
           \A u \in Loaders : task'[u].pc # "idle" =>
              /\ task[u].pc # "idle" /\ task'[u].sym = task[u].sym /\ task'[u].by = task[u].by
              /\ task'[u].pc = "hook" => task[u].pc = "hook" \/ task[u].by
    PROVE  Originals'
<1>1. Redirected => Redirected'
  BY DEF Redirected, AllSaved
<1>2. /\ \A q \in loaders' : q \in Images \X origins /\ (level = "L" => q[2] = "dlopen")
      /\ loaders' # {} => Redirected'
  BY <1>1 DEF Originals
<1>3. /\ \A u \in Loaders : task'[u].pc # "idle" /\ task'[u].by =>
           task'[u].sym \in origins /\ Redirected' /\ (level = "L" => task'[u].sym = "dlopen")
      /\ \A u \in Loaders : task'[u].pc = "hook" => task'[u].by
  BY <1>1 DEF Originals
<1>4. task'[JAVA].pc = "visit" =>
        /\ at' \in Nat \ {0}
        /\ level = "N" /\ ext => \A i \in 1 .. Len(list') :
             i < at' /\ list'[i] \in Monitorable => Imports[list'[i]] \subseteq origins
  BY DEF Originals
<1>5. QED
  BY <1>2, <1>3, <1>4 DEF Originals, Monitorable

\* Start saves the originals of what it replaces.
LEMMA VisitOriginals ==
    ASSUME TaskTypes, Counts, Originals, StartVisit
    PROVE  Originals'
<1>1. /\ task[JAVA].pc = "visit" /\ UNCHANGED <<level, ext, list, task>> /\ at' = at + 1
      /\ at \in Nat \ {0} /\ at <= Len(list)
  BY DEF StartVisit, Originals
<1>2. PICK x \in Images \cup {NOBODY} : x = list[at]
  <2>1. list \in Seq(Images \cup {NOBODY}) /\ at \in 1 .. Len(list)
    BY <1>1 DEF Counts
  <2>2. list[at] \in Images \cup {NOBODY}
    BY <2>1, ElementOfSeq
  <2>3. QED
    BY <2>2
<1>3. CASE HookNothing /\ x \notin Monitorable
  <2>1. UNCHANGED <<loaders, origins, is_hook_libdl_success>>
    BY <1>3 DEF HookNothing
  <2>2. Redirected => Redirected'
    BY <1>1, <2>1 DEF Redirected
  <2>3. level = "N" /\ ext => \A i \in 1 .. Len(list) :
          i < at + 1 /\ list[i] \in Monitorable => Imports[list[i]] \subseteq origins
    BY <1>1, <1>2, <1>3 DEF Originals
  <2>4. /\ \A q \in loaders : q \in Images \X origins /\ (level = "L" => q[2] = "dlopen")
        /\ loaders # {} => Redirected'
        /\ \A u \in Loaders : task[u].pc # "idle" /\ task[u].by =>
             task[u].sym \in origins /\ Redirected' /\ (level = "L" => task[u].sym = "dlopen")
        /\ \A u \in Loaders : task[u].pc = "hook" => task[u].by
    BY <2>2 DEF Originals
  <2>5. QED
    BY <1>1, <2>1, <2>3, <2>4 DEF Originals, Monitorable
<1>4. CASE x \in Images /\ tryHookSoLoadFunc(x, TRUE)
  <2> DEFINE F == SoLoadFunc(x, TRUE)
  <2>1. /\ loaders' = loaders \cup {<<x, s>> : s \in F}
        /\ origins' = origins \cup {s \in F : <<x, s>> \notin loaders}
        /\ is_hook_libdl_success' = (is_hook_libdl_success \/ (level = "O" /\ x = LIBDL))
    BY <1>4 DEF tryHookSoLoadFunc, Saved
  <2>2. /\ level = "O" /\ F # {} => x = LIBDL
        /\ level = "N" => F = IF ext THEN Imports[x] ELSE {}
        /\ level = "L" => F \subseteq {"dlopen"}
    BY AtLevel
  <2> HIDE DEF F
  <2>3. /\ \A s \in F : s \in origins'
        /\ origins \subseteq origins'
    BY <2>1 DEF Originals
  <2>4. Redirected => Redirected'
    BY <1>1, <2>1 DEF Redirected
  <2>5. F # {} => Redirected'
    BY <1>1, <2>1, <2>2 DEF Redirected
  <2>6. ASSUME NEW q \in loaders' PROVE q \in Images \X origins' /\ (level = "L" => q[2] = "dlopen")
    BY <1>4, <2>1, <2>2, <2>3 DEF Originals
  <2>7. loaders' # {} => Redirected'
    BY <2>1, <2>4, <2>5 DEF Originals
  <2>8. /\ \A u \in Loaders : task[u].pc # "idle" /\ task[u].by =>
             task[u].sym \in origins' /\ Redirected' /\ (level = "L" => task[u].sym = "dlopen")
        /\ \A u \in Loaders : task[u].pc = "hook" => task[u].by
    BY <2>3, <2>4 DEF Originals
  <2>9. ASSUME level = "N", ext, NEW i \in 1 .. Len(list), i < at + 1, list[i] \in Monitorable
        PROVE  Imports[list[i]] \subseteq origins'
    <3>1. CASE i < at
      BY <1>1, <2>3, <2>9, <3>1 DEF Originals
    <3>2. CASE i = at
      BY <1>2, <2>2, <2>3, <2>9, <3>2
    <3>3. QED
      BY <1>1, <2>9, <3>1, <3>2
  <2>10. QED
    BY <1>1, <2>6, <2>7, <2>8, <2>9 DEF Originals, Monitorable
<1>5. QED
  <2>1. x \in {SELF, NOBODY} \cup Unparsable => HookNothing /\ x \notin Monitorable
    BY <1>2, ProcessAssumption DEF StartVisit, Monitorable
  <2>2. x \notin {SELF, NOBODY} \cup Unparsable => x \in Images /\ tryHookSoLoadFunc(x, TRUE)
    BY <1>2 DEF StartVisit
  <2>3. QED
    BY <1>3, <1>4, <2>1, <2>2

\* When start has been through the list, every loader function that any
\* library calls has its original: a library of the platform calls it too.
LEMMA ReturnOriginals ==
    ASSUME TaskTypes, Counts, Originals, StartReturn
    PROVE  Originals'
<1>1. /\ task[JAVA].pc = "visit" /\ at > Len(list) /\ at \in Nat /\ Finish(JAVA)
      /\ UNCHANGED <<level, ext, list, loaders, origins, is_hook_libdl_success>>
  BY DEF StartReturn, Originals
<1>2. /\ task'[JAVA].pc = "idle"
      /\ \A u \in Loaders : task'[u] = task[u]
  BY <1>1, FinishTask, ProcessAssumption DEF TaskTypes, Actors
<1>3. level = "N" /\ ext => AllSaved
  <2> SUFFICES ASSUME level = "N", ext, NEW x \in Images, NEW s \in Imports[x] PROVE s \in origins
    BY DEF AllSaved
  <2>1. PICK y \in Present \ ({SELF} \cup Unparsable) : s \in Imports[y]
    BY ProcessAssumption
  <2>2. y \in Monitorable /\ \E i \in 1 .. Len(list) : list[i] = y
    BY <2>1, MembersOf DEF Monitorable
  <2>3. PICK i \in 1 .. Len(list) : list[i] = y
    BY <2>2
  <2>4. i < at
    <3>1. Len(list) \in Nat
      BY DEF Counts
    <3>2. QED
      BY <1>1, <3>1
  <2>5. QED
    BY <1>1, <2>1, <2>2, <2>3, <2>4 DEF Originals
<1>4. Redirected => Redirected'
  BY <1>1, <1>3 DEF Redirected, AllSaved
<1>5. QED
  BY <1>1, <1>2, <1>4 DEF Originals

\* A library that is hooked when it is loaded provides no original, and needs
\* none: on Android 8 there is nothing left to replace, on Android 7 all the
\* originals are known, and before, the only function replaced is the one the
\* load went through.
LEMMA HookOriginals ==
    ASSUME TaskTypes, Locks, Counts, Originals, NEW t \in Loaders, HookOnLoad(t)
    PROVE  Originals'
<1>1. /\ task[t].pc = "hook" /\ g_dl_mutex = NOBODY /\ Finish(t)
      /\ UNCHANGED <<level, ext, list, at>>
  BY DEF HookOnLoad
<1>2. /\ task'[t].pc = "idle" /\ \A u \in Loaders : u # t => task'[u] = task[u]
      /\ task'[JAVA] = task[JAVA] /\ task[JAVA].pc # "visit"
  BY <1>1, FinishTask, ProcessAssumption DEF TaskTypes, Actors, Locks
<1>3. /\ task[t].by /\ task[t].sym \in origins /\ Redirected
      /\ level = "L" => task[t].sym = "dlopen"
  BY <1>1 DEF Originals
<1>4. CASE HookNothing
  BY <1>1, <1>2, <1>4, OriginalsFrame DEF HookNothing
<1>5. ASSUME NEW x \in Images, tryHookSoLoadFunc(x, FALSE) PROVE Originals'
  <2> DEFINE F == SoLoadFunc(x, FALSE)
  <2>1. /\ loaders' = loaders \cup {<<x, s>> : s \in F}
        /\ origins' = origins
        /\ is_hook_libdl_success' = (is_hook_libdl_success \/ (level = "O" /\ x = LIBDL))
    BY <1>5 DEF tryHookSoLoadFunc, Saved
  <2>2. F \subseteq origins /\ (level = "L" => F \subseteq {"dlopen"})
    <3>1. CASE level = "O"
      BY <1>3, <3>1, AtLevel DEF Redirected
    <3>2. CASE level = "N"
      BY <1>2, <1>3, <3>2, AtLevel DEF Redirected, AllSaved
    <3>3. CASE level = "L"
      BY <1>3, <3>3, AtLevel
    <3>4. QED
      BY <3>1, <3>2, <3>3, AtLevel
  <2> HIDE DEF F
  <2>3. Redirected'
    BY <1>1, <1>2, <1>3, <2>1 DEF Redirected, AllSaved
  <2>4. \A q \in loaders' : q \in Images \X origins /\ (level = "L" => q[2] = "dlopen")
    BY <2>1, <2>2 DEF Originals
  <2>5. /\ \A u \in Loaders : task'[u].pc # "idle" /\ task'[u].by =>
             task'[u].sym \in origins /\ (level = "L" => task'[u].sym = "dlopen")
        /\ \A u \in Loaders : task'[u].pc = "hook" => task'[u].by
    BY <1>2 DEF Originals
  <2>6. QED
    BY <1>1, <1>2, <2>1, <2>3, <2>4, <2>5 DEF Originals
<1>6. QED
  <2> DEFINE l == task[t].lib
             i == FirstNamed(l)
  <2>1. CASE l \notin focus.file \/ i = 0 \/ list[i] \in Unparsable
    BY <1>4, <2>1 DEF HookOnLoad
  <2>2. CASE ~ (l \notin focus.file \/ i = 0 \/ list[i] \in Unparsable)
    <3>1. list[i] \in Images /\ tryHookSoLoadFunc(list[i], FALSE)
      <4>1. list \in Seq(Images \cup {NOBODY})
        BY DEF Counts
      <4>2. i \in Named(l)
        BY <2>2, <4>1, FirstNamedFound
      <4>3. i \in 1 .. Len(list) /\ list[i] # NOBODY
        BY <4>1, <4>2 DEF Named
      <4>4. list[i] \in Images \cup {NOBODY}
        BY <4>1, <4>3, ElementOfSeq
      <4>5. QED
        BY <2>2, <4>3, <4>4 DEF HookOnLoad
    <3>2. PICK x \in Images : x = list[i]
      BY <3>1
    <3>3. QED
      BY <1>5, <3>1, <3>2
  <2>3. QED
    BY <2>1, <2>2

\* Every step keeps the originals.
LEMMA OriginalsNext ==
    ASSUME TaskTypes, Locks, Counts, Originals, [SoLoadNext]_lvars
    PROVE  Originals'
<1> USE ProcessAssumption DEF Actors
<1>1. /\ task \in [Actors -> Task] /\ JAVA \in Actors /\ Loaders \subseteq Actors
      /\ JAVA \notin Loaders /\ NOBODY # JAVA
  BY DEF TaskTypes
<1>2. ASSUME NEW f \in Focuses, StartRegister(f) PROVE Originals'
  <2>1. /\ task[JAVA].pc = "idle" /\ task'[JAVA].pc = "list"
        /\ \A u \in Loaders : task'[u] = task[u]
        /\ UNCHANGED <<level, loaders, origins, is_hook_libdl_success>>
    BY <1>1, <1>2, DoTask DEF StartRegister, Begin, JavaPcs
  <2>2. ext => ext'
    BY <1>2 DEF StartRegister
  <2>3. Redirected => Redirected'
    BY <2>1, <2>2 DEF Redirected, AllSaved
  <2>4. QED
    BY <2>1, <2>3 DEF Originals
<1>3. CASE StartList
  <2>1. /\ task[JAVA].pc = "list" /\ task'[JAVA].pc = "visit" /\ at' = 1
        /\ \A u \in Loaders : task'[u] = task[u]
        /\ UNCHANGED <<level, ext, list, loaders, origins, is_hook_libdl_success>>
    BY <1>1, <1>3, DoTask DEF StartList, JavaPcs
  <2>2. Redirected => Redirected'
    BY <2>1 DEF Redirected
  <2>3. QED
    BY <2>1, <2>2 DEF Originals
<1>4. CASE PrintLock
  <2>1. /\ task[JAVA].pc = "idle" /\ task'[JAVA].pc = "resolve"
        /\ \A u \in Loaders : task'[u] = task[u]
    BY <1>1, <1>4, DoTask DEF PrintLock, Begin, JavaPcs
  <2>2. QED
    BY <1>4, <2>1, OriginalsFrame DEF PrintLock, Originals
<1>5. CASE PrintResolved
  <2>1. /\ task[JAVA].pc = "resolve" /\ task'[JAVA].pc = "idle"
        /\ \A u \in Loaders : task'[u] = task[u]
    BY <1>1, <1>5, FinishTask DEF PrintResolved
  <2>2. QED
    BY <1>5, <2>1, OriginalsFrame DEF PrintResolved, Originals
<1>6. ASSUME NEW t \in Loaders, NEW c \in Images \ {LIBDL}, NEW l \in Plugins,
             NEW s \in Imports[c], Dlopen(t, c, s, l)
      PROVE  Originals'
  <2>1. /\ task'[JAVA] = task[JAVA] /\ \A u \in Loaders : u # t => task'[u] = task[u]
        /\ task'[t].pc = "load" /\ task'[t].sym = s /\ task'[t].by = (Through(c, s) \in loaders)
        /\ UNCHANGED <<level, ext, list, at, loaders, origins, is_hook_libdl_success>>
    BY <1>1, <1>6 DEF Dlopen
  <2>2. Redirected => Redirected'
    BY <2>1 DEF Redirected, AllSaved
  <2>3. Through(c, s) \in loaders =>
          s \in origins /\ Redirected /\ (level = "L" => s = "dlopen")
    BY DEF Through, Originals
  <2>4. ASSUME NEW u \in Loaders
        PROVE  /\ task'[u].pc # "idle" /\ task'[u].by =>
                    /\ task'[u].sym \in origins /\ Redirected'
                    /\ level = "L" => task'[u].sym = "dlopen"
               /\ task'[u].pc = "hook" => task'[u].by
    BY <2>1, <2>2, <2>3 DEF Originals
  <2>5. QED
    BY <2>1, <2>2, <2>4 DEF Originals, Monitorable
<1>7. ASSUME NEW t \in Loaders, Loading(t) PROVE Originals'
  <2>1. /\ task'[JAVA] = task[JAVA] /\ \A u \in Loaders : u # t => task'[u] = task[u]
        /\ task'[t].pc = "constructors" /\ task[t].pc # "idle"
        /\ task'[t].by = task[t].by /\ task'[t].sym = task[t].sym /\ task[JAVA].pc # "visit"
    BY <1>1, <1>7, DoTask DEF Loading, LoaderPcs, Locks
  <2>2. QED
    BY <1>7, <2>1, OriginalsFrame DEF Loading, Originals
<1>8. ASSUME NEW t \in Loaders, LoadFails(t) PROVE Originals'
  <2>1. /\ task'[JAVA] = task[JAVA] /\ \A u \in Loaders : u # t => task'[u] = task[u]
        /\ \/ task'[t].pc = "idle"
           \/ /\ task'[t].pc = "retry" /\ task[t].pc # "idle"
              /\ task'[t].by = task[t].by /\ task'[t].sym = task[t].sym
    <3>1. CASE Do(t, "retry")
      BY <1>1, <1>8, <3>1, DoTask DEF LoaderPcs, LoadFails
    <3>2. CASE Finish(t)
      BY <1>1, <3>2, FinishTask
    <3>3. QED
      BY <1>8, <3>1, <3>2 DEF LoadFails
  <2>2. QED
    BY <1>8, <2>1, OriginalsFrame DEF LoadFails, Originals
<1>9. ASSUME NEW t \in Loaders, ConstructorAllocates(t) PROVE Originals'
  <2>1. /\ task'[JAVA] = task[JAVA] /\ \A u \in Loaders : u # t => task'[u] = task[u]
        /\ task'[t].pc = "insert" /\ task[t].pc # "idle"
        /\ task'[t].by = task[t].by /\ task'[t].sym = task[t].sym
    BY <1>1, <1>9, DoTask DEF ConstructorAllocates, LoaderPcs
  <2>2. QED
    BY <1>9, <2>1, OriginalsFrame DEF ConstructorAllocates, Originals
<1>10. ASSUME NEW t \in Loaders, LoadReturns(t) PROVE Originals'
  <2>1. /\ task'[JAVA] = task[JAVA] /\ \A u \in Loaders : u # t => task'[u] = task[u]
        /\ \/ task'[t].pc = "idle"
           \/ /\ task'[t].pc = "hook" /\ task[t].pc # "idle" /\ task[t].by
              /\ task'[t].by = task[t].by /\ task'[t].sym = task[t].sym
    <3>1. CASE task[t].by
      <4>1. Do(t, "hook") /\ task[t].pc # "idle"
        BY <1>10, <3>1 DEF LoadReturns
      <4>2. /\ \A u \in Actors : u # t => task'[u] = task[u]
            /\ task'[t].pc = "hook" /\ task'[t].by = task[t].by /\ task'[t].sym = task[t].sym
        BY <1>1, <4>1, DoTask DEF LoaderPcs
      <4>3. QED
        BY <1>1, <3>1, <4>1, <4>2
    <3>2. CASE ~ task[t].by
      BY <1>1, <1>10, <3>2, FinishTask DEF LoadReturns
    <3>3. QED
      BY <3>1, <3>2
  <2>2. QED
    BY <1>10, <2>1, OriginalsFrame DEF LoadReturns, Originals
<1>11. ASSUME NEW t \in Loaders, NEW l \in Plugins, Dlclose(t, l) PROVE Originals'
  <2>1. task[JAVA].pc # "visit" /\ UNCHANGED task /\ \A q \in loaders' : q \in loaders
    BY <1>1, <1>11 DEF Dlclose, Locks
  <2>2. QED
    BY <1>11, <2>1, OriginalsFrame DEF Dlclose, Originals
<1>12. CASE UNCHANGED lvars
  BY <1>12, OriginalsFrame DEF lvars
<1>13. QED
  BY <1>2, <1>3, <1>4, <1>5, <1>6, <1>7, <1>8, <1>9, <1>10, <1>11, <1>12,
     VisitOriginals, ReturnOriginals, HookOriginals
     DEF SoLoadNext
-----------------------------------------------------------------------------
(* The libraries that are monitored. *)

\* What is hooked stays hooked, and x becomes so.
LEMMA HookingKeeps ==
    ASSUME TaskTypes, Monitored, NEW x, NEW save, tryHookSoLoadFunc(x, save),
           UNCHANGED <<level, ext>>
    PROVE  /\ is_hook_libdl_success' \in BOOLEAN
           /\ \A y : LoadersHooked(y) => LoadersHooked(y)'
           /\ LoadersHooked(x)'
           /\ level = "O" /\ is_hook_libdl_success' => LoadersHooked(LIBDL)'
<1>1. /\ loaders' = loaders \cup {<<x, s>> : s \in SoLoadFunc(x, save)}
      /\ is_hook_libdl_success' = (is_hook_libdl_success \/ (level = "O" /\ x = LIBDL))
  BY DEF tryHookSoLoadFunc
<1>2. \A y : Wanted(y)' = Wanted(y)
  BY DEF Wanted
<1>3. \A y : LoadersHooked(y) => LoadersHooked(y)'
  BY <1>1, <1>2 DEF LoadersHooked
<1>4. LoadersHooked(x)'
  <2>1. CASE level = "O" /\ x = LIBDL /\ is_hook_libdl_success
    BY <1>3, <2>1 DEF Monitored
  <2>2. CASE ~ (level = "O" /\ x = LIBDL /\ is_hook_libdl_success)
    <3>1. Wanted(x) = SoLoadFunc(x, save)
      BY <2>2, AtLevel
    <3>2. QED
      BY <1>1, <1>2, <3>1 DEF LoadersHooked
  <2>3. QED
    BY <2>1, <2>2
<1>5. QED
  BY <1>1, <1>3, <1>4 DEF Monitored

\* A step that hooks and meets nothing.
LEMMA MonitoredFrame ==
    ASSUME Monitored,
           UNCHANGED <<level, focus, ext, pointers, loaders, is_hook_libdl_success, known>>,
           \A u \in Loaders : task'[u].pc # "idle" =>
              task[u].pc # "idle" /\ task'[u].meant = task[u].meant /\ task'[u].by = task[u].by
    PROVE  Monitored'
<1>1. \A y : LoadersHooked(y)' = LoadersHooked(y)
  BY DEF LoadersHooked, Wanted
<1>2. \A u \in Loaders : task'[u].pc # "idle" /\ task'[u].meant => task'[u].by
  BY DEF Monitored
<1>3. QED
  BY <1>1, <1>2 DEF Monitored, Monitorable, Unambiguous

\* Start hooks what it meets.
LEMMA VisitMonitored ==
    ASSUME TaskTypes, Counts, Originals, Monitored, StartVisit
    PROVE  Monitored'
<1>1. /\ UNCHANGED <<level, focus, ext, task>>
      /\ at \in Nat \ {0} /\ at <= Len(list)
  BY DEF StartVisit, Originals
<1>2. PICK x \in Images \cup {NOBODY} : x = list[at]
  <2>1. list \in Seq(Images \cup {NOBODY}) /\ at \in 1 .. Len(list)
    BY <1>1 DEF Counts
  <2>2. list[at] \in Images \cup {NOBODY}
    BY <2>1, ElementOfSeq
  <2>3. QED
    BY <2>2
<1>3. /\ known' \subseteq Images \X {"path", "file"}
      /\ \A y : <<y, "file">> \in known' => <<y, "file">> \in known
      /\ \A y : <<y, "path">> \in known' => <<y, "path">> \in known \/ y = x
  <2>1. known' = known \cup (({x} \ {NOBODY}) \X {"path"})
    BY <1>2 DEF StartVisit
  <2>2. QED
    BY <1>2, <2>1 DEF Monitored
<1>4. CASE HookNothing /\ x \notin Monitorable
  <2>1. UNCHANGED <<pointers, loaders, is_hook_libdl_success>>
    BY <1>4 DEF HookNothing
  <2>2. \A y : LoadersHooked(y)' = LoadersHooked(y)
    BY <1>1, <2>1 DEF LoadersHooked, Wanted
  <2>3. QED
    BY <1>1, <1>3, <1>4, <2>1, <2>2 DEF Monitored, Monitorable, Unambiguous
<1>5. CASE /\ tryHookSoLoadFunc(x, TRUE)
           /\ pointers' = IF x \in focus.path THEN pointers \cup {x} ELSE pointers
  <2>1. /\ is_hook_libdl_success' \in BOOLEAN
        /\ \A y : LoadersHooked(y) => LoadersHooked(y)'
        /\ LoadersHooked(x)'
        /\ level = "O" /\ is_hook_libdl_success' => LoadersHooked(LIBDL)'
    BY <1>1, <1>5, HookingKeeps
  <2>2. ASSUME NEW y \in Monitorable, <<y, "path">> \in known'
        PROVE  LoadersHooked(y)' /\ (y \in focus.path => y \in pointers')
    BY <1>3, <1>5, <2>1, <2>2 DEF Monitored
  <2>3. ASSUME NEW y \in Monitorable, <<y, "file">> \in known', Unambiguous(y)
        PROVE  LoadersHooked(y)' /\ y \in pointers'
    BY <1>3, <1>5, <2>1, <2>3 DEF Monitored
  <2>4. \A u \in Loaders : task'[u].pc # "idle" /\ task'[u].meant => task'[u].by
    BY <1>1 DEF Monitored
  <2>5. QED
    BY <1>1, <1>3, <2>1, <2>2, <2>3, <2>4 DEF Monitored, Monitorable, Unambiguous
<1>6. QED
  <2>1. x \in {SELF, NOBODY} \cup Unparsable => HookNothing /\ x \notin Monitorable
    BY <1>2, ProcessAssumption DEF StartVisit, Monitorable
  <2>2. x \notin {SELF, NOBODY} \cup Unparsable =>
          /\ tryHookSoLoadFunc(x, TRUE)
          /\ pointers' = IF x \in focus.path THEN pointers \cup {x} ELSE pointers
    BY <1>2 DEF StartVisit
  <2>3. QED
    BY <1>4, <1>5, <2>1, <2>2

\* A call that the session is meant to see goes through a replaced function.
LEMMA MeantSeen ==
    ASSUME TaskTypes, Monitored, NEW c \in Images, NEW s \in Imports[c], Meant(c, s)
    PROVE  Through(c, s) \in loaders
<1>1. level \in {"O", "N", "L"} /\ level \in Levels
  BY AtLevel DEF TaskTypes
<1>2. CASE level = "O"
  <2>1. <<LIBDL, "path">> \in known /\ Through(c, s) = <<LIBDL, s>>
    BY <1>2 DEF Meant, Through
  <2>2. LIBDL \in Monitorable /\ s \in Imports[LIBDL]
    <3>1. LIBDL \in Present \ ({SELF} \cup Unparsable) /\ Preloaded \in Seq(Images)
      BY ProcessAssumption
    <3>2. Present \subseteq Images
      BY <3>1, ElementOfSeq DEF Present
    <3>3. s \in Imports[LIBDL]
      BY <1>1, <1>2, ProcessAssumption
    <3>4. QED
      BY <3>1, <3>2, <3>3 DEF Monitorable
  <2>3. LoadersHooked(LIBDL) /\ Wanted(LIBDL) = Imports[LIBDL]
    BY <1>2, <2>1, <2>2, AtLevel DEF Monitored
  <2>4. QED
    BY <2>1, <2>2, <2>3 DEF LoadersHooked
<1>3. CASE level \in {"N", "L"}
  <2>1. Met(c) /\ (level = "N" => ext) /\ (level = "L" => s = "dlopen") /\ Through(c, s) = <<c, s>>
    <3>1. CASE level = "N"
      BY <3>1 DEF Meant, Through
    <3>2. CASE level = "L"
      BY <3>2 DEF Meant, Through
    <3>3. QED
      BY <1>3, <3>1, <3>2
  <2>2. LoadersHooked(c)
    BY <2>1 DEF Met, Monitored, Monitorable
  <2>3. s \in Wanted(c)
    BY <1>3, <2>1, AtLevel
  <2>4. QED
    BY <2>1, <2>2, <2>3 DEF LoadersHooked
<1>4. QED
  BY <1>1, <1>2, <1>3

\* A load that goes through a replaced function ends with the library hooked
\* that it loaded, if no other has the name: the thread's reference keeps it
\* in the list until then.
LEMMA HookMonitored ==
    ASSUME TaskTypes, Counts, Monitored, NEW t \in Loaders, HookOnLoad(t)
    PROVE  Monitored'
<1>1. PICK l \in Images : l = task[t].lib
  BY ProcessAssumption DEF HookOnLoad, TaskTypes
<1> DEFINE i == FirstNamed(l)
<1>2. /\ task[t].pc = "hook" /\ Finish(t) /\ known' = known \cup Loaded2(l)
      /\ UNCHANGED <<level, focus, ext>>
  BY <1>1 DEF HookOnLoad
<1>3. \A u \in Loaders : task'[u].pc # "idle" /\ task'[u].meant => task'[u].by
  BY <1>2, FinishTask DEF TaskTypes, Actors, Monitored
<1>4. /\ known' \subseteq Images \X {"path", "file"}
      /\ \A y : <<y, "path">> \in known' => <<y, "path">> \in known
      /\ \A y : <<y, "file">> \in known' =>
                  <<y, "file">> \in known \/ (y = l /\ l \in focus.file)
  BY <1>2 DEF Loaded2, Monitored
<1>5. /\ list \in Seq(Images \cup {NOBODY})
      /\ i # 0 => i \in Named(l) /\ i \in 1 .. Len(list) /\ list[i] \in Images \ {SELF}
                  /\ <<list[i], l>> \in SameName
  <2>1. list \in Seq(Images \cup {NOBODY})
    BY DEF Counts
  <2>2. i # 0 => i \in Named(l)
    BY <2>1, FirstNamedFound
  <2>3. i # 0 => /\ i \in 1 .. Len(list) /\ list[i] \notin {SELF, NOBODY}
                 /\ <<list[i], l>> \in SameName
    BY <2>1, <2>2 DEF Named
  <2>4. i \in 1 .. Len(list) => list[i] \in Images \cup {NOBODY}
    BY <2>1, ElementOfSeq
  <2>5. QED
    BY <2>1, <2>2, <2>3, <2>4
<1>6. l \in Monitorable /\ Unambiguous(l) => i # 0 /\ list[i] = l
  <2> SUFFICES ASSUME l \in Monitorable, Unambiguous(l) PROVE i # 0 /\ list[i] = l
    OBVIOUS
  <2>1. t \in Pending(l)
    BY <1>1, <1>2 DEF Pending, Busy
  <2>2. Cardinality(Pending(l)) # 0
    BY <2>1, Countable, FS_EmptySet
  <2>3. refs[l] > 0
    <3>1. /\ refs[l] >= Base(l) + handles[l] + Cardinality(Pending(l)) + Cardinality(Users(l))
          /\ refs[l] \in Nat /\ handles[l] \in Nat /\ Base(l) \in Nat
          /\ Cardinality(Pending(l)) \in Nat /\ Cardinality(Users(l)) \in Nat
      BY Countable DEF Counts, Base
    <3>2. QED
      BY <2>2, <3>1
  <2>4. \E j \in 1 .. Len(list) : list[j] = l
    BY <2>3, MembersOf DEF Counts
  <2>5. PICK j \in 1 .. Len(list) : list[j] = l
    BY <2>4
  <2>6. j \in Named(l)
    BY <1>5, <2>5, ProcessAssumption DEF Named, Monitorable
  <2>7. i # 0
    BY <1>5, <2>6, FirstNamedFound
  <2>8. QED
    BY <1>5, <2>7 DEF Unambiguous
<1>7. ASSUME l \notin focus.file \/ i = 0 \/ list[i] \in Unparsable PROVE Monitored'
  <2>1. UNCHANGED <<pointers, loaders, is_hook_libdl_success>>
    BY <1>1, <1>7 DEF HookOnLoad, HookNothing
  <2>2. \A y : LoadersHooked(y)' = LoadersHooked(y)
    BY <1>2, <2>1 DEF LoadersHooked, Wanted
  <2>3. ASSUME NEW y \in Monitorable, <<y, "file">> \in known', Unambiguous(y)
        PROVE  <<y, "file">> \in known
    BY <1>4, <1>6, <1>7, <2>3 DEF Monitorable
  <2>4. /\ \A y \in Monitorable : <<y, "path">> \in known' =>
             LoadersHooked(y)' /\ (y \in focus.path => y \in pointers)
        /\ \A y \in Monitorable : <<y, "file">> \in known' /\ Unambiguous(y) =>
             LoadersHooked(y)' /\ y \in pointers
    BY <1>4, <2>2, <2>3 DEF Monitored
  <2>5. QED
    BY <1>2, <1>3, <1>4, <2>1, <2>2, <2>4 DEF Monitored, Monitorable, Unambiguous
<1>8. ASSUME ~ (l \notin focus.file \/ i = 0 \/ list[i] \in Unparsable) PROVE Monitored'
  <2>1. PICK x : x = list[i]
    OBVIOUS
  <2>2. tryHookSoLoadFunc(x, FALSE) /\ pointers' = pointers \cup {x}
    BY <1>1, <1>8, <2>1 DEF HookOnLoad
  <2>3. /\ is_hook_libdl_success' \in BOOLEAN
        /\ \A y : LoadersHooked(y) => LoadersHooked(y)'
        /\ LoadersHooked(x)'
        /\ level = "O" /\ is_hook_libdl_success' => LoadersHooked(LIBDL)'
    BY <1>2, <2>2, HookingKeeps
  <2>4. /\ \A y \in Monitorable : <<y, "path">> \in known' =>
             LoadersHooked(y)' /\ (y \in focus.path => y \in pointers')
        /\ \A y \in Monitorable : <<y, "file">> \in known' /\ Unambiguous(y) =>
             LoadersHooked(y)' /\ y \in pointers'
    BY <1>4, <1>6, <2>1, <2>2, <2>3 DEF Monitored
  <2>5. QED
    BY <1>2, <1>3, <1>4, <2>3, <2>4 DEF Monitored, Monitorable, Unambiguous
<1>9. QED
  BY <1>7, <1>8

\* A library that is unloaded is forgotten with its hooks, and libdl.so is not
\* unloaded.
LEMMA DlcloseMonitored ==
    ASSUME Counts', Monitored, NEW t, NEW l \in Images, Dlclose(t, l)
    PROVE  Monitored'
<1> DEFINE stays == {x \in Images : refs'[x] > 0}
<1>1. /\ UNCHANGED <<level, focus, ext, is_hook_libdl_success, task>>
      /\ pointers' = pointers \cap stays
      /\ loaders' = {p \in loaders : p[1] \in stays}
      /\ known' = {p \in known : p[1] \in stays}
  BY DEF Dlclose
<1>2. LIBDL \in stays
  <2>1. LIBDL \in Present /\ Preloaded \in Seq(Images)
    BY ProcessAssumption
  <2>2. LIBDL \in Images /\ Base(LIBDL) = 1
    BY <2>1, ElementOfSeq DEF Present, Base
  <2>3. /\ refs'[LIBDL] >= Base(LIBDL) + handles'[LIBDL] + Cardinality(Pending(LIBDL)')
                             + Cardinality(Users(LIBDL)')
        /\ refs'[LIBDL] \in Nat /\ handles'[LIBDL] \in Nat
        /\ Cardinality(Pending(LIBDL)') \in Nat /\ Cardinality(Users(LIBDL)') \in Nat
    BY <2>2, Countable DEF Counts, Base
  <2>4. QED
    BY <2>2, <2>3
<1> HIDE DEF stays
<1>3. \A y \in stays : LoadersHooked(y) => LoadersHooked(y)'
  <2>1. \A y : Wanted(y)' = Wanted(y)
    BY <1>1 DEF Wanted
  <2>2. QED
    BY <1>1, <2>1 DEF LoadersHooked
<1>4. \A y : \A how : <<y, how>> \in known' => <<y, how>> \in known /\ y \in stays
  BY <1>1
<1>5. /\ \A y \in Monitorable : <<y, "path">> \in known' =>
           LoadersHooked(y)' /\ (y \in focus.path => y \in pointers')
      /\ \A y \in Monitorable : <<y, "file">> \in known' /\ Unambiguous(y) =>
           LoadersHooked(y)' /\ y \in pointers'
  BY <1>1, <1>3, <1>4 DEF Monitored
<1>6. QED
  BY <1>1, <1>2, <1>3, <1>5 DEF Monitored, Monitorable, Unambiguous

\* Every step keeps what the session has met hooked.
LEMMA MonitoredNext ==
    ASSUME TaskTypes, Counts, Counts', Originals, Monitored, [SoLoadNext]_lvars
    PROVE  Monitored'
<1> USE ProcessAssumption DEF Actors
<1>1. /\ task \in [Actors -> Task] /\ JAVA \in Actors /\ Loaders \subseteq Actors
      /\ JAVA \notin Loaders /\ Plugins \subseteq Images
  BY DEF TaskTypes
<1>2. ASSUME NEW f \in Focuses, StartRegister(f) PROVE Monitored'
  <2>1. /\ \A u \in Loaders : task'[u] = task[u]
        /\ UNCHANGED <<level, pointers, loaders, is_hook_libdl_success>> /\ known' = {}
    BY <1>1, <1>2, DoTask DEF StartRegister, JavaPcs
  <2>2. level = "O" /\ LoadersHooked(LIBDL) => LoadersHooked(LIBDL)'
    <3>1. level = "O" => Wanted(LIBDL) = Imports[LIBDL]
      BY AtLevel
    <3>2. level' = "O" => Wanted(LIBDL)' = Imports[LIBDL]
      BY DEF Wanted
    <3>3. QED
      BY <2>1, <3>1, <3>2 DEF LoadersHooked
  <2>3. QED
    BY <2>1, <2>2 DEF Monitored
<1>3. CASE StartList
  BY <1>1, <1>3, DoTask, MonitoredFrame DEF StartList, JavaPcs
<1>4. CASE StartReturn
  BY <1>1, <1>4, FinishTask, MonitoredFrame DEF StartReturn
<1>5. CASE PrintLock
  BY <1>1, <1>5, DoTask, MonitoredFrame DEF PrintLock, JavaPcs
<1>6. CASE PrintResolved
  BY <1>1, <1>6, FinishTask, MonitoredFrame DEF PrintResolved
<1>7. ASSUME NEW t \in Loaders, NEW c \in Images \ {LIBDL}, NEW l \in Plugins,
             NEW s \in Imports[c], Dlopen(t, c, s, l)
      PROVE  Monitored'
  <2>1. /\ \A u \in Loaders : u # t => task'[u] = task[u]
        /\ task'[t].by = (Through(c, s) \in loaders) /\ task'[t].meant = Meant(c, s)
        /\ UNCHANGED <<level, focus, ext, pointers, loaders, is_hook_libdl_success, known>>
    BY <1>1, <1>7 DEF Dlopen
  <2>2. Meant(c, s) => Through(c, s) \in loaders
    BY MeantSeen
  <2>3. \A u \in Loaders : task'[u].pc # "idle" /\ task'[u].meant => task'[u].by
    BY <2>1, <2>2 DEF Monitored
  <2>4. \A y : LoadersHooked(y)' = LoadersHooked(y)
    BY <2>1 DEF LoadersHooked, Wanted
  <2>5. QED
    BY <2>1, <2>3, <2>4 DEF Monitored, Monitorable, Unambiguous
<1>8. ASSUME NEW t \in Loaders, Loading(t) PROVE Monitored'
  <2>1. /\ \A u \in Loaders : u # t => task'[u] = task[u]
        /\ task[t].pc # "idle" /\ task'[t].by = task[t].by /\ task'[t].meant = task[t].meant
    BY <1>1, <1>8, DoTask DEF Loading, LoaderPcs
  <2>2. QED
    BY <1>8, <2>1, MonitoredFrame DEF Loading
<1>9. ASSUME NEW t \in Loaders, LoadFails(t) PROVE Monitored'
  <2>1. /\ \A u \in Loaders : u # t => task'[u] = task[u]
        /\ \/ task'[t].pc = "idle"
           \/ task[t].pc # "idle" /\ task'[t].by = task[t].by /\ task'[t].meant = task[t].meant
    <3>1. CASE Do(t, "retry")
      BY <1>1, <1>9, <3>1, DoTask DEF LoaderPcs, LoadFails
    <3>2. CASE Finish(t)
      BY <1>1, <3>2, FinishTask
    <3>3. QED
      BY <1>9, <3>1, <3>2 DEF LoadFails
  <2>2. QED
    BY <1>9, <2>1, MonitoredFrame DEF LoadFails
<1>10. ASSUME NEW t \in Loaders, ConstructorAllocates(t) PROVE Monitored'
  <2>1. /\ \A u \in Loaders : u # t => task'[u] = task[u]
        /\ task[t].pc # "idle" /\ task'[t].by = task[t].by /\ task'[t].meant = task[t].meant
    BY <1>1, <1>10, DoTask DEF ConstructorAllocates, LoaderPcs
  <2>2. QED
    BY <1>10, <2>1, MonitoredFrame DEF ConstructorAllocates
\* A load that went around the proxies was not meant to be seen.
<1>11. ASSUME NEW t \in Loaders, LoadReturns(t) PROVE Monitored'
  <2>1. task[t].pc # "idle"
    BY <1>11 DEF LoadReturns
  <2>2. CASE task[t].by
    <3>1. Do(t, "hook") /\ UNCHANGED known
      BY <1>11, <2>2 DEF LoadReturns
    <3>2. /\ \A u \in Loaders : u # t => task'[u] = task[u]
          /\ task'[t].by = task[t].by /\ task'[t].meant = task[t].meant
      BY <1>1, <3>1, DoTask DEF LoaderPcs
    <3>3. QED
      BY <1>11, <2>1, <3>1, <3>2, MonitoredFrame DEF LoadReturns
  <2>3. CASE ~ task[t].by
    <3>1. ~ task[t].meant
      BY <2>1, <2>3 DEF Monitored
    <3>2. Finish(t) /\ UNCHANGED known
      BY <1>11, <2>3, <3>1 DEF LoadReturns
    <3>3. /\ \A u \in Loaders : u # t => task'[u] = task[u]
          /\ task'[t].pc = "idle"
      BY <1>1, <3>2, FinishTask
    <3>4. QED
      BY <1>11, <3>2, <3>3, MonitoredFrame DEF LoadReturns
  <2>4. QED
    BY <2>2, <2>3
<1>12. ASSUME NEW t \in Loaders, NEW l \in Plugins, Dlclose(t, l) PROVE Monitored'
  BY <1>1, <1>12, DlcloseMonitored
<1>13. CASE UNCHANGED lvars
  BY <1>13, MonitoredFrame DEF lvars
<1>14. QED
  BY <1>2, <1>3, <1>4, <1>5, <1>6, <1>7, <1>8, <1>9, <1>10, <1>11, <1>12, <1>13,
     VisitMonitored, HookMonitored
     DEF SoLoadNext
-----------------------------------------------------------------------------
(* The theorems. *)

\* The process begins with the platform's libraries loaded and nothing hooked.
LEMMA SoInitially == SoLoadInit => SoInv
<1> SUFFICES ASSUME NEW v \in Levels, SoLoadInitOf(v) PROVE SoInv
  BY DEF SoLoadInit
<1> USE ProcessAssumption
<1>1. TaskTypes /\ Locks
  <2>1. Resting \in Task /\ Resting.pc = "idle"
    BY DEF Resting, Task, LoaderPcs
  <2>2. task = [t \in Actors |-> Resting] /\ level = v
    BY DEF SoLoadInitOf, Actors
  <2>3. \A t \in Actors : task[t].pc = "idle"
    BY <2>1, <2>2
  <2>4. task \in [Actors -> Task] /\ JAVA \in Actors /\ Loaders \subseteq Actors
    BY <2>1, <2>2 DEF Actors
  <2>5. QED
    BY <2>2, <2>3, <2>4 DEF TaskTypes, Locks, LoaderPcs, JavaPcs
<1>2. \A t \in Loaders : task[t].pc = "idle"
  BY DEF SoLoadInitOf, Resting
<1>3. Counts
  <2>1. /\ list = Preloaded /\ Preloaded \in Seq(Images)
        /\ refs = [x \in Images |-> IF x \in Present THEN 1 ELSE 0]
        /\ handles = [x \in Images |-> 0]
    BY DEF SoLoadInitOf
  <2>2. list \in Seq(Images \cup {NOBODY})
    BY <2>1
  <2>3. \A x \in Images : x \in Members <=> x \in Present
    BY <2>1 DEF Members, Present
  <2>4. ASSUME NEW x \in Images PROVE Cardinality(Pending(x)) = 0 /\ Cardinality(Users(x)) = 0
    <3>1. Pending(x) = {}
      BY <1>2 DEF Pending, Busy
    <3>2. Users(x) = {}
      BY <2>1 DEF Users
    <3>3. QED
      BY <3>1, <3>2, FS_EmptySet
  <2>5. ASSUME NEW x \in Images
        PROVE  /\ refs[x] >= Base(x) + handles[x] + Cardinality(Pending(x)) + Cardinality(Users(x))
               /\ x \in Members <=> refs[x] > 0
    BY <2>1, <2>3, <2>4 DEF Base
  <2>6. QED
    BY <2>1, <2>2, <2>5 DEF Counts
<1>4. task[JAVA].pc # "visit"
  BY DEF SoLoadInitOf, Resting
<1>5. Originals
  BY <1>2, <1>4 DEF SoLoadInitOf, Originals
<1>6. Monitored
  BY <1>2 DEF SoLoadInitOf, Monitored
<1>7. QED
  BY <1>1, <1>3, <1>5, <1>6 DEF SoInv

\* The invariant holds throughout.
LEMMA SoAlways == SoLoadSpec => []SoInv
<1>1. SoInv /\ [SoLoadNext]_lvars => SoInv'
  BY LocksNext, CountsNext, OriginalsNext, MonitoredNext DEF SoInv
<1>2. QED
  BY SoInitially, <1>1, PTL DEF SoLoadSpec

\* A loader's proxy always has an original to call, on every version of
\* Android, whatever the libraries, the threads and their calls.
THEOREM SoOriginSaved == SoLoadSpec => []OriginSaved
<1>1. SoInv => OriginSaved
  BY DEF SoInv, Originals, OriginSaved
<1>2. QED
  BY SoAlways, <1>1, PTL

\* A focused library that the session has met is monitored, whoever loads and
\* unloads while start goes through the list.
THEOREM SoFocusedHooked == SoLoadSpec => []FocusedHooked
<1>1. SoInv => FocusedHooked
  BY DEF SoInv, Monitored, FocusedHooked, Monitorable
<1>2. QED
  BY SoAlways, <1>1, PTL
===============================================================================
