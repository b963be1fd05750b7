-------------------------------- MODULE Unwind --------------------------------
(***************************************************************************)
(* How an allocation gets its trace: insert_memory_backtrace unwinds the   *)
(* stack into an array of MAX_TRACE_DEPTH entries, and MemoryCache::insert *)
(* copies it, without its first two entries, into the record.  On ARM the  *)
(* unwinder interprets the exception tables (unwind32), on ARM64 it        *)
(* follows the frame pointers (unwind64).                                  *)
(*                                                                         *)
(* A thread is a record of Threads: its stack, a function from addresses   *)
(* in words to values, its registers and, on ARM, the exception table of   *)
(* the code it runs.  Code addresses count bytes; odd ones are Thumb.      *)
(***************************************************************************)
EXTENDS Integers, Sequences, FiniteSets, FiniteSetsExt

CONSTANTS
    Threads,
    Depths,            \* depth of the configuration
    MAX_TRACE_DEPTH,
    MIN_PC,            \* 0x10000000
    MIN_R7,            \* 0x10000
    GARBAGE            \* an array entry nothing was written to

VARIABLES
    thread, depth,
    regs,              \* gregs (ARM); fp and the last pc (ARM64)
    frame,             \* index of the loop over frames
    ignored_frames,
    trace,             \* backtrace.trace, the entries written
    upc,               \* unwind, insert, done
    stored             \* trace of the record

\* Depths are numbers, and the arrays have room for an entry and its end.
ASSUME TraceArrays == Depths \subseteq Nat /\ MAX_TRACE_DEPTH \in Nat \ {0, 1}

\* The words of an ARM64 thread's stack, from sb up to top; the unwinder's own
\* frame is above sb.
ASSUME StackRange ==
    \A t \in {x \in Threads : x.arch = "arm64"} :
        /\ {t.top, t.regs.sb, t.regs.fp} \subseteq Int /\ t.regs.fp > t.regs.sb
        /\ \A a \in t.regs.sb + 1 .. t.top - 1 : a \in DOMAIN t.stack /\ t.stack[a] \in Int

uvars == <<thread, depth, regs, frame, ignored_frames, trace, upc, stored>>

R_SP == 13
R_LR == 14
R_PC == 15
IGNORE_DEPTH == 2

\* The depth the unwinders are called with.
max_depth == depth + 1
OnStack(a) == a \in DOMAIN thread.stack
-----------------------------------------------------------------------------
(* unwind32: exception tables. *)

\* The entry whose range has pc: binary search in low .. high - 1, from 0.
SearchExidx(t, pc) ==
    LET Search[low \in Nat, high \in Nat] ==
            LET index == (low + high) \div 2
            IN  IF low >= high THEN -1
                ELSE IF pc < t[index + 1].start THEN Search[low, index]
                ELSE IF index + 1 < Len(t) /\ pc >= t[index + 2].start THEN Search[index + 1, high]
                ELSE index
    IN  Search[0, Len(t)]

\* The unwind instructions for pc, or what keeps it from being unwound.
get_exception_handler(pc) ==
    LET i == SearchExidx(thread.exidx, pc)
    IN  IF pc = 0 \/ i = -1 THEN [kind |-> "cantunwind"] ELSE thread.exidx[i + 1].handler

Bits(n) == {k \in 0 .. 7 : (n \div 2 ^ k) % 2 = 1}

\* try_pop_registers: the registers of mask, from the lowest up.
Pop(r, mask) ==
    LET At(i) == r[R_SP] + Cardinality({j \in mask : j < i})
    IN  [ok |-> \A i \in mask : OnStack(At(i)),
         regs |-> [i \in 0 .. 15 |-> IF i \in mask /\ OnStack(At(i)) THEN thread.stack[At(i)]
                                     ELSE IF i = R_SP THEN r[R_SP] + Cardinality(mask) ELSE r[i]]]

\* uleb128 at b[i]: its value and what follows it; ok if it ends.
Uleb(b, i) ==
    LET Sum[k \in Nat] == (IF k = i THEN 0 ELSE Sum[k - 1]) + (b[k] % 128) * 2 ^ (7 * (k - i))
        Ends == {k \in i .. Len(b) : b[k] < 128}
    IN  IF Ends = {} THEN [ok |-> FALSE, value |-> 0, next |-> i]
        ELSE [ok |-> TRUE, value |-> Sum[Min(Ends)], next |-> Min(Ends) + 1]

Move(r, words) == [ok |-> TRUE, regs |-> [r EXCEPT ![R_SP] = @ + words]]
Refuse(r) == [ok |-> FALSE, regs |-> r]

\* One instruction op with its second byte op2 (-1 behind the end).
Instruction(r, op, op2) ==
    LET two == op2 # -1
    IN  CASE op < 64 -> Move(r, op + 1)
          [] op \in 64 .. 127 -> Move(r, -(op % 64) - 1)
          [] op \in 128 .. 143 ->
               LET mask == {12 + k : k \in Bits(op % 16)} \cup {4 + k : k \in Bits(op2)}
               IN  IF ~ two \/ mask = {} THEN Refuse(r) ELSE Pop(r, mask)
          [] op \in 144 .. 159 ->
               IF op % 16 \in {13, 15} THEN Refuse(r)
               ELSE LET from == IF op = 151 /\ r[7] < MIN_R7 THEN 12 ELSE op % 16
                    IN  [ok |-> TRUE, regs |-> [r EXCEPT ![R_SP] = r[from]]]
          [] op \in 160 .. 167 -> Pop(r, 4 .. 4 + (op % 8))
          [] op \in 168 .. 175 -> Pop(r, (4 .. 4 + (op % 8)) \cup {R_LR})
          [] op = 177 -> IF two /\ op2 \in 1 .. 15 THEN Pop(r, Bits(op2)) ELSE Refuse(r)
          [] op = 179 -> IF two THEN Move(r, 2 * (op2 % 16) + 3) ELSE Refuse(r)
          [] op \in 184 .. 191 -> Move(r, 2 * (op % 8) + 3)
          [] op \in 192 .. 199 \cup 208 .. 215 -> Move(r, 2 * (op % 8) + 2)
          [] op \in {200, 201} -> IF two THEN Move(r, 2 * (op2 % 16) + 2) ELSE Refuse(r)
          [] OTHER -> Refuse(r)

TwoBytes(op) == op \in 128 .. 143 \cup {177, 179, 200, 201}

\* execute_personality_routine; pcSet: r15 was popped before byte i.
Execute(b, gregs) ==
    LET From[i \in Nat, r \in [0 .. 15 -> Int], pcSet \in BOOLEAN] ==
            LET op == b[i]
                op2 == IF i < Len(b) THEN b[i + 1] ELSE -1
                u == Uleb(b, i + 1)
                s == Instruction(r, op, op2)
            IN  IF i > Len(b) \/ op = 176
                THEN [ok |-> TRUE, regs |-> IF pcSet THEN r ELSE [r EXCEPT ![R_PC] = r[R_LR]]]
                ELSE IF op = 178
                THEN IF u.ok THEN From[u.next, [r EXCEPT ![R_SP] = @ + u.value + 129], pcSet] ELSE Refuse(r)
                ELSE IF ~ s.ok THEN s
                ELSE From[IF TwoBytes(op) THEN i + 2 ELSE i + 1, s.regs, pcSet \/ (op \in 136 .. 143)]
    IN  From[1, gregs, FALSE]

\* try_pop_Stack_ForNotSaveInASM: the return address is expected right below
\* sp; if it is not there, sp is moved behind the next word that equals it.
ForNotSaveInASM(r) ==
    LET sp == r[R_SP]
        Hits == {k \in 0 .. 15 : /\ \A j \in 0 .. k : OnStack(sp + j)
                                 /\ thread.stack[sp + k] = r[R_PC]}
    IN  IF ~ OnStack(sp - 1) \/ thread.stack[sp - 1] = r[R_PC] \/ Hits = {} THEN r
        ELSE [r EXCEPT ![R_SP] = sp + Min(Hits) + 1]

\* Mutant: every Thumb call is taken for a short one.
RewindShort(pc) == IF pc % 2 = 1 THEN pc - 2 ELSE pc - 4

\* rewind_pc_arch: the address of the call before pc.  A long Thumb call is
\* recognised by the halfwords in front of pc.
Rewind(pc) == IF pc % 2 = 1 /\ pc \notin thread.long THEN pc - 2 ELSE pc - 4
-----------------------------------------------------------------------------
(* The steps. *)

UnwindInitOf(t, d) ==
    /\ thread = t /\ depth = d
    /\ regs = thread.regs
    /\ frame = 0 /\ ignored_frames = 0
    /\ trace = <<>> /\ stored = <<>>
    /\ upc = "unwind"

UnwindInit == \E t \in Threads, d \in Depths : UnwindInitOf(t, d)

Continues(t) == Len(t) < max_depth

\* One turn of unwind_backtrace_common.  (The entry for LR behind the loop is
\* never made: the list of maps it looks in is empty.)
UnwindFrame32 ==
    /\ upc = "unwind" /\ thread.arch = "arm"
    /\ LET pc == IF frame = 0 THEN regs[R_PC] ELSE Rewind(regs[R_PC])
           handler == get_exception_handler(pc)
           run == Execute(handler.bytes, regs)
           first == frame = 0 /\ regs[R_LR] # 0 /\ regs[R_LR] # regs[R_PC]
       IN  IF ~ Continues(trace) \/ regs[R_PC] < MIN_PC
           THEN upc' = "insert" /\ UNCHANGED <<regs, frame, ignored_frames, trace>>
           ELSE /\ IF ignored_frames < IGNORE_DEPTH
                   THEN ignored_frames' = ignored_frames + 1 /\ UNCHANGED trace
                   ELSE trace' = Append(trace, pc) /\ UNCHANGED ignored_frames
                /\ frame' = frame + 1
                /\ CASE handler.kind = "cantunwind" /\ first ->
                          /\ regs' = [regs EXCEPT ![R_PC] = regs[R_LR]]
                          /\ UNCHANGED upc
                     [] handler.kind = "builtin" /\ run.ok ->
                          /\ regs' = IF Len(trace') = 1 THEN ForNotSaveInASM(run.regs) ELSE run.regs
                          /\ upc' = IF regs'[R_PC] = 0 THEN "insert" ELSE "unwind"
                     [] OTHER -> upc' = "insert" /\ UNCHANGED regs
    /\ UNCHANGED <<thread, depth, stored>>

\* Mutant: the frame below the stack's end is read.
ValidAtTop(fp, st, sb) == fp > sb /\ fp <= st

isValid(fp, st, sb) == fp > sb /\ fp < st - 2

\* One turn of unwind_backtrace: regs are fp, sb and the last pc.
UnwindFrame64 ==
    /\ upc = "unwind" /\ thread.arch = "arm64"
    /\ LET fp == regs.fp
           tt == thread.stack[fp + 1]
           pre == thread.stack[fp]
       IN  IF isValid(fp, thread.top, regs.sb) /\ Continues(trace) /\ pre % 2 = 0 /\ pre >= fp + 2
           THEN /\ trace' = IF tt # regs.pc THEN Append(trace, tt) ELSE trace
                /\ regs' = [fp |-> pre, sb |-> fp, pc |-> tt]
                /\ UNCHANGED upc
           ELSE upc' = "insert" /\ UNCHANGED <<trace, regs>>
    /\ UNCHANGED <<thread, depth, frame, ignored_frames, stored>>

\* What insert copies: with two entries or fewer, one that was never written.
Copied(t) == IF Len(t) > 2 THEN SubSeq(t, 3, Len(t)) ELSE <<GARBAGE>>

InsertTrace ==
    /\ upc = "insert"
    /\ stored' = Copied(trace)
    /\ upc' = "done"
    /\ UNCHANGED <<thread, depth, regs, frame, ignored_frames, trace>>

UnwindNext == UnwindFrame32 \/ UnwindFrame64 \/ InsertTrace

UnwindSpec == UnwindInit /\ [][UnwindNext]_uvars
-----------------------------------------------------------------------------
(* Properties. *)

UpTo(s, n) == SubSeq(s, 1, IF Len(s) < n THEN Len(s) ELSE n)

\* The trace is the thread's calls, innermost first: on ARM without the two
\* frames of the unwinder and up to the first function without unwind
\* instructions, on ARM64 with repeated addresses once; and not more of it
\* than configured.  thread.calls is what the frames were built from.  The
\* record has the calls behind the allocation function's own two frames,
\* every entry a call that was made, if the unwinder found more than two.
TraceIsCallChain ==
    LET calls == UpTo(thread.calls, max_depth)
    IN  /\ upc # "unwind" => trace = calls
        /\ upc = "done" /\ Len(calls) > 2 => stored = SubSeq(calls, 3, Len(calls))

\* With the configured depth below MAX_TRACE_DEPTH neither the unwinder nor
\* the copy and its terminator leave the arrays.
TraceFits ==
    depth < MAX_TRACE_DEPTH => Len(trace) <= MAX_TRACE_DEPTH /\ Len(stored) + 1 <= MAX_TRACE_DEPTH

\* Nothing outside of the thread's stack is read for a frame pointer, and the
\* walk goes up the stack in every step: it ends on any stack.
FramesInStack ==
    thread.arch = "arm64" /\ upc = "unwind" =>
        regs.fp > regs.sb /\ (Continues(trace) /\ isValid(regs.fp, thread.top, regs.sb) =>
                                {regs.fp, regs.fp + 1} \subseteq DOMAIN thread.stack)

\* The unwinders read and write only what is the thread's: its stack, and the
\* arrays of MAX_TRACE_DEPTH addresses.
UnwindInBounds == TraceFits /\ FramesInStack
===============================================================================
