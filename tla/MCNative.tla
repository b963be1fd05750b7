------------------------------- MODULE MCNative -------------------------------
(***************************************************************************)
(* The parts of a session that share no state with each other, one at work *)
(* in each behaviour: xHook's ELF engine (start with a regex), the inline  *)
(* hooks of ARM64 and of ARM (start without one), the unwinders (an        *)
(* allocation), xDL (hooks by address, and print) and the hooks on the     *)
(* loaders.  The idle parts keep one of their initial states.              *)
(***************************************************************************)
EXTENDS MCXhElf, MCInline64, MCXdl, MCUnwind, InlineHook32, MCSoLoad

VARIABLE part

\* The initial states the idle parts keep.
IdleImage == CHOOSE image \in Libs : TRUE
IdleFunction == CHOOSE f \in Symbols : TRUE
IdleProcess == CHOOSE p \in Processes : TRUE
IdleThread == CHOOSE t \in Threads : t.arch = "arm64"
IdleElf == XhElfInitOf(IdleImage)
IdleInline == Inline64InitOf(IdleFunction, 0)
IdleXdl == XdlInitOf(IdleProcess, 28)
IdleUnwind == UnwindInitOf(IdleThread, 2)
IdleSoLoad == SoLoadInitOf("O")

NativeInit ==
    \/ part = "elf" /\ Hook32Init /\ IdleSoLoad /\ IdleInline /\ IdleXdl /\ IdleUnwind /\ XhElfInit
    \/ part = "inline" /\ Hook32Init /\ IdleSoLoad /\ IdleElf /\ IdleXdl /\ IdleUnwind /\ Inline64Init
    \/ part = "xdl" /\ Hook32Init /\ IdleSoLoad /\ IdleElf /\ IdleInline /\ IdleUnwind /\ XdlInit
    \/ part = "unwind" /\ Hook32Init /\ IdleSoLoad /\ IdleElf /\ IdleInline /\ IdleXdl /\ UnwindInit
    \/ part = "table" /\ IdleElf /\ IdleInline /\ IdleXdl /\ IdleUnwind /\ IdleSoLoad /\ Hook32Init
    \/ part = "loads" /\ IdleElf /\ IdleInline /\ IdleXdl /\ IdleUnwind /\ Hook32Init /\ SoLoadInit

NativeNext ==
    \/ part = "elf" /\ XhElfNext /\ UNCHANGED <<part, ivars, dvars, uvars, hvars, lvars>>
    \/ part = "inline" /\ Inline64Next /\ UNCHANGED <<part, xvars, dvars, uvars, hvars, lvars>>
    \/ part = "xdl" /\ XdlNext /\ UNCHANGED <<part, xvars, ivars, uvars, hvars, lvars>>
    \/ part = "unwind" /\ UnwindNext /\ UNCHANGED <<part, xvars, ivars, dvars, hvars, lvars>>
    \/ part = "table" /\ Hook32Next /\ UNCHANGED <<part, xvars, ivars, dvars, uvars, lvars>>
    \/ part = "loads" /\ SoLoadNext /\ UNCHANGED <<part, xvars, ivars, dvars, uvars, hvars>>

NativeSpec == NativeInit /\ [][NativeNext]_<<part, xvars, ivars, dvars, uvars, hvars, lvars>>
===============================================================================
