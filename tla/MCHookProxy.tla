----------------------------- MODULE MCHookProxy -----------------------------
(* Model-checking instance of HookProxy. *)
EXTENDS HookProxy, TLC

\* Threads, and addresses, are interchangeable.
Symmetry == Permutations(Threads) \cup Permutations(Addrs)
=============================================================================
