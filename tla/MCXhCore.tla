------------------------------- MODULE MCXhCore -------------------------------
(* Model-checking instance of XhCore: one library, two symbols. *)
EXTENDS XhCore

Hooks == {[paths |-> {"a"}, symbol |-> "malloc"], [paths |-> {"a"}, symbol |-> "free"]}

\* All of the library, or one symbol of it.
Ignores == {[paths |-> {"a"}, symbol |-> ALL], [paths |-> {"a"}, symbol |-> "malloc"]}
=============================================================================
