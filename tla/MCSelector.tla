------------------------------- MODULE MCSelector -------------------------------
(* Instances of Selector for TLC. *)
EXTENDS Selector, TLC

CONSTANTS s1, s2, l1

TwoSockets == {s1, s2}
OneListener == {l1}

\* Sockets are interchangeable.
Symmetric == Permutations(TwoSockets)
================================================================================
