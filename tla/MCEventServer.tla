----------------------------- MODULE MCEventServer -----------------------------
(* Instances of EventServer for TLC. *)
EXTENDS EventServer

CONSTANTS s1, s2, l1

TwoSockets == {s1, s2}
OneListener == {l1}
================================================================================
