------------------------------ MODULE MCWatcher ------------------------------
(***************************************************************************)
(* Small instances of Watcher for TLC: what the devices answer.            *)
(***************************************************************************)
EXTENDS Watcher

\* A hybrid display below a CAVA display.
HybridAndCava == [d \in Devices |-> IF d = 0 THEN "hybrid" ELSE "cava"]

\* A hybrid display below a modem that never answers.
HybridAndForeign == [d \in Devices |-> IF d = 0 THEN "hybrid" ELSE "none"]
=============================================================================
