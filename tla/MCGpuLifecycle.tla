-------------------------- MODULE MCGpuLifecycle --------------------------
(* Two callers and the watchdog over two models: enough for a switch of    *)
(* model by one caller in the middle of a handler of the other.            *)
EXTENDS GpuLifecycle, TLC

CONSTANTS c1, c2, wd, mA, mB

MCCallers == {c1, c2}
MCTasks == {c1, c2, wd}
MCModels == {mA, mB}
Symmetric == Permutations(MCModels) \cup Permutations(MCCallers)
===========================================================================
