------------------------- MODULE MCProtectionRuntime -------------------------
(***************************************************************************)
(* ProtectionRuntime for TLC: one or two threads of the pool, the main     *)
(* thread with its polls, and the failures a run is about.                 *)
(***************************************************************************)
EXTENDS ProtectionRuntime, TLC

CONSTANTS w1, w2, main

OneWorker   == {w1}
TwoWorkers  == {w1, w2}
NoFailure   == {}

\* The commands alone, the timer asking for no status: two commands and their
\* flags already make as many states as a liveness check can take.
Unpolled == (\E t \in Workers : Begin(t) \/ Step(t)) \/ KernelReady \/ KernelExits
UnpolledSpec == Init /\ [][Unpolled]_vars /\ \A t \in Workers : WF_vars(Step(t))

\* The threads of the pool are alike.
Symmetry == Permutations(TwoWorkers)
=============================================================================
