------------------------------ MODULE MCCFSQueue ------------------------------
(* Instances of CFSQueue for TLC. *)
EXTENDS CFSQueue, TLC

\* Consumers are interchangeable (used only where no liveness is checked).
ConsumerSymmetry == Permutations(Consumer)
===============================================================================
