---------------------------- MODULE MCWorkerPool ----------------------------
(* Small instances of WorkerPool for TLC.                                   *)
EXTENDS WorkerPool, TLC

CONSTANT Slots   \* the capacity of every worker

MCWorkerLanguages == [w \in Workers |-> Languages]
MCCapacity == [w \in Workers |-> Slots]

MCSymmetry == Permutations(Jobs) \cup Permutations(Workers) \cup Permutations(Handlers)
=============================================================================
