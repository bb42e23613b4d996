---------------------------- MODULE MCWorkerPool ----------------------------
(* WorkerPool on a small instance: the limits of the code scaled down so    *)
(* that each of them is reached.                                            *)
EXTENDS WorkerPool, TLC

\* Workers are told apart by nothing: safety is symmetric in them.
WorkerSymmetry == Permutations(Workers)
=============================================================================
