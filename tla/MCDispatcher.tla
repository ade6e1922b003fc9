---------------------------- MODULE MCDispatcher ----------------------------
(* Model-checking instances of Dispatcher. *)
EXTENDS Dispatcher, TLC

WorkerSymmetry == Permutations(Workers)
=============================================================================
