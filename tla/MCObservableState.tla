--------------------------- MODULE MCObservableState ---------------------------
(* Model-checking instance of ObservableState. *)
EXTENDS ObservableState, TLC

CONSTANTS v0, v1

TwoValues == {v0, v1}
=============================================================================
