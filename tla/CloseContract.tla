---------------------------- MODULE CloseContract ----------------------------
(***************************************************************************)
(* What a window promises about closing, without tasks, wakes or pumps: a   *)
(* native request is put to the veto callback exactly once, an accepted     *)
(* close cannot be taken back, it completes once with one on_closed         *)
(* notification, and destruction is silent and final.                       *)
(***************************************************************************)
EXTENDS Naturals

VARIABLES
    status,   \* "open", "asking", "accepted", "closed" or "destroyed"
    asks,     \* veto calls made for the current native request
    notices   \* on_closed calls

contractVars == <<status, asks, notices>>

ContractInit == status = "open" /\ asks = 0 /\ notices = 0

NativeRequest ==
    /\ status = "open"
    /\ status' = "asking"
    /\ asks' = 0
    /\ UNCHANGED notices

Ask ==
    /\ status = "asking"
    /\ asks = 0
    /\ asks' = 1
    /\ UNCHANGED <<status, notices>>

Answer ==
    /\ status = "asking"
    /\ asks = 1
    /\ status' \in {"open", "accepted"}
    /\ UNCHANGED <<asks, notices>>

ProgrammaticRequest ==
    /\ status \in {"open", "asking"}
    /\ status' = "accepted"
    /\ UNCHANGED <<asks, notices>>

Complete ==
    /\ status = "accepted"
    /\ status' = "closed"
    /\ notices' = notices + 1
    /\ UNCHANGED asks

Destroy ==
    /\ status # "destroyed"
    /\ status' = "destroyed"
    /\ UNCHANGED <<asks, notices>>

ContractNext ==
    NativeRequest \/ Ask \/ Answer \/ ProgrammaticRequest \/ Complete \/ Destroy

ContractSpec == ContractInit /\ [][ContractNext]_contractVars
=============================================================================
