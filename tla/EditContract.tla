----------------------------- MODULE EditContract -----------------------------
(***************************************************************************)
(* What the callbacks of an EditSession may rely on                         *)
(* (include/nativeui/edit.hpp): begin, then changes, then exactly one of    *)
(* end and cancel; and cancel whenever anybody or anything asked for it.    *)
(***************************************************************************)
VARIABLES
    heard,     \* the last notification: "none", "begin", "change", "end", "cancel"
    spoiled    \* this interaction must not end well

contractVars == <<heard, spoiled>>

Under == heard \in {"begin", "change"}

Init == heard = "none" /\ spoiled = FALSE

Begin ==
    /\ ~Under
    /\ heard' = "begin" /\ spoiled' = FALSE

Change ==
    /\ Under
    /\ heard' = "change" /\ UNCHANGED spoiled

Spoil ==
    /\ Under
    /\ spoiled' = TRUE /\ UNCHANGED heard

End ==
    /\ Under /\ ~spoiled
    /\ heard' = "end" /\ UNCHANGED spoiled

\* The reason for a cancel may be found out by the cancel itself.
Cancel ==
    /\ Under
    /\ heard' = "cancel" /\ spoiled' = TRUE

Next == Begin \/ Change \/ Spoil \/ End \/ Cancel

Spec == Init /\ [][Next]_contractVars
=============================================================================
