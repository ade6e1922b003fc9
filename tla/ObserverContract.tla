--------------------------- MODULE ObserverContract ---------------------------
(***************************************************************************)
(* What State<T> promises the observers of a value                          *)
(* (src/include/nativeui/state.hpp, lines 29-42): whoever watches when a    *)
(* value is published is told of it once, unless it leaves first, before    *)
(* the next value is published; whoever joins later waits for the next one. *)
(* A failed notification abandons the rest of its pass, and nobody is told  *)
(* anything once the owner is gone.                                         *)
(***************************************************************************)
EXTENDS Naturals

CONSTANTS Observers, Values, Nobody

VARIABLES
    value, revision,
    alive,    \* the owning State exists
    watching, \* the observers subscribed now
    owed,     \* those still to be told of the current value
    telling   \* the observer being told, or Nobody

contract == <<value, revision, alive, watching, owed, telling>>

Init ==
    /\ value \in Values
    /\ revision = 0
    /\ alive = TRUE
    /\ watching = {} /\ owed = {}
    /\ telling = Nobody

Join(o) ==
    /\ alive
    /\ o \notin watching
    /\ watching' = watching \cup {o}
    /\ UNCHANGED <<value, revision, alive, owed, telling>>

Leave(o) ==
    /\ watching' = watching \ {o}
    /\ owed' = owed \ {o}
    /\ UNCHANGED <<value, revision, alive, telling>>

Publish ==
    /\ alive
    /\ owed = {} /\ telling = Nobody
    /\ value' \in Values \ {value}
    /\ revision' = revision + 1
    /\ owed' = watching
    /\ UNCHANGED <<alive, watching, telling>>

Tell(o) ==
    /\ alive
    /\ o \in owed /\ telling = Nobody
    /\ owed' = owed \ {o}
    /\ telling' = o
    /\ UNCHANGED <<value, revision, alive, watching>>

Told ==
    /\ telling' = Nobody
    /\ UNCHANGED <<value, revision, alive, watching, owed>>

Abandon ==
    /\ owed' = {}
    /\ telling' = Nobody
    /\ UNCHANGED <<value, revision, alive, watching>>

Retire ==
    /\ alive' = FALSE
    /\ watching' = {} /\ owed' = {}
    /\ UNCHANGED <<value, revision, telling>>

Next ==
    \/ Publish \/ Told \/ Abandon \/ Retire
    \/ \E o \in Observers : Join(o) \/ Leave(o) \/ Tell(o)

Spec == Init /\ [][Next]_contract
=============================================================================
