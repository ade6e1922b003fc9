-------------------------- MODULE LifecycleContract --------------------------
(***************************************************************************)
(* What a component may rely on (include/nativeui/component_base.hpp):      *)
(* mount, then any number of activations each ended by a deactivation, then *)
(* unmount.  A call that throws has still been made: its counterpart        *)
(* follows.                                                                 *)
(***************************************************************************)
CONSTANT Components

VARIABLE life   \* the last call made to each: "out", "mounted" or "active"

Init == life = [c \in Components |-> "out"]

Call(c, from, to) ==
    /\ life[c] = from
    /\ life' = [life EXCEPT ![c] = to]

Mount(c)      == Call(c, "out", "mounted")
Activate(c)   == Call(c, "mounted", "active")
Deactivate(c) == Call(c, "active", "mounted")
Unmount(c)    == Call(c, "mounted", "out")

Next == \E c \in Components : Mount(c) \/ Activate(c) \/ Deactivate(c) \/ Unmount(c)

Spec == Init /\ [][Next]_life
=============================================================================
