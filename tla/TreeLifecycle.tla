---------------------------- MODULE TreeLifecycle ----------------------------
(***************************************************************************)
(* Mounting, activating, deactivating and unmounting a whole Tree           *)
(* (detail/tree_public.inc, tree_lifecycle_transaction.inc, the teardown    *)
(* helpers of tree_layout.inc).  Components are user code: each callback    *)
(* may throw, and may call the Tree's lifecycle operations again.           *)
(*                                                                          *)
(* The nodes are numbered in the order in which mount visits them, parents  *)
(* first; every teardown and every rollback visits them backwards.          *)
(***************************************************************************)
EXTENDS Naturals, Sequences, FiniteSets

CONSTANTS
    N,           \* nodes of the tree
    MaxMounts    \* bound: calls of mount that begin

TreeAssumption == N \in Nat \ {0} /\ MaxMounts \in Nat

Nodes == 1..N

VARIABLES
    life,        \* the last call made to each component
    mounted, active,
    transition,  \* lifecycle_transition_
    dispatcher,  \* lifecycle_dispatcher_ is the platform's
    live,        \* retained_invalidation_live_nodes_
    lifetime,    \* the generation the Tree's retained callbacks resolve in, 0: none
    made,        \* generations made so far
    held, stale, \* generations of the callbacks a component got in its last
                 \* mount, and in the ones before
    stack,       \* operations under way, innermost last
    mounts       \* calls of mount that began

flags == <<mounted, active, transition, dispatcher>>
reach == <<live, lifetime, made, held, stale>>
vars  == <<life, flags, reach, stack, mounts>>

Transitions == {"None", "Mount", "Activate", "Deactivate", "Unmount"}

\* An operation makes the calls of a pass one node at a time: user code is
\* running when calling.  A pass that undoes another's calls ends its operation.
Frames ==
    [op      : Transitions \ {"None"},
     pass    : {"mount", "activate", "blur", "deactivate", "unmount", "late"},
     at      : 0..N + 1,
     calling : BOOLEAN]

TypeOK ==
    /\ life \in [Nodes -> {"out", "mounted", "active"}]
    /\ mounted \in BOOLEAN /\ active \in BOOLEAN /\ dispatcher \in BOOLEAN
    /\ transition \in Transitions
    /\ live \subseteq Nodes /\ made \in Nat /\ lifetime \in 0..made
    /\ held \in [Nodes -> 0..made] /\ stale \in [Nodes -> SUBSET (1..made)]
    /\ \A i \in DOMAIN stack : stack[i] \in Frames
    /\ mounts \in 0..MaxMounts

Init ==
    /\ life = [n \in Nodes |-> "out"]
    /\ mounted = FALSE /\ active = FALSE
    /\ transition = "None" /\ dispatcher = FALSE
    /\ live = {} /\ lifetime = 0 /\ made = 0
    /\ held = [n \in Nodes |-> 0] /\ stale = [n \in Nodes |-> {}]
    /\ stack = <<>> /\ mounts = 0
-----------------------------------------------------------------------------
Under == stack # <<>>
Top   == stack[Len(stack)]

\* An operation can be called from outside, or by the component being called.
UserCode == IF Under THEN Top.calling ELSE TRUE

\* Mutant: the scope lets a nested operation in.
Idle_Nested == TRUE

\* LifecycleTransitionScope with require_idle: otherwise logic_error.
Idle == transition = "None"

Push(op, pass, at) ==
    stack' = Append(stack, [op |-> op, pass |-> pass, at |-> at, calling |-> FALSE])

Pop == stack' = SubSeq(stack, 1, Len(stack) - 1)

Go(pass, at) == stack' = [stack EXCEPT ![Len(stack)] =
                            [@ EXCEPT !.pass = pass, !.at = at, !.calling = FALSE]]

\* The outermost scope is left.
Leave == Pop /\ transition' = "None"

\* Mutant: the generation lives on; the identities are retired.
RetireGeneration_Kept == UNCHANGED <<lifetime, made, held, stale>>

\* retire_retained_invalidation_generation; with retire_subtree_identities.
RetireGeneration == lifetime' = 0 /\ UNCHANGED <<made, held, stale>>
RetireAll == live' = {} /\ RetireGeneration
-----------------------------------------------------------------------------
(***************************************************************************)
(* The operations up to their first callback.                               *)
(***************************************************************************)
Mount ==
    /\ UserCode /\ ~mounted /\ Idle /\ mounts < MaxMounts
    /\ mounts' = mounts + 1
    /\ transition' = "Mount"
    /\ Push("Mount", "mount", 1)
    /\ UNCHANGED <<life, mounted, active, dispatcher, reach>>

ActivateFocus ==
    /\ UserCode /\ Idle /\ mounted /\ ~active
    /\ active' = TRUE /\ dispatcher' = TRUE
    /\ transition' = "Activate"
    /\ Push("Activate", "activate", 1)
    /\ UNCHANGED <<life, mounted, reach, mounts>>

\* First hover, capture and focus are taken away: user code.
DeactivateFocus ==
    /\ UserCode /\ Idle /\ active
    /\ transition' = "Deactivate"
    /\ Push("Deactivate", "blur", N)
    /\ UNCHANGED <<life, mounted, active, dispatcher, reach, mounts>>

\* Mutant: the platform is let go of first.
Unmount_DropsDispatcher ==
    /\ UserCode /\ Idle /\ mounted
    /\ transition' = "Unmount" /\ dispatcher' = FALSE
    /\ IF active
       THEN Push("Unmount", "deactivate", N) /\ UNCHANGED reach
       ELSE Push("Unmount", "unmount", N) /\ RetireAll
    /\ UNCHANGED <<life, mounted, active, mounts>>

\* Also the destructor, which drops the error.
Unmount ==
    /\ UserCode /\ Idle /\ mounted
    /\ transition' = "Unmount"
    /\ IF active
       THEN Push("Unmount", "deactivate", N) /\ UNCHANGED reach
       ELSE Push("Unmount", "unmount", N) /\ RetireAll
    /\ UNCHANGED <<life, mounted, active, dispatcher, mounts>>
-----------------------------------------------------------------------------
(***************************************************************************)
(* The calls of a pass.                                                     *)
(***************************************************************************)
Forward == Top.pass \in {"mount", "activate"}

Reached(pass) ==
    CASE pass = "mount"      -> "mounted"
      [] pass = "activate"   -> "active"
      [] pass = "deactivate" -> "mounted"
      [] pass = "unmount"    -> "out"

\* The component is called; mounting it hands it callbacks of this generation,
\* and undoing that retires its identity before it hears of it.
Call ==
    LET n == Top.at
        g == IF lifetime = 0 THEN made + 1 ELSE lifetime IN
    /\ Under /\ ~Top.calling /\ n \in Nodes
    /\ Top.pass \in {"mount", "activate", "deactivate", "unmount"}
    /\ life' = [life EXCEPT ![n] = Reached(Top.pass)]
    /\ stack' = [stack EXCEPT ![Len(stack)].calling = TRUE]
    /\ CASE Top.pass = "mount" ->
              /\ live' = live \cup {n}
              /\ lifetime' = g
              /\ made' = IF lifetime = 0 THEN made + 1 ELSE made
              /\ stale' = [stale EXCEPT ![n] = @ \cup ({held[n]} \ {0})]
              /\ held' = [held EXCEPT ![n] = g]
         [] Top.pass = "unmount" ->
              live' = live \ {n} /\ UNCHANGED <<lifetime, made, held, stale>>
         [] OTHER -> UNCHANGED reach
    /\ UNCHANGED <<flags, mounts>>

\* The calls to the user code in blur and late.
CallFocus ==
    /\ Under /\ ~Top.calling /\ Top.pass \in {"blur", "late"}
    /\ stack' = [stack EXCEPT ![Len(stack)].calling = TRUE]
    /\ UNCHANGED <<life, flags, reach, mounts>>

NextNode(f) == IF f.pass \in {"mount", "activate"} THEN f.at + 1 ELSE f.at - 1

CallReturns ==
    /\ Under /\ Top.calling /\ Top.pass \notin {"blur", "late"}
    /\ Go(Top.pass, NextNode(Top))
    /\ UNCHANGED <<life, flags, reach, mounts>>

\* Mutant: the node that threw is left out of the rollback.
ForwardThrows_Short ==
    /\ Under /\ Top.calling /\ Forward
    /\ IF Top.pass = "mount"
       THEN Go("unmount", Top.at - 1) /\ RetireGeneration /\ UNCHANGED live
       ELSE Go("deactivate", Top.at - 1) /\ UNCHANGED reach
    /\ UNCHANGED <<life, flags, mounts>>

\* mount or activate throws: the journal is undone, this node first.  The root
\* is then marked, and the recovery of the caller does not tear it down again.
ForwardThrows ==
    /\ Under /\ Top.calling /\ Forward
    /\ IF Top.pass = "mount"
       THEN Go("unmount", Top.at) /\ RetireGeneration /\ UNCHANGED live
       ELSE Go("deactivate", Top.at) /\ UNCHANGED reach
    /\ UNCHANGED <<life, flags, mounts>>

\* Mutant: the first error ends the walk.
BackwardThrows_Stops ==
    /\ Under /\ Top.calling /\ Top.pass \in {"deactivate", "unmount"}
    /\ Go(Top.pass, 0)
    /\ UNCHANGED <<life, flags, reach, mounts>>

\* Mutant: the call that threw is tried again.
BackwardThrows_Again ==
    /\ Under /\ Top.calling /\ Top.pass \in {"deactivate", "unmount"}
    /\ Go(Top.pass, Top.at)
    /\ UNCHANGED <<life, flags, reach, mounts>>

\* deactivate or unmount throws: the error is kept, the walk goes on.
BackwardThrows ==
    /\ Under /\ Top.calling /\ Top.pass \in {"deactivate", "unmount"}
    /\ Go(Top.pass, Top.at - 1)
    /\ UNCHANGED <<life, flags, reach, mounts>>
-----------------------------------------------------------------------------
(***************************************************************************)
(* The operations after a pass.                                             *)
(***************************************************************************)
\* mount: invalidating the layout may throw too, and then all is unmounted.
MountEnds ==
    /\ Under /\ ~Top.calling /\ Top.op = "Mount"
    /\ \/ /\ Top.pass = "mount" /\ Top.at = N + 1
          /\ mounted' = TRUE /\ Leave
          /\ UNCHANGED <<active, reach>>
       \/ /\ Top.pass = "mount" /\ Top.at = N + 1
          /\ Go("unmount", N) /\ RetireAll
          /\ UNCHANGED <<mounted, active, transition>>
       \/ /\ Top.pass = "unmount" /\ Top.at = 0
          /\ Leave /\ mounted' = FALSE /\ active' = FALSE
          /\ UNCHANGED reach
    /\ UNCHANGED <<life, dispatcher, mounts>>

\* Activated, the tree still moves the focus: user code that may throw.
ActivationEnds ==
    /\ Under /\ ~Top.calling /\ Top.op = "Activate"
    /\ \/ /\ Top.pass = "activate" /\ Top.at = N + 1
          /\ Go("late", N)
          /\ UNCHANGED flags
       \/ /\ Top.pass = "deactivate" /\ Top.at = 0
          /\ active' = FALSE /\ dispatcher' = FALSE
          /\ Leave
          /\ UNCHANGED mounted
    /\ UNCHANGED <<life, reach, mounts>>

\* Mutant: the late error is rethrown without deactivating.
LateEnds_Rethrows ==
    /\ Under /\ Top.calling /\ Top.pass = "late"
    /\ \/ Leave /\ UNCHANGED active
       \/ Leave /\ active' = FALSE
    /\ UNCHANGED <<life, mounted, dispatcher, reach, mounts>>

\* If it does, the scope is released and the tree deactivated again.
LateEnds ==
    /\ Under /\ Top.calling /\ Top.pass = "late"
    /\ \/ Leave
       \/ /\ stack' = Append([stack EXCEPT ![Len(stack)] = [@ EXCEPT !.calling = FALSE, !.at = 0]],
                [op |-> "Deactivate", pass |-> "blur", at |-> N, calling |-> FALSE])
          /\ transition' = "Deactivate"
    /\ UNCHANGED <<life, mounted, active, dispatcher, reach, mounts>>

\* Returned or thrown, what took the focus away is over.
BlurEnds ==
    /\ Under /\ Top.calling /\ Top.pass = "blur"
    /\ Go("deactivate", N)
    /\ UNCHANGED <<life, flags, reach, mounts>>

\* With a late activation error, activate_focus ends here as well.
DeactivationEnds ==
    /\ Under /\ ~Top.calling /\ Top.op = "Deactivate" /\ Top.pass = "deactivate" /\ Top.at = 0
    /\ active' = FALSE /\ dispatcher' = FALSE
    /\ transition' = "None"
    /\ stack' = <<>>
    /\ UNCHANGED <<life, mounted, reach, mounts>>

UnmountEnds ==
    /\ Under /\ ~Top.calling /\ Top.op = "Unmount" /\ Top.at = 0
    /\ \/ /\ Top.pass = "deactivate"
          /\ active' = FALSE
          /\ Go("unmount", N) /\ RetireAll
          /\ UNCHANGED <<mounted, transition, dispatcher>>
       \/ /\ Top.pass = "unmount"
          /\ mounted' = FALSE /\ dispatcher' = FALSE
          /\ Leave
          /\ UNCHANGED <<active, reach>>
    /\ UNCHANGED <<life, mounts>>
-----------------------------------------------------------------------------
Operations == Mount \/ ActivateFocus \/ DeactivateFocus \/ Unmount
Steps ==
    \/ Call \/ CallFocus \/ CallReturns \/ ForwardThrows \/ BackwardThrows
    \/ MountEnds \/ ActivationEnds \/ LateEnds \/ BlurEnds
    \/ DeactivationEnds \/ UnmountEnds

Next == Operations \/ Steps

Spec == Init /\ [][Next]_vars

\* User code returns.
FairSpec == Spec /\ WF_vars(Steps)
-----------------------------------------------------------------------------
Contract == INSTANCE LifecycleContract WITH Components <- Nodes

\* Every component hears its calls in the right order, whatever throws.
ImplementsLifecycle == Contract!Spec

\* When no operation is under way the components are where the tree's flags
\* say: an operation that failed has left none of its calls behind.
FlagsTellTheTruth ==
    ~Under => \A n \in Nodes :
                life[n] = IF active THEN "active" ELSE IF mounted THEN "mounted" ELSE "out"

\* A component that activates or deactivates can use the Dispatcher.
DispatcherWhileActive == (\E n \in Nodes : life[n] = "active") => dispatcher

\* Whether a retained callback of generation g of node n acts on the tree.
Acts(n, g) == lifetime # 0 /\ g = lifetime /\ n \in live

\* The callbacks of a component that is being torn down are dead, and so are
\* the ones it got when it was mounted before.
DeadCallbacks ==
    \A n \in Nodes :
        /\ life[n] = "out" => ~Acts(n, held[n])
        /\ \A g \in stale[n] : ~Acts(n, g)

\* A tree whose mount failed does not stop being usable: every operation ends.
OperationsEnd == Under ~> ~Under
=============================================================================
