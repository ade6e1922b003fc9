-------------------------- MODULE HoverTransitions --------------------------
(***************************************************************************)
(* Hover of one Tree: pointer_hover_target_, the durable transition from   *)
(* one target to the next, and the one coalesced request that waits behind *)
(* it (tree_input.inc).                                                    *)
(*                                                                         *)
(* A transition tells the observers that the pointer left, from the old    *)
(* target up to the ancestors it shares with the new one, then those it    *)
(* entered, then sends PointerLeave input up the old path.  Each of these  *)
(* is application code: it may ask for another target, and it may throw.   *)
(* What was not started is resumed at a later checkpoint; what was started *)
(* is never repeated.                                                      *)
(***************************************************************************)
EXTENDS Naturals, FiniteSets

CONSTANTS Nodes, ParentOf,  \* the retained tree; ParentOf[root] = NoNode
          NoNode,
          MaxThrows         \* bound: exceptions in a behaviour

HoverAssumption ==
    /\ NoNode \notin Nodes /\ MaxThrows \in Nat
    /\ ParentOf \in [Nodes -> Nodes \cup {NoNode}]
    /\ \A S \in SUBSET Nodes : S # {} => \E n \in S : ParentOf[n] \notin S

None == [absent |-> TRUE]

VARIABLES nodes,        \* the nodes that exist
          target,       \* pointer_hover_target_
          transition,   \* the unfinished transition, or None
          pending,      \* pending_pointer_hover_transition_'s next, or None
          mode,         \* why a transition is being executed now, or "rest"
          calling,      \* application code has control
          removing,     \* the subtree a teardown quarantines, or NoNode
          told,         \* history: the observers last told "entered"
          wanted,       \* history: the last target asked for
          cut,          \* history: a removal cut an unfinished transition
          throws

vars == <<nodes, target, transition, pending, mode, calling, removing, told, wanted, cut, throws>>

\* The way up from a node is what every set that holds the node and the parents of
\* its members has.
UpClosed(S) == \A m \in S : ParentOf[m] \in S \cup {NoNode}
Path == [n \in Nodes |-> {m \in Nodes : \A S \in SUBSET Nodes : n \in S /\ UpClosed(S) => m \in S}]
PathOf(n) == IF n \in nodes THEN Path[n] ELSE {}
Subtree(n) == {m \in Nodes : n \in Path[m]}

Init ==
    /\ nodes = Nodes
    /\ target = NoNode /\ transition = None /\ pending = None
    /\ mode = "rest" /\ calling = FALSE /\ removing = NoNode
    /\ told = {} /\ wanted = NoNode /\ cut = FALSE /\ throws = 0

-----------------------------------------------------------------------------
Transition(previous, next) ==
    [previous |-> previous, next |-> next,
     phase |-> IF previous = NoNode THEN "enter" ELSE "leave",
     cursor |-> IF previous = NoNode THEN next ELSE previous]

\* begin_pointer_hover_transition: the record is durable before the new target
\* is published.
Begin(next, why) ==
    /\ transition' = Transition(target, next)
    /\ target' = next
    /\ mode' = why

\* Mutant: whatever was asked for is a target.
Targetable_Anyone(n) == n

\* A target that is being torn down, or is gone, is no target.
Targetable(n) == IF n \in nodes /\ (IF removing = NoNode THEN TRUE ELSE removing \notin Path[n])
                 THEN n ELSE NoNode

\* drain_one_pending_pointer_hover_transition, or nothing to drain.
DrainPending ==
    IF pending = None THEN mode' = "rest" /\ UNCHANGED <<target, transition, pending>>
    ELSE LET next == Targetable(pending.next)
         IN /\ pending' = None
            /\ IF next = target
               THEN mode' = "rest" /\ UNCHANGED <<target, transition>>
               ELSE Begin(next, "drain")

\* resume_pointer_hover_transitions, when none is being executed.
Resume ==
    IF transition # None
    THEN mode' = "serve" /\ UNCHANGED <<target, transition, pending>>
    ELSE DrainPending

-----------------------------------------------------------------------------
(* Requests.                                                               *)

\* Mutant: the request that waits stays.
Request_KeepsOldest(n) ==
    LET asked == IF pending = None THEN [next |-> n] ELSE pending
    IN /\ wanted' = n
       /\ IF mode # "rest"
          THEN pending' = asked /\ UNCHANGED <<target, transition, mode>>
          ELSE IF transition # None
          THEN pending' = asked /\ mode' = "serve" /\ UNCHANGED <<target, transition>>
          ELSE IF pending # None
          THEN /\ pending' = None
               /\ IF n = target
                  THEN mode' = "rest" /\ UNCHANGED <<target, transition>>
                  ELSE Begin(n, "drain")
          ELSE /\ UNCHANGED pending
               /\ IF n = target
                  THEN UNCHANGED <<target, transition, mode>>
                  ELSE Begin(n, "serve")

\* update_pointer_hover_target, and clear_pointer_hover for n = NoNode: a
\* request made while another is unfinished replaces the one that waits.
Request(n) ==
    LET asked == [next |-> n]
    IN /\ wanted' = n
       /\ IF mode # "rest"
          THEN pending' = asked /\ UNCHANGED <<target, transition, mode>>
          ELSE IF transition # None
          THEN pending' = asked /\ mode' = "serve" /\ UNCHANGED <<target, transition>>
          ELSE IF pending # None
          THEN /\ pending' = None
               /\ IF n = target
                  THEN mode' = "rest" /\ UNCHANGED <<target, transition>>
                  ELSE Begin(n, "drain")
          ELSE /\ UNCHANGED pending
               /\ IF n = target
                  THEN UNCHANGED <<target, transition, mode>>
                  ELSE Begin(n, "serve")

\* The pointer moves, or an application callback dispatches a move.
Update ==
    /\ IF calling THEN TRUE ELSE mode = "rest" /\ removing = NoNode
    /\ \E n \in nodes \cup {NoNode} : Request(Targetable(n))
    /\ UNCHANGED <<nodes, calling, removing, told, cut, throws>>

\* Mutant: only an unfinished transition is looked for.
Checkpoint_TransitionsOnly ==
    /\ mode = "rest" /\ removing = NoNode
    /\ transition # None
    /\ Resume
    /\ UNCHANGED <<nodes, calling, removing, told, wanted, cut, throws>>

\* Every dispatch starts with a checkpoint.
Checkpoint ==
    /\ mode = "rest" /\ removing = NoNode
    /\ IF transition # None THEN TRUE ELSE pending # None
    /\ Resume
    /\ UNCHANGED <<nodes, calling, removing, told, wanted, cut, throws>>

-----------------------------------------------------------------------------
(* execute_pointer_hover_transition.                                       *)

Running == mode # "rest" /\ ~calling /\ transition # None
Cursor == transition.cursor
Moved(to) == transition' = [transition EXCEPT !.cursor = to]

\* The end of a phase; also where the walk stops when its node is gone.
PhaseEnds ==
    /\ Running /\ Cursor \notin nodes
    /\ CASE transition.phase = "leave" ->
              transition' = [transition EXCEPT !.phase = "enter", !.cursor = transition.next]
         [] transition.phase = "enter" ->
              transition' = [transition EXCEPT !.phase = "input", !.cursor = transition.previous]
         [] transition.phase = "input" -> transition' = [transition EXCEPT !.phase = "complete"]
         [] OTHER -> FALSE
    /\ UNCHANGED <<nodes, target, pending, mode, calling, removing, told, wanted, cut, throws>>

\* Mutant: the same end in both phases.
OtherEnd_Previous == transition.previous

\* Whose path is exempt from being told, because it holds both ends.
OtherEnd == IF transition.phase = "leave" THEN transition.next ELSE transition.previous
Shared == Cursor \in PathOf(OtherEnd)

Skip ==
    /\ Running /\ Cursor \in nodes /\ transition.phase \in {"leave", "enter"} /\ Shared
    /\ Moved(ParentOf[Cursor])
    /\ UNCHANGED <<nodes, target, pending, mode, calling, removing, told, wanted, cut, throws>>

\* The cursor moves on before application code runs.
Tell ==
    /\ Running /\ Cursor \in nodes /\ transition.phase \in {"leave", "enter"} /\ ~Shared
    /\ Moved(ParentOf[Cursor])
    /\ told' = IF transition.phase = "leave" THEN told \ {Cursor} ELSE told \cup {Cursor}
    /\ calling' = TRUE
    /\ UNCHANGED <<nodes, target, pending, mode, removing, wanted, cut, throws>>

SendLeave ==
    /\ Running /\ Cursor \in nodes /\ transition.phase = "input"
    /\ Moved(ParentOf[Cursor])
    /\ calling' = TRUE
    /\ UNCHANGED <<nodes, target, pending, mode, removing, told, wanted, cut, throws>>

Return ==
    /\ calling /\ calling' = FALSE
    /\ UNCHANGED <<nodes, target, transition, pending, mode, removing, told, wanted, cut, throws>>

\* One request that came in meanwhile is served at once, by whoever was not
\* already serving it.
Complete ==
    /\ Running /\ transition.phase = "complete"
    /\ IF mode = "drain" \/ pending = None
       THEN mode' = "rest" /\ transition' = None /\ UNCHANGED <<target, pending>>
       ELSE LET next == Targetable(pending.next)
            IN /\ pending' = None
               /\ IF next = target
                  THEN mode' = "rest" /\ transition' = None /\ UNCHANGED target
                  ELSE Begin(next, "drain")
    /\ UNCHANGED <<nodes, calling, removing, told, wanted, cut, throws>>

\* Mutant: the transition is dropped.
Throw_Drops ==
    /\ throws < MaxThrows /\ throws' = throws + 1
    /\ IF calling THEN TRUE
       ELSE Running /\ transition.phase = "input" /\ Cursor \in nodes
    /\ calling' = FALSE
    /\ mode' = "rest"
    /\ transition' = None
    /\ removing' = NoNode
    /\ UNCHANGED <<nodes, target, pending, told, wanted, cut>>

\* A callback throws, or the input context of a PointerLeave cannot be
\* prepared: the transition stays where its cursor is.
Throw ==
    /\ throws < MaxThrows /\ throws' = throws + 1
    /\ IF calling THEN TRUE
       ELSE Running /\ transition.phase = "input" /\ Cursor \in nodes
    /\ calling' = FALSE
    /\ mode' = "rest"
    /\ removing' = NoNode
    /\ UNCHANGED <<nodes, target, transition, pending, told, wanted, cut>>

-----------------------------------------------------------------------------
(* A dynamic removal: if the target is inside, hover is cleared first, with *)
(* the subtree quarantined.                                                *)

Remove(n) ==
    /\ mode = "rest" /\ removing = NoNode
    /\ n \in nodes /\ ParentOf[n] # NoNode
    /\ removing' = n
    /\ IF target \in Subtree(n)
       THEN Request(NoNode)
       ELSE UNCHANGED <<target, transition, pending, mode, wanted>>
    /\ UNCHANGED <<nodes, calling, told, cut, throws>>

Removed ==
    /\ removing # NoNode /\ mode = "rest"
    /\ nodes' = nodes \ Subtree(removing)
    /\ told' = told \ Subtree(removing)
    /\ cut' = (cut \/ transition # None)
    /\ removing' = NoNode
    /\ UNCHANGED <<target, transition, pending, mode, calling, wanted, throws>>

Steps == PhaseEnds \/ Skip \/ Tell \/ SendLeave \/ Complete \/ Removed

Next ==
    \/ Update \/ Checkpoint \/ Steps \/ Return \/ Throw
    \/ \E n \in Nodes : Remove(n)

\* Callbacks return, and events keep coming, so checkpoints recur.
Spec == Init /\ [][Next]_vars
FairSpec == Spec /\ WF_vars(Checkpoint) /\ WF_vars(Steps) /\ WF_vars(Return)

-----------------------------------------------------------------------------
Targets == nodes \cup {NoNode}

\* The route, the durable record and the waiting request keep their types.
TypeOK ==
    /\ nodes \subseteq Nodes
    /\ transition # None =>
         /\ transition.phase \in {"leave", "enter", "input", "complete"}
         /\ {transition.previous, transition.next, Cursor} \subseteq Nodes \cup {NoNode}
    /\ pending # None => pending.next \in Nodes \cup {NoNode}
    /\ mode \in {"rest", "serve", "drain"}
    /\ (calling \in BOOLEAN) /\ (cut \in BOOLEAN)
    /\ told \subseteq Nodes /\ throws \in 0..MaxThrows

\* Hover never points at a destroyed node.
TargetLives == target \in Targets

\* Once nothing is unfinished, the observers that believe the pointer is on
\* them are exactly those on the path to the target, whatever callbacks asked
\* for or threw in between; a removal in the middle of a transition excepted.
ObserversAgree ==
    (mode = "rest" /\ transition = None /\ ~cut) => told = PathOf(target)

\* No observer hears the same news twice: it is told "left" only after
\* "entered", and "entered" only after "left".
NewsAlternates == [][Tell /\ ~cut => told' # told]_vars

\* What was asked for last is what hover comes to: a coalesced request is
\* delayed, never lost and never overtaken by an older one.
LatestWins ==
    (mode = "rest" /\ transition = None /\ pending = None /\ removing = NoNode) =>
        target = IF wanted \in nodes THEN wanted ELSE NoNode

\* A request that waits is served, although the callbacks of the transition in
\* front of it, and of its own, keep asking for something else.
Waiting == pending # None

RequestsAreServed == Waiting ~> ~Waiting

=============================================================================
