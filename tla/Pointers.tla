------------------------------ MODULE Pointers ------------------------------
(***************************************************************************)
(* Pointer contacts and pointer capture of one Tree: dispatch_prepared's   *)
(* pointer routes (tree_public.inc), the capture table and the             *)
(* cancellation passes (tree_input.inc), and what a dynamic removal does   *)
(* with the captures of the subtree it is about to destroy                 *)
(* (tree_dynamic.inc).                                                     *)
(*                                                                         *)
(* Everything runs on one thread; what makes it hard is re-entry: every    *)
(* Component::input and every hover or focus observer is application code  *)
(* that may dispatch another event, with the same pointer id or another,   *)
(* before it returns.  `stack` holds the calls in progress, innermost      *)
(* last: "op" frames are calls of the Tree, "call" frames application      *)
(* callbacks.  Reusable pointer ids are told apart by the token of the     *)
(* dispatch that began the contact; 0 is "no contact".                     *)
(***************************************************************************)
EXTENDS Integers, Sequences, FiniteSets, TLC

CONSTANTS Nodes,        \* the retained nodes input is routed to
          Root,         \* the node that is never removed
          Pointers,     \* pointer ids; 0 is the platform's own mouse
          MaxTracked,   \* kMaxTrackedPointers, 16 in the code
          MaxTokens,    \* bound: dispatches in a behaviour
          MaxStack      \* bound: frames in progress

PointersAssumption ==
    /\ Root \in Nodes /\ Pointers \subseteq Nat
    /\ MaxTracked \in Nat \ {0} /\ MaxTokens \in Nat /\ MaxStack \in Nat

NoNode == "none"
Parent(n) == IF n = Root THEN NoNode ELSE Root

VARIABLES contact,      \* active_pointer_interactions_: pointer -> token
          capture,      \* pointer_captures_: pointer -> [node, token, cancelling]
          granted,      \* the platform holds the native capture for pointer 0
          nodes,        \* the nodes that exist
          active,       \* active_
          issued,       \* next_input_dispatch_token_ - 1
          stack,        \* the calls in progress
          throwing,     \* an exception is propagating
          kept,         \* pointer_releaser actions the application retained
          over          \* history: contacts an Up or a Cancel has ended

vars == <<contact, capture, granted, nodes, active, issued, stack, throwing, kept, over>>

Tracked == DOMAIN contact
Captured == DOMAIN capture
Top == stack[Len(stack)]
Below == SubSeq(stack, 1, Len(stack) - 1)
Without(f, p) == [q \in DOMAIN f \ {p} |-> f[q]]

Frame(kind, type, p, node, token) ==
    [kind |-> kind, type |-> type, p |-> p, node |-> node, token |-> token,
     born |-> 0, phase |-> "start", held |-> 0, met |-> 0, failed |-> FALSE]

Init ==
    /\ contact = <<>> /\ capture = <<>>
    /\ granted = FALSE
    /\ nodes = Nodes
    /\ active = TRUE
    /\ issued = 0
    /\ stack = <<>> /\ throwing = FALSE
    /\ kept = {} /\ over = {}

-----------------------------------------------------------------------------
(* The tables.                                                             *)

Token(p) == IF p \in Tracked THEN contact[p] ELSE 0
CaptureToken(p) == IF p \in Captured THEN capture[p].token ELSE 0

\* Mutant: a full table grows.
Begun_Unbounded(c, p, token) == (p :> token) @@ c

\* A full table leaves the contact untracked.
Begun(c, p, token) ==
    IF p \in DOMAIN c \/ Cardinality(DOMAIN c) < MaxTracked THEN (p :> token) @@ c ELSE c

EndedIf(c, p, token) == IF p \in DOMAIN c /\ c[p] = token THEN Without(c, p) ELSE c

ClearedIf(c, p, token) ==
    IF p \in DOMAIN c /\ c[p].token = token THEN Without(c, p) ELSE c

\* Mutant: end_pointer_capture is never called.
Hold_KeepsGrant(c) ==
    /\ capture' = c
    /\ granted' = IF active THEN granted \/ 0 \in DOMAIN c ELSE granted

\* begin_pointer_capture and end_pointer_capture follow every change to
\* pointer 0's entry, while a platform is attached.
Hold(c) ==
    /\ capture' = c
    /\ granted' = IF active THEN 0 \in DOMAIN c ELSE granted

-----------------------------------------------------------------------------
(* Where the innermost call stands.                                        *)

\* Application code has control: in a callback, in a hover or focus observer
\* of a dispatch, or outside every call.
UserCode ==
    /\ ~throwing
    /\ IF stack = <<>> THEN TRUE ELSE Top.kind = "call" \/ Top.phase = "hooks"

Barrier == \E i \in DOMAIN stack : stack[i].type \in {"CancelAll", "Deactivate"}
Deactivating == \E i \in DOMAIN stack : stack[i].type = "Deactivate"
Quarantined(n) == \E i \in DOMAIN stack : stack[i].type = "Remove" /\ stack[i].node = n

\* active_input_dispatch_token_: the innermost dispatch.
Dispatching == {i \in DOMAIN stack : stack[i].kind = "op" /\ stack[i].born > 0}
ActiveToken ==
    IF Dispatching = {} THEN 0
    ELSE stack[CHOOSE i \in Dispatching : \A j \in Dispatching : j <= i].born

\* active_input_callback_type_ and _pointer_id_: the innermost callback.
Callbacks == {i \in DOMAIN stack : stack[i].kind = "call"}
CallbackIs(types, p) ==
    /\ Callbacks # {}
    /\ LET c == stack[CHOOSE i \in Callbacks : \A j \in Callbacks : j <= i]
       IN c.type \in types /\ c.p = p

Restricted == {"Up", "Cancel", "Menu"}

\* send_to: the callback's context takes the contact's token as it is now.
Calling(op, n) ==
    [Frame("call", op.type, op.p, n, Token(op.p)) EXCEPT !.born = op.born]

-----------------------------------------------------------------------------
(* Dispatch.  An input is ignored during a lifecycle transition and by an  *)
(* inactive tree.  hit is what the hit test will find: nothing, or a node  *)
(* that no teardown quarantines.                                           *)

Dispatchable == UserCode /\ active /\ ~Deactivating
                /\ issued < MaxTokens /\ Len(stack) < MaxStack
Hit(n) == n = NoNode \/ (n \in nodes /\ ~Quarantined(n))

Op(type, p, hit) == [Frame("op", type, p, hit, 0) EXCEPT !.born = issued + 1]

\* cancel_pointer_capture for a pointer that is captured: the frame that
\* routes the cancel to the owner.  A raw contact already being cancelled is
\* left alone.
Cancelling(p) == [Frame("op", "Cancel", p, capture[p].node, 0)
                  EXCEPT !.phase = "route", !.held = CaptureToken(p), !.met = Token(p)]
Cancellable(p) == p \in Captured /\ (p = 0 \/ ~capture[p].cancelling)
Marked(p) == [capture EXCEPT ![p].cancelling = TRUE]

\* UI::dispatch begins the contact under the enclosing dispatch's token; the
\* tree then begins it anew, once a capture left from before is cancelled.
Down(p, hit) ==
    LET met == Begun(contact, p, ActiveToken)
        op == Op("Down", p, hit)
    IN /\ Dispatchable /\ Hit(hit)
       /\ issued' = issued + 1
       /\ IF Barrier
          THEN /\ contact' = Without(met, p)
               /\ UNCHANGED <<stack, capture>>
          ELSE IF p \in Captured
          THEN /\ contact' = met
               /\ LET was == IF p \in DOMAIN met THEN met[p] ELSE 0
                      replacing == [op EXCEPT !.phase = "replace", !.met = was]
                  IN IF Cancellable(p)
                     THEN /\ capture' = Marked(p)
                          /\ stack' = stack \o <<replacing, [Cancelling(p) EXCEPT !.met = was]>>
                     ELSE /\ stack' = Append(stack, replacing)
                          /\ UNCHANGED capture
          ELSE /\ contact' = Begun(met, p, issued + 1)
               /\ stack' = Append(stack, [op EXCEPT !.phase = "hooks"])
               /\ UNCHANGED capture
       /\ over' = over \ {<<p, ActiveToken>>}
       /\ UNCHANGED <<granted, nodes, active, throwing, kept>>

\* UI::dispatch has begun the contact before the tree ignores the event.
DownIgnored(p) ==
    /\ UserCode /\ (IF active THEN Deactivating ELSE TRUE)
    /\ contact' = Begun(contact, p, ActiveToken)
    /\ over' = over \ {<<p, ActiveToken>>}
    /\ UNCHANGED <<capture, granted, nodes, active, issued, stack, throwing, kept>>

\* The capture left from before is gone; a newer Down inside its cancellation
\* keeps the pointer.
DownReplaced ==
    /\ stack # <<>> /\ ~throwing
    /\ Top.type = "Down" /\ Top.kind = "op" /\ Top.phase = "replace"
    /\ IF Token(Top.p) # 0 /\ Token(Top.p) # Top.met
       THEN stack' = Below /\ UNCHANGED <<contact, over>>
       ELSE /\ contact' = Begun(contact, Top.p, Top.born)
            /\ over' = over \ {<<Top.p, Top.born>>}
            /\ stack' = Append(Below, [Top EXCEPT !.phase = "hooks", !.met = 0])
    /\ UNCHANGED <<capture, granted, nodes, active, issued, throwing, kept>>

\* An Up remembers its owner and the tokens it will clean up before the hover
\* observers run; a Move looks its owner up after them.
MoveOrUp(type, p, hit) ==
    /\ Dispatchable /\ Hit(hit)
    /\ issued' = issued + 1
    /\ LET op == [Op(type, p, hit) EXCEPT !.phase = "hooks"]
           owner == IF p \in Captured THEN capture[p].node ELSE hit
       IN stack' = Append(stack, IF type = "Move" THEN op
            ELSE [op EXCEPT !.node = owner, !.held = CaptureToken(p), !.met = Token(p)])
    /\ UNCHANGED <<contact, capture, granted, nodes, active, throwing, kept, over>>

Cancel(p) ==
    /\ Dispatchable
    /\ issued' = issued + 1
    /\ IF p \in Captured
       THEN IF Cancellable(p)
            THEN /\ capture' = Marked(p)
                 /\ stack' = Append(stack, [Cancelling(p) EXCEPT !.born = issued + 1])
                 /\ UNCHANGED <<contact, over>>
            ELSE UNCHANGED <<capture, stack, contact, over>>
       ELSE /\ contact' = Without(contact, p)
            /\ over' = over \cup {<<p, Token(p)>>}
            /\ UNCHANGED <<capture, stack>>
    /\ UNCHANGED <<granted, nodes, active, throwing, kept>>

\* A context menu cancels the capture, or ends the contact, and is then routed.
Menu(p, hit) ==
    LET op == [Op("Menu", p, hit) EXCEPT !.phase = "hooks"]
    IN /\ Dispatchable /\ Hit(hit)
       /\ issued' = issued + 1
       /\ IF Cancellable(p)
          THEN /\ capture' = Marked(p)
               /\ stack' = stack \o <<op, Cancelling(p)>>
               /\ UNCHANGED contact
          ELSE /\ contact' = IF p \in Captured THEN contact ELSE Without(contact, p)
               /\ stack' = Append(stack, op)
               /\ UNCHANGED capture
       /\ UNCHANGED <<granted, nodes, active, throwing, kept, over>>

-----------------------------------------------------------------------------
(* Routing: from the target to the root until a callback handles the event. *)

\* The observers are done: the event goes to its target, if it has one.
HooksDone ==
    /\ stack # <<>> /\ ~throwing /\ Top.kind = "op" /\ Top.phase = "hooks"
    /\ Len(stack) <= MaxStack
    /\ LET target == IF Top.type = "Move" /\ Top.p \in Captured
                     THEN capture[Top.p].node ELSE Top.node
           op == [Top EXCEPT !.phase = "route",
                             !.node = IF active \/ Top.type \notin {"Down", "Menu"}
                                      THEN target ELSE NoNode]
       IN stack' = Append(Below, op)
    /\ UNCHANGED <<contact, capture, granted, nodes, active, issued, throwing, kept, over>>

Routing == stack # <<>> /\ ~throwing /\ Top.kind = "op" /\ Top.phase = "route"

Send ==
    /\ Routing /\ Top.node # NoNode
    /\ stack' = Append(Append(Below, [Top EXCEPT !.node = Parent(Top.node)]),
                       Calling(Top, Top.node))
    /\ UNCHANGED <<contact, capture, granted, nodes, active, issued, throwing, kept, over>>

\* Mutant: whatever contact the pointer has by then.
Settle_Anything(op) ==
    IF op.type \in {"Up", "Cancel"}
    THEN /\ Hold(Without(capture, op.p))
         /\ contact' = Without(contact, op.p)
         /\ over' = over \cup {<<op.p, op.met>>}
    ELSE UNCHANGED <<capture, granted, contact, over>>

\* What an Up or a cancellation cleans up at its end, however it ends: the
\* contact and the capture it met.
Settle(op) ==
    IF op.type \in {"Up", "Cancel"}
    THEN /\ Hold(ClearedIf(capture, op.p, op.held))
         /\ contact' = EndedIf(contact, op.p, op.met)
         /\ over' = over \cup {<<op.p, op.met>>}
    ELSE UNCHANGED <<capture, granted, contact, over>>

RouteEnds ==
    /\ Routing /\ Top.node = NoNode
    /\ Settle(Top)
    /\ stack' = Below
    /\ UNCHANGED <<nodes, active, issued, throwing, kept>>

-----------------------------------------------------------------------------
(* What a callback may do with its InputContext.                           *)

InCallback == stack # <<>> /\ ~throwing /\ Top.kind = "call"

\* Mutant: the context's contact is not compared.
Admits_AnyContact(c) ==
    /\ c.type \notin Restricted
    /\ ~Barrier /\ ~Quarantined(c.node)
    /\ ~CallbackIs(Restricted, c.p)

\* set_pointer_capture: the context must be of the contact that is current,
\* no teardown may be draining, and no nested terminal callback may lend an
\* outer context its turn.
Admits(c) ==
    /\ c.type \notin Restricted
    /\ Token(c.p) = c.token
    /\ ~Barrier /\ ~Quarantined(c.node)
    /\ ~CallbackIs(Restricted, c.p)

CaptureBy(c) ==
    LET mine == /\ c.p \in Captured /\ ~capture[c.p].cancelling
                /\ capture[c.p].node = c.node
        rest == IF mine THEN capture ELSE Without(capture, c.p)
        entry == [node |-> c.node, token |-> c.token, cancelling |-> FALSE]
    IN Hold(IF mine \/ Cardinality(DOMAIN rest) < MaxTracked
            THEN (c.p :> entry) @@ rest ELSE rest)

\* What is assumed of the application, for the code does not enforce it.  It
\* never captures a contact while the Up or the cancellation that ends it is in
\* progress, from a hover observer or a move it dispatches there: what will be
\* released was noted on arrival, and the new capture could outlive the contact.
\* Nor does it capture from a view it has just deactivated: a hover move, which
\* belongs to no contact, could.
Sensible(p) ==
    /\ active
    /\ \A i \in DOMAIN stack :
        ~(/\ stack[i].kind = "op" /\ stack[i].type \in {"Up", "Cancel"}
          /\ stack[i].p = p /\ stack[i].met = Token(p))

\* Any context still on the stack may be used: a nested callback can reach the
\* one its caller was given.
Borrowed == {stack[i] : i \in Callbacks}

CapturePointer ==
    /\ UserCode /\ \E c \in Borrowed : Sensible(c.p) /\ Admits(c) /\ CaptureBy(c)
    /\ UNCHANGED <<contact, nodes, active, issued, stack, throwing, kept, over>>

Releases(c) ==
    /\ Token(c.p) = c.token
    /\ c.p \in Captured /\ capture[c.p].node = c.node

ReleasePointer ==
    /\ UserCode /\ \E c \in Borrowed : Releases(c) /\ Hold(Without(capture, c.p))
    /\ UNCHANGED <<contact, nodes, active, issued, stack, throwing, kept, over>>

\* pointer_releaser outlives the callback; the retained action names the node
\* by identity and the contact by token.
KeepReleaser ==
    /\ InCallback /\ Top.token # 0 /\ kept = {}
    /\ kept' = {[p |-> Top.p, node |-> Top.node, token |-> Top.token]}
    /\ UNCHANGED <<contact, capture, granted, nodes, active, issued, stack, throwing, over>>

ReleaseLater ==
    /\ UserCode
    /\ \E c \in kept : /\ kept' = kept \ {c}
                       /\ Hold(IF c.node \in nodes /\ Releases(c)
                               THEN Without(capture, c.p) ELSE capture)
    /\ UNCHANGED <<contact, nodes, active, issued, stack, throwing, over>>

\* The callback returns; a handled event is not routed further.
Return ==
    /\ InCallback
    /\ \E handled \in BOOLEAN :
         LET op == Below[Len(Below)]
         IN stack' = [Below EXCEPT ![Len(Below)] =
                        IF handled THEN [op EXCEPT !.node = NoNode] ELSE op]
    /\ UNCHANGED <<contact, capture, granted, nodes, active, issued, throwing, kept, over>>

-----------------------------------------------------------------------------
(* Exceptions.                                                             *)

\* A PointerDown callback that throws takes back what its own dispatch began.
Throw ==
    /\ UserCode /\ stack # <<>>
    /\ throwing' = TRUE
    /\ IF Top.kind = "call"
       THEN /\ stack' = Below
            /\ IF Top.type = "Down"
               THEN /\ Hold(ClearedIf(capture, Top.p, ActiveToken))
                    /\ contact' = EndedIf(contact, Top.p, ActiveToken)
               ELSE UNCHANGED <<capture, granted, contact>>
       ELSE UNCHANGED <<stack, capture, granted, contact>>
    /\ UNCHANGED <<nodes, active, issued, kept, over>>

\* Mutant: an Up or a Cancel that throws cleans nothing up.
Unwind_Unsettled ==
    /\ throwing
    /\ IF (IF stack = <<>> THEN TRUE ELSE Top.kind = "call")
       THEN throwing' = FALSE /\ UNCHANGED <<stack, capture, granted, contact, over>>
       ELSE IF Top.type \in {"CancelAll", "Deactivate"}
       THEN /\ throwing' = FALSE
            /\ stack' = Append(Below, [Top EXCEPT !.failed = TRUE])
            /\ UNCHANGED <<capture, granted, contact, over>>
       ELSE /\ stack' = Below
            /\ IF Top.type = "Down" /\ Top.phase = "hooks"
               THEN /\ Hold(ClearedIf(capture, Top.p, Top.born))
                    /\ contact' = EndedIf(contact, Top.p, Top.born)
                    /\ UNCHANGED over
               ELSE UNCHANGED <<capture, granted, contact, over>>
            /\ UNCHANGED throwing
    /\ UNCHANGED <<nodes, active, issued, kept>>

\* Mutant: the first error ends a drain.
Unwind_EndsDrain ==
    /\ throwing
    /\ IF (IF stack = <<>> THEN TRUE ELSE Top.kind = "call")
       THEN throwing' = FALSE /\ UNCHANGED <<stack, capture, granted, contact, over>>
       ELSE IF Top.type \in {"CancelAll", "Deactivate"}
       THEN /\ throwing' = FALSE
            /\ stack' = Below
            /\ UNCHANGED <<capture, granted, contact, over>>
       ELSE /\ stack' = Below
            /\ IF Top.type = "Down" /\ Top.phase = "hooks"
               THEN /\ Hold(ClearedIf(capture, Top.p, Top.born))
                    /\ contact' = EndedIf(contact, Top.p, Top.born)
                    /\ UNCHANGED over
               ELSE Settle(Top)
            /\ UNCHANGED throwing
    /\ UNCHANGED <<nodes, active, issued, kept>>

\* It unwinds the calls of the tree one by one.  A drain of all captures keeps
\* the error and goes on; the application may catch it in any callback.
Unwind ==
    /\ throwing
    /\ IF (IF stack = <<>> THEN TRUE ELSE Top.kind = "call")
       THEN throwing' = FALSE /\ UNCHANGED <<stack, capture, granted, contact, over>>
       ELSE IF Top.type \in {"CancelAll", "Deactivate"}
       THEN /\ throwing' = FALSE
            /\ stack' = Append(Below, [Top EXCEPT !.failed = TRUE])
            /\ UNCHANGED <<capture, granted, contact, over>>
       ELSE /\ stack' = Below
            /\ IF Top.type = "Down" /\ Top.phase = "hooks"
               THEN /\ Hold(ClearedIf(capture, Top.p, Top.born))
                    /\ contact' = EndedIf(contact, Top.p, Top.born)
                    /\ UNCHANGED over
               ELSE Settle(Top)
            /\ UNCHANGED throwing
    /\ UNCHANGED <<nodes, active, issued, kept>>

-----------------------------------------------------------------------------
(* Draining every capture: cancel_pointer, and deactivate_focus around it. *)

Drain(type) ==
    /\ UserCode /\ ~Deactivating /\ Len(stack) < MaxStack
    /\ type = "Deactivate" => active
    /\ stack' = Append(stack, [Frame("op", type, 0, NoNode, 0) EXCEPT !.phase = "drain"])
    /\ UNCHANGED <<contact, capture, granted, nodes, active, issued, throwing, kept, over>>

Draining(types) == /\ stack # <<>> /\ ~throwing
                   /\ Top.type \in types /\ Top.phase = "drain"

DrainOne ==
    /\ Draining({"CancelAll", "Deactivate"})
    /\ \E p \in Pointers : /\ Cancellable(p)
                           /\ capture' = Marked(p)
                           /\ stack' = Append(stack, Cancelling(p))
    /\ UNCHANGED <<contact, granted, nodes, active, issued, throwing, kept, over>>

DrainEnds ==
    /\ Draining({"CancelAll", "Deactivate"})
    /\ \A p \in Pointers : ~Cancellable(p)
    /\ contact' = <<>>
    /\ IF Top.type = "Deactivate"
       THEN Hold(<<>>) /\ active' = FALSE
       ELSE UNCHANGED <<capture, granted, active>>
    /\ throwing' = Top.failed
    /\ stack' = Below
    /\ UNCHANGED <<nodes, issued, kept, over>>

Activate ==
    /\ stack = <<>> /\ ~throwing /\ ~active
    /\ active' = TRUE
    /\ UNCHANGED <<contact, capture, granted, nodes, issued, stack, throwing, kept, over>>

(* Dynamic removal runs at a checkpoint outside every dispatch: it cancels *)
(* the captures of the subtree, which is quarantined meanwhile, and then   *)
(* destroys it.                                                            *)

Remove(n) ==
    /\ stack = <<>> /\ ~throwing
    /\ n \in nodes \ {Root}
    /\ stack' = <<[Frame("op", "Remove", 0, n, 0) EXCEPT !.phase = "drain"]>>
    /\ UNCHANGED <<contact, capture, granted, nodes, active, issued, throwing, kept, over>>

RemoveOne ==
    /\ Draining({"Remove"}) /\ active
    /\ \E p \in Captured : /\ capture[p].node = Top.node
                           /\ IF Cancellable(p)
                              THEN capture' = Marked(p) /\ stack' = Append(stack, Cancelling(p))
                              ELSE UNCHANGED <<capture, stack>>
    /\ UNCHANGED <<contact, granted, nodes, active, issued, throwing, kept, over>>

\* Mutant: captures of the subtree are not looked for.
RemoveEnds_Unchecked ==
    /\ Draining({"Remove"})
    /\ nodes' = nodes \ {Top.node}
    /\ stack' = Below
    /\ UNCHANGED <<contact, capture, granted, active, issued, throwing, kept, over>>

RemoveEnds ==
    /\ Draining({"Remove"})
    /\ active => \A p \in Captured : capture[p].node # Top.node
    /\ nodes' = nodes \ {Top.node}
    /\ stack' = Below
    /\ UNCHANGED <<contact, capture, granted, active, issued, throwing, kept, over>>

-----------------------------------------------------------------------------
Dispatch ==
    \E p \in Pointers :
        \/ DownIgnored(p)
        \/ Cancel(p)
        \/ \E hit \in nodes \cup {NoNode} :
             \/ Down(p, hit) \/ Menu(p, hit)
             \/ \E type \in {"Move", "Up"} : MoveOrUp(type, p, hit)

Next ==
    \/ Dispatch \/ DownReplaced \/ HooksDone \/ Send \/ RouteEnds
    \/ CapturePointer \/ ReleasePointer \/ KeepReleaser \/ ReleaseLater
    \/ Return \/ Throw \/ Unwind
    \/ \E type \in {"CancelAll", "Deactivate"} : Drain(type)
    \/ DrainOne \/ DrainEnds \/ Activate
    \/ (\E n \in Nodes : Remove(n)) \/ RemoveOne \/ RemoveEnds

Spec == Init /\ [][Next]_vars

-----------------------------------------------------------------------------
Tokens == 0..MaxTokens

\* Contacts, captures, contexts and retained actions keep their types.
TypeOK ==
    /\ Tracked \subseteq Pointers /\ \A p \in Tracked : contact[p] \in Tokens
    /\ Captured \subseteq Pointers
    /\ \A p \in Captured : capture[p] \in [node : Nodes, token : Tokens, cancelling : BOOLEAN]
    /\ Cardinality(Tracked) <= MaxTracked /\ Cardinality(Captured) <= MaxTracked
    /\ granted \in BOOLEAN /\ active \in BOOLEAN /\ throwing \in BOOLEAN
    /\ nodes \subseteq Nodes /\ issued \in Tokens

\* Between calls every capture belongs to the contact its pointer has now, and
\* none is left half cancelled: the two tables are cleaned up by different
\* frames, each comparing tokens of its own.
CapturesFollowContacts ==
    (stack = <<>> /\ ~throwing) =>
        \A p \in Captured : ~capture[p].cancelling /\ capture[p].token = Token(p)

\* A contact that an Up or a Cancel ended is over: no frame that was already
\* running when it ended brings it, or its capture, back.
EndedStaysEnded ==
    \A e \in over : e[2] # 0 => Token(e[1]) # e[2] /\ CaptureToken(e[1]) # e[2]

\* No capture, and no call in progress, refers to a destroyed node.
NothingDangles ==
    /\ \A p \in Captured : capture[p].node \in nodes
    /\ \A i \in DOMAIN stack : stack[i].node \in nodes \cup {NoNode}

\* The platform never holds the native capture for a pointer nobody captures.
NoNativeCaptureLeaks == granted => 0 \in Captured

Touched(p) == p \in Captured /\ (p \in DOMAIN capture' => capture'[p] # capture[p])

\* A callback changes the capture of a contact that nobody is cancelling only
\* through a context of that very contact, however the callbacks of older and newer contacts nest.
StaleContextIsInert ==
    [][CapturePointer \/ ReleasePointer =>
         \A p \in Captured : Touched(p) /\ ~capture[p].cancelling /\ capture[p].token # 0 =>
            \E c \in Borrowed : c.p = p /\ c.token = capture[p].token]_vars

\* An Up that was already being delivered when a newer contact of its pointer
\* began does not end that contact, whichever way its delivery ends.
NewerContactSurvives ==
    [][RouteEnds \/ Unwind =>
         \A p \in Tracked : (stack # <<>> /\ p \notin DOMAIN contact') =>
            (Top.type = "Up" => contact[p] < Top.born)]_vars

\* Draining all captures leaves neither a capture nor a contact, also when
\* cancellation callbacks throw, dispatch, or drain again.
DrainsEverything ==
    [][(Len(stack) = 1 /\ stack' = <<>>) =>
         (stack[1].type \in {"CancelAll", "Deactivate"} => capture' = <<>> /\ contact' = <<>>)]_vars

=============================================================================
