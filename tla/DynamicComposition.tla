-------------------------- MODULE DynamicComposition --------------------------
(***************************************************************************)
(* Structural reconciliation of a Tree (detail/tree_dynamic.inc, with the   *)
(* lifecycle transactions of tree_lifecycle_transaction.inc and the hosts   *)
(* If, Switch and ForEach).                                                 *)
(*                                                                          *)
(* The tree: a root host, whose children are keyed "leaf" and "host"; the   *)
(* second is a host itself, with at most the child "inner".  Leaves are     *)
(* user components: every callback may throw, and may change the state that *)
(* any host observes.  Keys stand for nodes: a key that is inserted again   *)
(* is a new node, and no marker or pointer of the old one survives it.      *)
(*                                                                          *)
(* The structural epoch only ever answers whether it has moved since the    *)
(* pass last looked.  Of focus only the registry is here, the tree's list   *)
(* of raw pointers; every leaf is focusable.                                *)
(***************************************************************************)
EXTENDS Naturals, SequencesExt, FiniteSets

CONSTANTS
    Active,      \* the tree is active while it is observed
    MaxPasses,   \* kMaxStructuralPasses
    MaxChanges,  \* bound: changes of an observed state
    MaxFaults    \* bound: callbacks that throw and allocations that fail

DynamicAssumption ==
    /\ Active \in BOOLEAN
    /\ MaxPasses \in Nat \ {0} /\ MaxChanges \in Nat /\ MaxFaults \in Nat

Hosts  == {"root", "host"}
Leaves == {"leaf", "inner"}
Nodes  == Leaves \cup {"host"}

\* What a host's source can ask for, twice the same key included.
Lists(h) ==
    IF h = "root" THEN {<<>>, <<"leaf">>, <<"host">>, <<"leaf", "host">>,
                        <<"host", "leaf">>, <<"leaf", "leaf">>}
    ELSE {<<>>, <<"inner">>}

VARIABLES
    desired,     \* what the source of each host asks for
    keys,        \* DynamicRecord::keys, which are the children's
    records,     \* hosts that are registered
    live,        \* retained identities
    life,        \* the last call made to each component
    registry,    \* focusables_
    repair,      \* dynamic_focus_rebuild_pending_
    dirty,       \* dirty_dynamic_nodes_
    retryAll,    \* dynamic_reconcile_retry_all_
    moved,       \* structural_epoch_ moved since the pass last looked
    phase,       \* where flush_dynamic_mutations is
    passes, queue, \* passes made; hosts still to do in this one
    plan,        \* the owner being reconciled, its children before and wanted
    todo,        \* lifecycle work left in this phase
    calling,     \* the component at its head is being called
    failed,      \* failed_mount_root_, failed_activation_root_; a removal threw
    changes, faults

tree  == <<keys, records, live, life, registry, repair>>
marks == <<dirty, retryAll, moved>>
run   == <<phase, passes, queue, plan, todo, calling, failed>>
bound == <<changes, faults>>
vars  == <<desired, tree, marks, run, bound>>

Phases == {"idle", "pass", "snapshot", "unfocus", "reserve", "removing",
           "factories", "inserting", "undoing", "refocus"}

Calls == {"mount", "activate", "deactivate", "unmount"}
Work  == (Calls \X Nodes) \cup ({"mount_node", "activate_node", "deactivate_node", "unmount_node"} \X Nodes)

NoPlan == [owner |-> "root", before |-> <<>>, wanted |-> <<>>]
NotFailed == [mount |-> "none", activation |-> "none", removal |-> FALSE]

TypeOK ==
    /\ \A h \in Hosts : desired[h] \in Lists(h) /\ keys[h] \in Lists(h)
    /\ records \subseteq Hosts /\ live \subseteq Nodes
    /\ life \in [Nodes -> {"out", "mounted", "active"}]
    /\ registry \subseteq Leaves /\ repair \in BOOLEAN
    /\ dirty \subseteq Hosts /\ retryAll \in BOOLEAN /\ moved \in BOOLEAN
    /\ phase \in Phases /\ passes \in 0..MaxPasses
    /\ ToSet(queue) \subseteq Hosts
    /\ plan.owner \in Hosts /\ ToSet(todo) \subseteq Work /\ calling \in BOOLEAN
    /\ failed.mount \in Nodes \cup {"none"} /\ failed.activation \in Nodes \cup {"none"}
    /\ changes \in 0..MaxChanges /\ faults \in 0..MaxFaults

\* The root was mounted, and activated, with nothing in it.
Init ==
    /\ desired = [h \in Hosts |-> <<>>] /\ keys = desired
    /\ records = {"root"} /\ live = {}
    /\ life = [n \in Nodes |-> "out"]
    /\ registry = {} /\ repair = FALSE
    /\ dirty = {} /\ retryAll = FALSE /\ moved = FALSE
    /\ phase = "idle" /\ passes = 0 /\ queue = <<>>
    /\ plan = NoPlan /\ todo = <<>> /\ calling = FALSE /\ failed = NotFailed
    /\ changes = 0 /\ faults = 0
-----------------------------------------------------------------------------
\* The subtree under a child of the root or of the host, in mount order.
Subtree(n) == IF n = "host" THEN <<"host">> \o keys["host"] ELSE <<n>>

In(ks) == ToSet(ks["root"]) \cup (IF "host" \in ToSet(ks["root"]) THEN ToSet(ks["host"]) ELSE {})

Present == In(keys)

HasDuplicates(s) == Cardinality(ToSet(s)) < Len(s)

Retained(p) == SelectSeq(p.wanted, LAMBDA k : k \in ToSet(p.before))

\* Mutant: whatever was there goes.
Removed_All(p) == p.before

Removed(p) == SelectSeq(p.before, LAMBDA k : k \notin ToSet(p.wanted))
Inserted(p) == SelectSeq(p.wanted, LAMBDA k : k \notin ToSet(p.before))

\* All keys once owner h holds ks; a host that is not in the tree has no children.
With(h, ks) ==
    [keys EXCEPT ![h] = ks,
                 !["host"] = IF h = "root" /\ "host" \notin ToSet(ks) THEN <<>>
                             ELSE IF h = "host" THEN ks ELSE @]

\* One work item for each root, in order; with activation if the tree is active.
Each(roots, what, also) ==
    FlattenSeq([i \in 1..Len(roots) |->
        IF what = "mount_node" THEN <<<<what, roots[i]>>>> \o (IF also THEN <<<<"activate_node", roots[i]>>>> ELSE <<>>)
        ELSE (IF also THEN <<<<"deactivate_node", roots[i]>>>> ELSE <<>>) \o <<<<what, roots[i]>>>>])

\* queue_dynamic_mutation when its bookkeeping can be allocated.
Queue(h) == /\ moved' = TRUE
            /\ dirty' = dirty \cup {h}
            /\ UNCHANGED retryAll

\* Mutant: the exception just leaves.
Fail_Forgets ==
    /\ UNCHANGED retryAll
    /\ phase' = "idle" /\ queue' = <<>> /\ passes' = 0
    /\ plan' = NoPlan /\ todo' = <<>> /\ calling' = FALSE /\ failed' = NotFailed

\* The exception leaves flush_dynamic_mutations: everything is tried again at
\* the next checkpoint.
Fail ==
    /\ retryAll' = TRUE
    /\ phase' = "idle" /\ queue' = <<>> /\ passes' = 0
    /\ plan' = NoPlan /\ todo' = <<>> /\ calling' = FALSE /\ failed' = NotFailed

Fault == faults < MaxFaults /\ faults' = faults + 1

\* The owner is done; the pass goes on.
Done == phase' = "pass" /\ plan' = NoPlan /\ todo' = <<>>
        /\ UNCHANGED <<passes, queue, calling, failed>>

Enter(p) == phase' = p /\ UNCHANGED <<passes, queue, plan, todo, calling, failed>>
-----------------------------------------------------------------------------
(***************************************************************************)
(* User code: outside the tree, or in what reconciliation calls.            *)
(***************************************************************************)
UserCode == calling \/ phase \in {"idle", "snapshot", "unfocus", "factories", "refocus"}

\* A state that h observes changes.  While a snapshot of it is read it cannot.
\* A host that is not mounted, or whose identity is retired, does not hear.
\* Recording the owner may fail to allocate: the exception goes to user code.
Change(h, ks) ==
    /\ UserCode /\ (phase = "snapshot" => h # plan.owner)
    /\ changes < MaxChanges /\ ks # desired[h]
    /\ changes' = changes + 1
    /\ desired' = [desired EXCEPT ![h] = ks]
    /\ \/ /\ h = "root" \/ h \in live
          /\ Queue(h) /\ UNCHANGED faults
       \/ /\ h = "root" \/ h \in live
          /\ h \notin dirty /\ Fault
          /\ moved' = TRUE /\ retryAll' = TRUE /\ UNCHANGED dirty
       \/ /\ h # "root" /\ h \notin live
          /\ UNCHANGED <<marks, faults>>
    /\ UNCHANGED <<tree, run>>

\* It throws, between the lifecycle callbacks.
UserThrows ==
    /\ phase \in {"snapshot", "unfocus", "factories", "refocus"} /\ Fault /\ Fail
    /\ UNCHANGED <<desired, tree, dirty, moved, changes>>
-----------------------------------------------------------------------------
(***************************************************************************)
(* flush_dynamic_mutations, at a checkpoint.  Called from user code in the  *)
(* middle of a flush it returns at once.                                    *)
(***************************************************************************)
Pending == dirty # {} \/ retryAll

\* Collect the owners, in tree order, and clear their markers.
Pass(count) ==
    LET captured == IF retryAll THEN records ELSE dirty IN
    /\ dirty' = {} /\ retryAll' = FALSE
    /\ queue' = SelectSeq(<<"root", "host">>, LAMBDA h : h \in captured)
    /\ phase' = "pass" /\ passes' = count
    /\ UNCHANGED <<moved, plan, todo, calling, failed>>

Checkpoint ==
    /\ phase = "idle" /\ Pending
    /\ Pass(1)
    /\ UNCHANGED <<desired, tree, bound>>

\* Mutant: the pass limit drops what is left.
PassEnds_Drops ==
    /\ phase = "pass" /\ queue = <<>>
    /\ IF Pending /\ passes < MaxPasses
       THEN Pass(passes + 1)
       ELSE /\ phase' = "idle" /\ passes' = 0
            /\ dirty' = {} /\ retryAll' = FALSE
            /\ UNCHANGED <<moved, queue, plan, todo, calling, failed>>
    /\ UNCHANGED <<desired, tree, bound>>

\* Structure that keeps changing waits for the next checkpoint.
PassEnds ==
    /\ phase = "pass" /\ queue = <<>>
    /\ IF Pending /\ passes < MaxPasses
       THEN Pass(passes + 1)
       ELSE /\ phase' = "idle" /\ passes' = 0
            /\ UNCHANGED <<marks, queue, plan, todo, calling, failed>>
    /\ UNCHANGED <<desired, tree, bound>>

\* The next owner, unless it is gone by now: its source makes a snapshot.
Reconcile ==
    /\ phase = "pass" /\ queue # <<>>
    /\ queue' = Tail(queue)
    /\ IF Head(queue) \in records
       THEN phase' = "snapshot" /\ plan' = [NoPlan EXCEPT !.owner = Head(queue)]
       ELSE UNCHANGED <<phase, plan>>
    /\ UNCHANGED <<desired, tree, marks, passes, todo, calling, failed, bound>>
-----------------------------------------------------------------------------
(***************************************************************************)
(* reconcile_dynamic_node.                                                  *)
(***************************************************************************)
\* Compare keys, after a focus registry left over has been repaired.
Compare ==
    LET o == plan.owner
        p == [plan EXCEPT !.before = keys[o], !.wanted = desired[o]] IN
    /\ phase = "snapshot"
    /\ IF HasDuplicates(p.wanted)
       THEN Done /\ UNCHANGED <<marks, registry, repair>>
       ELSE /\ registry' = IF repair THEN Present \cap Leaves ELSE registry
            /\ repair' = FALSE
            /\ IF p.wanted = p.before
               THEN Done /\ dirty' = (IF repair THEN dirty \ {o} ELSE dirty)
                    /\ UNCHANGED <<retryAll, moved>>
               ELSE /\ plan' = p /\ moved' = FALSE
                    /\ dirty' = IF repair THEN dirty \cup {o} ELSE dirty
                    /\ phase' = IF Active /\ Removed(p) # <<>> THEN "unfocus" ELSE "reserve"
                    /\ UNCHANGED <<retryAll, passes, queue, todo, calling, failed>>
    /\ UNCHANGED <<desired, keys, records, live, life, bound>>

RepairFails ==
    /\ phase = "snapshot" /\ repair /\ ~HasDuplicates(desired[plan.owner])
    /\ Fault /\ Fail
    /\ dirty' = dirty \cup {plan.owner}
    /\ UNCHANGED <<desired, tree, moved, changes>>

\* Hover, captures and focus were taken from what goes.  If user code changed
\* any structure meanwhile the snapshot is stale.
Unfocused ==
    /\ phase = "unfocus"
    /\ IF moved THEN Queue(plan.owner) /\ Done
                ELSE Enter("reserve") /\ UNCHANGED marks
    /\ UNCHANGED <<desired, tree, bound>>

\* The marker is put back before anything is touched; then storage is prepared.
Reserve ==
    /\ phase = "reserve"
    /\ dirty' = dirty \cup {plan.owner}
    /\ moved' = FALSE
    /\ \/ /\ todo' = Each(Reverse(Removed(plan)), "unmount_node", Active)
          /\ phase' = "removing"
          /\ UNCHANGED <<retryAll, passes, queue, plan, calling, failed, faults>>
       \/ Fault /\ Fail
    /\ UNCHANGED <<desired, tree, changes>>

\* Mutant: what failed to be rebuilt is left as it was.
PublishRetained_Dangling ==
    LET o == plan.owner
        k == With(o, Retained(plan)) IN
    /\ phase = "removing" /\ todo = <<>> /\ ~calling
    /\ keys' = k
    /\ \/ /\ registry' = IF Removed(plan) = <<>> THEN registry ELSE In(k) \cap Leaves
          /\ repair' = (IF Removed(plan) = <<>> THEN repair ELSE FALSE)
          /\ UNCHANGED <<dirty, moved, faults>>
          /\ IF failed.removal THEN Fail
             ELSE IF moved THEN Done /\ UNCHANGED retryAll
             ELSE Enter("factories") /\ UNCHANGED retryAll
       \/ /\ Removed(plan) # <<>>
          /\ repair' = TRUE
          /\ Fault /\ Fail
          /\ UNCHANGED <<dirty, moved, registry>>
    /\ UNCHANGED <<desired, records, live, life, changes>>

\* The retained children are published, the registry rebuilt or emptied, the
\* removed nodes destroyed.  An error of theirs, or a change by them, ends it.
PublishRetained ==
    LET o == plan.owner
        k == With(o, Retained(plan)) IN
    /\ phase = "removing" /\ todo = <<>> /\ ~calling
    /\ keys' = k
    /\ \/ /\ registry' = IF Removed(plan) = <<>> THEN registry ELSE In(k) \cap Leaves
          /\ repair' = (IF Removed(plan) = <<>> THEN repair ELSE FALSE)
          /\ UNCHANGED <<dirty, moved, faults>>
          /\ IF failed.removal THEN Fail
             ELSE IF moved THEN Done /\ UNCHANGED retryAll
             ELSE Enter("factories") /\ UNCHANGED retryAll
       \/ /\ Removed(plan) # <<>>
          /\ registry' = {} /\ repair' = TRUE
          /\ Fault /\ Fail
          /\ UNCHANGED <<dirty, moved>>
    /\ UNCHANGED <<desired, records, live, life, changes>>

\* The new nodes are compiled and take their places; a new host has its initial
\* children.  Their lifecycle starts.
Insert ==
    LET o == plan.owner
        new == Inserted(plan)
        k == With(o, plan.wanted) IN
    /\ phase = "factories"
    /\ keys' = IF "host" \in ToSet(new) THEN [k EXCEPT !["host"] = desired["host"]] ELSE k
    /\ todo' = Each(new, "mount_node", Active)
    /\ phase' = "inserting"
    /\ UNCHANGED <<desired, records, live, life, registry, repair, marks,
                   passes, queue, plan, calling, failed, bound>>
-----------------------------------------------------------------------------
(***************************************************************************)
(* Lifecycle work: mount_node and its siblings, and the calls they make.    *)
(***************************************************************************)
Working == phase \in {"removing", "inserting", "undoing"} /\ todo # <<>> /\ ~calling

CallsOf(call, nodes) == [i \in 1..Len(nodes) |-> <<call, nodes[i]>>]

\* mount_node, activate_node: what failed before is forgotten.
StartForward ==
    LET r == Head(todo)[2] IN
    /\ Working
    /\ \/ /\ Head(todo)[1] = "mount_node"
          /\ failed' = [failed EXCEPT !.mount = "none"]
          /\ todo' = CallsOf("mount", Subtree(r)) \o Tail(todo)
       \/ /\ Head(todo)[1] = "activate_node"
          /\ failed' = [failed EXCEPT !.activation = "none"]
          /\ todo' = CallsOf("activate", Subtree(r)) \o Tail(todo)
    /\ UNCHANGED <<desired, tree, marks, phase, passes, queue, plan, calling, bound>>

\* deactivate_node, unmount_node: nothing if that root's own rollback is what
\* brought us here.
StartBackward ==
    LET r == Head(todo)[2] IN
    /\ Working
    /\ \/ /\ Head(todo)[1] = "deactivate_node"
          /\ IF failed.activation = r
             THEN failed' = [failed EXCEPT !.activation = "none"] /\ todo' = Tail(todo)
             ELSE todo' = CallsOf("deactivate", Reverse(Subtree(r))) \o Tail(todo) /\ UNCHANGED failed
          /\ UNCHANGED live
       \/ /\ Head(todo)[1] = "unmount_node"
          /\ IF failed.mount = r
             THEN failed' = [failed EXCEPT !.mount = "none"] /\ todo' = Tail(todo) /\ UNCHANGED live
             ELSE /\ todo' = CallsOf("unmount", Reverse(Subtree(r))) \o Tail(todo)
                  /\ live' = live \ ToSet(Subtree(r))
                  /\ UNCHANGED failed
    /\ UNCHANGED <<desired, keys, records, life, registry, repair, marks,
                   phase, passes, queue, plan, calling, bound>>

Reached(call) ==
    CASE call = "mount" -> "mounted" [] call = "activate" -> "active"
      [] call = "deactivate" -> "mounted" [] call = "unmount" -> "out"

\* A user component is called.
CallLeaf ==
    LET c == Head(todo)[1]  n == Head(todo)[2] IN
    /\ Working /\ c \in Calls /\ n \in Leaves
    /\ life' = [life EXCEPT ![n] = Reached(c)]
    /\ live' = CASE c = "mount" -> live \cup {n} [] c = "unmount" -> live \ {n} [] OTHER -> live
    /\ calling' = TRUE
    /\ UNCHANGED <<desired, keys, records, registry, repair, marks,
                   phase, passes, queue, plan, todo, failed, bound>>

\* A host is: mounted it registers, observes its source and asks for a pass;
\* unmounted it takes its record and its marker with it.
CallHost ==
    LET c == Head(todo)[1] IN
    /\ Working /\ c \in Calls /\ Head(todo)[2] = "host"
    /\ life' = [life EXCEPT !["host"] = Reached(c)]
    /\ todo' = Tail(todo)
    /\ CASE c = "mount" -> /\ live' = live \cup {"host"}
                           /\ records' = records \cup {"host"}
                           /\ Queue("host")
         [] c = "unmount" -> /\ live' = live \ {"host"}
                             /\ records' = records \ {"host"}
                             /\ dirty' = dirty \ {"host"}
                             /\ UNCHANGED <<retryAll, moved>>
         [] OTHER -> UNCHANGED <<live, records, marks>>
    /\ UNCHANGED <<desired, keys, registry, repair, phase, passes, queue,
                   plan, calling, failed, bound>>

LeafReturns ==
    /\ calling
    /\ calling' = FALSE /\ todo' = Tail(todo)
    /\ UNCHANGED <<desired, tree, marks, phase, passes, queue, plan, failed, bound>>

\* While nodes are removed or a rollback is made the walk goes on.
TeardownThrows ==
    /\ calling /\ phase \in {"removing", "undoing"}
    /\ Fault
    /\ calling' = FALSE /\ todo' = Tail(todo)
    /\ failed' = IF phase = "removing" THEN [failed EXCEPT !.removal = TRUE] ELSE failed
    /\ UNCHANGED <<desired, tree, marks, phase, passes, queue, plan, changes>>

\* The child of the owner whose subtree a node is in.
RootOf(n) == IF plan.owner = "root" /\ n = "inner" THEN "host" ELSE n

Before(s, x) == SubSeq(s, 1, CHOOSE i \in 1..Len(s) : s[i] = x)

\* Mutant: only the root that failed is undone.
InsertionThrows_Alone ==
    LET c == Head(todo)[1]  n == Head(todo)[2]  r == RootOf(n)
        journal == Reverse(Before(Subtree(r), n)) IN
    /\ calling /\ phase = "inserting"
    /\ Fault
    /\ calling' = FALSE /\ phase' = "undoing"
    /\ IF c = "mount"
       THEN /\ failed' = [failed EXCEPT !.mount = r]
            /\ todo' = CallsOf("unmount", journal) \o <<<<"unmount_node", r>>>>
       ELSE /\ failed' = [failed EXCEPT !.activation = r]
            /\ todo' = CallsOf("deactivate", journal) \o Each(<<r>>, "unmount_node", Active)
    /\ UNCHANGED <<desired, tree, marks, passes, queue, plan, changes>>

\* mount or activate throws: its journal is undone, backwards and this node
\* first, then every root inserted so far, backwards too.
InsertionThrows ==
    LET c == Head(todo)[1]  n == Head(todo)[2]  r == RootOf(n)
        journal == Reverse(Before(Subtree(r), n))
        earlier == Reverse(SubSeq(Before(Inserted(plan), r), 1, Len(Before(Inserted(plan), r)) - 1)) IN
    /\ calling /\ phase = "inserting"
    /\ Fault
    /\ calling' = FALSE /\ phase' = "undoing"
    /\ IF c = "mount"
       THEN /\ failed' = [failed EXCEPT !.mount = r]
            /\ todo' = CallsOf("unmount", journal) \o <<<<"unmount_node", r>>>>
                         \o Each(earlier, "unmount_node", Active)
       ELSE /\ failed' = [failed EXCEPT !.activation = r]
            /\ todo' = CallsOf("deactivate", journal) \o Each(<<r>> \o earlier, "unmount_node", Active)
    /\ UNCHANGED <<desired, tree, marks, passes, queue, plan, changes>>

\* The inserted nodes are destroyed, the retained keys restored.
Undone ==
    /\ phase = "undoing" /\ todo = <<>> /\ ~calling
    /\ keys' = With(plan.owner, Retained(plan))
    /\ Fail
    /\ UNCHANGED <<desired, records, live, life, registry, repair, dirty, moved, bound>>

\* The insertion is committed: the registry is rebuilt, or that is put off.
Inserts ==
    /\ phase = "inserting" /\ todo = <<>> /\ ~calling
    /\ \/ /\ registry' = Present \cap Leaves /\ repair' = FALSE
          /\ Enter("refocus")
          /\ UNCHANGED <<marks, faults>>
       \/ /\ repair' = TRUE
          /\ Fault /\ Fail
          /\ UNCHANGED <<registry, dirty, moved>>
    /\ UNCHANGED <<desired, keys, records, live, life, changes>>

\* Mutant: it is retired in any case.
Finish_Retires ==
    /\ phase = "refocus"
    /\ dirty' = dirty \ {plan.owner}
    /\ Done
    /\ UNCHANGED <<desired, tree, retryAll, moved, bound>>

\* Focus has moved.  The marker is retired if no callback changed any structure.
Finish ==
    /\ phase = "refocus"
    /\ dirty' = IF moved THEN dirty ELSE dirty \ {plan.owner}
    /\ Done
    /\ UNCHANGED <<desired, tree, retryAll, moved, bound>>
-----------------------------------------------------------------------------
Steps ==
    \/ PassEnds \/ Reconcile \/ Compare \/ Unfocused \/ Reserve \/ PublishRetained
    \/ Insert \/ StartForward \/ StartBackward \/ CallLeaf \/ CallHost \/ LeafReturns
    \/ Undone \/ Inserts \/ Finish

Faults == UserThrows \/ RepairFails \/ TeardownThrows \/ InsertionThrows

Next ==
    \/ \E h \in Hosts : \E ks \in Lists(h) : Change(h, ks)
    \/ Checkpoint \/ Steps \/ Faults

Spec == Init /\ [][Next]_vars

\* User code returns, and the next frame or event is a checkpoint.
FairSpec == Spec /\ WF_vars(Steps) /\ WF_vars(Checkpoint)
-----------------------------------------------------------------------------
Contract == INSTANCE LifecycleContract WITH Components <- Nodes

\* Every component hears its calls in order, whatever throws and whoever asks
\* for another structure meanwhile.
ImplementsLifecycle == Contract!Spec

\* Between flushes, exactly the components in the tree are up.
TreeIsUp ==
    phase = "idle" =>
        /\ \A n \in Nodes : life[n] = IF n \notin Present THEN "out"
                                      ELSE IF Active THEN "active" ELSE "mounted"
        /\ live = Present
        /\ records = {"root"} \cup (Present \cap {"host"})

\* Between flushes, a host that does not show what its source asks for is
\* marked: no change is lost, by a failure, a stale pass or the pass limit.
NoChangeLost ==
    phase = "idle" =>
        \A h \in records :
            keys[h] # desired[h] /\ ~HasDuplicates(desired[h]) => retryAll \/ h \in dirty

\* The focus registry never points at a destroyed node, and it is complete
\* unless its repair is pending; the repair has a marker that brings it about,
\* except while a source asks for the same key twice: that is looked at first.
RegistryIsSafe ==
    /\ registry \subseteq Present
    /\ phase = "idle" =>
        /\ registry = Present \cap Leaves \/ repair
        /\ repair => Pending \/ \E h \in records : HasDuplicates(desired[h])

\* A child that stays hears nothing of the reconciliation of its siblings.
RetainedUndisturbed ==
    [][\A n \in Nodes :
         life'[n] # life[n] /\ phase \in {"removing", "inserting", "undoing"}
           => RootOf(n) \notin ToSet(Retained(plan))]_vars

\* Every host shows what its source asks for, in the end and again after every
\* change.
Converged == \A h \in records : HasDuplicates(desired[h]) \/ keys[h] = desired[h]

Converges == ~Converged ~> Converged
=============================================================================
