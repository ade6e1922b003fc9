----------------------------- MODULE SceneRenderer -----------------------------
(***************************************************************************)
(* What a native view shows: the damage of the Tree, the scene that is kept  *)
(* between frames and painted in full or in part                             *)
(* (src/detail/platform/gl_renderer.cpp), and the redraws the view asks for  *)
(* (view_core.cpp, view_events.cpp).                                         *)
(*                                                                          *)
(* The view is a row of regions, and damage are intervals of them.  Of the    *)
(* pixels of a region only whether they show what the components would paint *)
(* now is kept.  Layout and paint call the components, which change          *)
(* themselves meanwhile, pump native events, and throw.                       *)
(***************************************************************************)
EXTENDS Integers, FiniteSetsExt

CONSTANTS
    Regions,      \* 1..n
    MaxChanges,   \* bound: changes by components, the user and the window system
    MaxFaults     \* bound: layouts, paints, allocations and submissions that fail

SceneAssumption ==
    /\ Regions \subseteq Nat /\ \E n \in Regions : Regions = 1..n
    /\ MaxChanges \in Nat /\ MaxFaults \in Nat

VARIABLES
    dirty,        \* Tree::paint_dirty_
    layout_dirty, \* and a resize that waits for the next frame
    transition,   \* the tree is in an operation of its own
    overlays,     \* there are overlays
    effects,      \* regions whose component paints with effects
    scene,        \* the renderer: scene_valid_, full_repaint_required_, the scene has
                  \* the size and scale of the view, scene_uses_effects_
    pending,      \* pending_damage_
    redraw,       \* deferred_redraw_pending_
    present,      \* present_pending_
    frame,        \* the render in progress
    later,        \* the view's deferred_scene_redraw_
    exposed,      \* an expose event is on its way
    drawn, snapshot, shown,
        \* the regions that are right: of the scene, of its snapshot, on the screen
    missed,       \* history: an expose failed, and none has succeeded since
    changes, faults

vars == <<dirty, layout_dirty, transition, overlays, effects, scene, pending, redraw, present,
          frame, later, exposed, drawn, snapshot, shown, missed, changes, faults>>

UIVars   == <<layout_dirty, transition, overlays, effects>>
None     == {0}
NoFrame  == [pc |-> "idle", legacy |-> FALSE, all |-> FALSE, clip |-> {}, left |-> {},
             captured |-> {}, used |-> FALSE]

Init ==
    /\ dirty = Regions /\ layout_dirty = TRUE /\ transition = FALSE /\ overlays = FALSE /\ effects = {}
    /\ scene = [valid |-> FALSE, full |-> TRUE, sized |-> FALSE, effects |-> FALSE]
    /\ pending = Regions /\ redraw = FALSE /\ present = TRUE /\ frame = NoFrame
    /\ later = FALSE /\ exposed = TRUE
    /\ drawn = {} /\ snapshot = None /\ shown = {} /\ missed = FALSE /\ changes = 0 /\ faults = 0

TypeOK ==
    /\ dirty \cup effects \cup pending \cup drawn \cup shown \subseteq Regions
    /\ {layout_dirty, transition, overlays, redraw, present, later, exposed, missed} \subseteq BOOLEAN
    /\ scene \in [valid : BOOLEAN, full : BOOLEAN, sized : BOOLEAN, effects : BOOLEAN]
    /\ frame.pc \in {"idle", "prepare", "paint", "present"}
    /\ frame.clip \cup frame.left \cup frame.captured \subseteq Regions
    /\ snapshot = None \/ snapshot \subseteq Regions
    /\ changes \in 0..MaxChanges /\ faults \in 0..MaxFaults

At(pc)      == frame.pc = pc
Fault       == faults < MaxFaults /\ faults' = faults + 1
Smoothly    == UNCHANGED faults
Counted     == changes < MaxChanges /\ changes' = changes + 1
UIDirty     == layout_dirty \/ dirty # {}
Fringe(e)   == {r \in Regions : r \in (e - 1)..(e + 1)}
Hull(S)     == IF S = {} THEN {} ELSE Min(S)..Max(S)

\* The rectangle of a DirtyRegion that contains an interval of it.
Merged(S, D) == {r \in S : Hull(D \cup {r}) \subseteq S}
-----------------------------------------------------------------------------
(* The tree reports damage.                                                  *)

\* ViewCore's invalidation callback and invalidate_from_ui.
Notify(rect) ==
    /\ pending' = Hull(pending \cup rect) /\ present' = TRUE
    /\ redraw' = (redraw \/ At("paint") \/ (At("prepare") /\ frame.legacy))
    /\ exposed' = (exposed \/ At("idle"))

Unnoticed == UNCHANGED <<pending, present, redraw, exposed>>

\* retain_dirty, and a notification unless the damage is known.
Damage(D) ==
    IF D \subseteq dirty THEN UNCHANGED dirty /\ Unnoticed
    ELSE dirty' = dirty \cup D /\ Notify(Merged(dirty', D))

Outdated(D) ==
    /\ drawn' = drawn \ D /\ shown' = shown \ D
    /\ snapshot' = IF snapshot = None THEN None ELSE snapshot \ D

\* Code of the application runs: between frames, in layout, and in paint.
UserCode == At("idle") \/ At("prepare") \/ (At("paint") /\ frame.left # {})

\* A component changes what it paints, with or without effects from now on.
Change(r) ==
    /\ UserCode /\ Counted
    /\ effects' \in {effects, effects \cup {r}, effects \ {r}}
    /\ LET D == IF r \in effects \cup effects' THEN Fringe(r) ELSE {r} IN Damage(D) /\ Outdated(D)
    /\ UNCHANGED <<layout_dirty, transition, overlays, scene, frame, later, missed, faults>>

\* A component asks for layout, or an overlay is shown or closed.
Restructure ==
    /\ UserCode /\ Counted
    /\ layout_dirty' = TRUE /\ overlays' \in BOOLEAN
    /\ Damage(Regions) /\ Outdated(Regions)
    /\ UNCHANGED <<transition, effects, scene, frame, later, missed, faults>>

\* An operation of the tree that calls components: frames are refused meanwhile.
TransitionBegins ==
    /\ At("idle") /\ ~transition /\ Counted /\ transition' = TRUE
    /\ UNCHANGED <<dirty, layout_dirty, overlays, effects, scene, pending, redraw, present, frame,
                   later, exposed, drawn, snapshot, shown, missed, faults>>

TransitionEnds ==
    /\ transition /\ transition' = FALSE
    /\ UNCHANGED <<dirty, layout_dirty, overlays, effects, scene, pending, redraw, present, frame,
                   later, exposed, drawn, snapshot, shown, missed, changes, faults>>

\* PUGL_CONFIGURE: the view has another size or scale.  It is laid out at once;
\* in the midst of something, the size is kept for the next frame.
Configure ==
    /\ UserCode /\ Counted
    /\ scene' = [scene EXCEPT !.sized = FALSE]
    /\ Outdated(Regions)
    /\ IF At("idle") /\ ~transition
       THEN layout_dirty' = FALSE /\ dirty' = Regions /\ Notify(Regions)
       ELSE layout_dirty' = TRUE /\ Damage(Regions)
    /\ UNCHANGED <<transition, overlays, effects, frame, later, missed, faults>>

\* The window system has lost the pixels of the view.
Uncovered ==
    /\ Counted /\ exposed' = TRUE /\ shown' = {}
    /\ UNCHANGED <<dirty, UIVars, scene, pending, redraw, present, frame, later, drawn, snapshot,
                   missed, faults>>

\* ViewCore::show of a view that was hidden.
Show ==
    /\ At("idle") /\ Counted
    /\ scene' = [scene EXCEPT !.full = TRUE] /\ present' = TRUE /\ exposed' = TRUE /\ shown' = {}
    /\ UNCHANGED <<dirty, UIVars, pending, redraw, frame, later, drawn, snapshot, missed, faults>>

\* PUGL_UPDATE: the redraw that was put off is asked for.
Update ==
    /\ later /\ UserCode
    /\ later' = FALSE /\ exposed' = TRUE
    /\ UNCHANGED <<dirty, UIVars, scene, pending, redraw, present, frame, drawn, snapshot, shown,
                   missed, changes, faults>>
-----------------------------------------------------------------------------
(* PUGL_EXPOSE: render, and what the view does with its result.              *)

Invalidated(s) == [s EXCEPT !.full = TRUE]

\* render returns false, or the exception leaves it.
Failed    == /\ frame' = NoFrame /\ present' = TRUE /\ missed' = TRUE
             /\ later' = (later \/ redraw) /\ redraw' = FALSE
Thrown    == frame' = NoFrame /\ present' = TRUE /\ missed' = TRUE /\ UNCHANGED <<later, redraw>>

\* An expose that arrives in the middle of a frame or of an operation of the tree.
Refused ==
    /\ exposed /\ UserCode /\ (transition \/ ~At("idle"))
    /\ exposed' = FALSE
    /\ scene' = Invalidated(scene) /\ present' = TRUE
    /\ later' = (later \/ redraw) /\ redraw' = FALSE
    /\ missed' = (missed \/ At("idle"))
    /\ UNCHANGED <<dirty, UIVars, pending, frame, drawn, snapshot, shown, changes, faults>>

\* The context turns out to be lost: everything of it is dropped (clear_identity);
\* or the scene cannot be allocated at its new size.
CannotBegin ==
    /\ exposed /\ At("idle") /\ ~transition /\ Fault
    /\ exposed' = FALSE
    /\ \/ /\ scene' = [valid |-> FALSE, full |-> TRUE, sized |-> FALSE, effects |-> FALSE]
          /\ pending' = {} /\ drawn' = {} /\ snapshot' = None
          /\ frame' = NoFrame /\ present' = TRUE /\ missed' = TRUE /\ redraw' = FALSE /\ UNCHANGED later
       \/ /\ ~scene.sized
          /\ scene' = [scene EXCEPT !.valid = FALSE, !.full = TRUE] /\ Failed
          /\ UNCHANGED <<pending, drawn, snapshot>>
    /\ UNCHANGED <<dirty, UIVars, shown, changes>>

\* The start of render.  A scene of another size is replaced.  With overlays the
\* whole scene is repainted, and cleared first.
Begin ==
    /\ exposed /\ At("idle") /\ ~transition
    /\ exposed' = FALSE
    /\ LET valid == scene.valid /\ scene.sized
           full  == scene.full \/ ~scene.sized
           needs == ~valid \/ full \/ UIDirty
           clear == needs /\ overlays
       IN /\ frame' = [NoFrame EXCEPT !.pc = IF needs THEN "prepare" ELSE "present", !.legacy = clear]
          /\ scene' = [scene EXCEPT !.sized = TRUE, !.valid = valid /\ ~clear, !.full = full /\ ~clear]
          /\ pending' = IF needs THEN pending ELSE {}
          /\ drawn' = IF clear \/ ~scene.sized THEN {} ELSE drawn
          /\ snapshot' = IF clear \/ ~scene.sized THEN None ELSE snapshot
          /\ present' = (present \/ ~scene.sized)
    /\ UNCHANGED <<dirty, UIVars, redraw, later, shown, missed, changes, faults>>

\* Layout throws, on its own account or a component's.
PrepareThrows ==
    /\ At("prepare") /\ Fault
    /\ scene' = Invalidated(scene) /\ Thrown
    /\ UNCHANGED <<dirty, UIVars, pending, exposed, drawn, snapshot, shown, changes>>

\* Mutant: a scene with effects is repainted in part.
Whole_NoEffects(damaged, covered) ==
    ~scene.valid \/ scene.full \/ layout_dirty \/ frame.legacy
        \/ damaged = {} \/ ~(damaged \subseteq covered) \/ covered = Regions

\* Whether everything is repainted.
Whole(damaged, covered) ==
    ~scene.valid \/ scene.full \/ layout_dirty \/ frame.legacy \/ scene.effects
        \/ damaged = {} \/ ~(damaged \subseteq covered) \/ covered = Regions

\* Layout is done, and damages everything; the damage is taken for this frame,
\* and what is to be repainted is cleared.  A component may have asked for another
\* layout meanwhile.
Prepared ==
    /\ At("prepare")
    /\ \/ layout_dirty' = FALSE /\ UNCHANGED <<shown, changes>>
       \/ layout_dirty' = TRUE /\ layout_dirty /\ shown' = {} /\ Counted
    /\ IF layout_dirty
       THEN Notify(Regions)
       ELSE Unnoticed
    /\ LET damaged == IF layout_dirty THEN Regions ELSE dirty
           all     == Whole(damaged, pending')
           clip    == IF all THEN Regions ELSE pending'
       IN /\ dirty' = {}
          /\ frame' = [frame EXCEPT !.pc = "paint", !.all = all, !.clip = clip, !.left = clip,
                                    !.captured = damaged]
          /\ drawn' = drawn \ clip
    /\ snapshot' = None
    /\ scene' = [scene EXCEPT !.valid = FALSE, !.full = ~frame.legacy]
    /\ UNCHANGED <<transition, overlays, effects, later, missed, faults>>

\* The components of a region paint.  In a part of the scene, effects lack what
\* lies outside of it.
Paint(r) ==
    /\ At("paint") /\ frame.left # {} /\ r = Min(frame.left)
    /\ frame' = [frame EXCEPT !.left = @ \ {r}, !.used = @ \/ \E e \in effects : r \in Fringe(e)]
    /\ drawn' = IF (frame.all \/ effects = {}) /\ ~layout_dirty THEN drawn \cup {r} ELSE drawn
    /\ UNCHANGED <<dirty, UIVars, scene, pending, redraw, present, later, exposed, snapshot, shown,
                   missed, changes, faults>>

\* The transaction is rolled back, as what was painted with the damage is.
RolledBack == dirty' = dirty \cup frame.captured

PaintThrows ==
    /\ At("paint") /\ frame.left # {} /\ Fault
    /\ RolledBack /\ scene' = Invalidated(scene) /\ Thrown
    /\ UNCHANGED <<UIVars, pending, exposed, drawn, snapshot, shown, changes>>

Painted == At("paint") /\ frame.left = {}

\* The damage of a frame that painted with overlays has been consumed.
SubmissionFails ==
    /\ Painted /\ Fault
    /\ IF frame.legacy THEN UNCHANGED dirty ELSE RolledBack
    /\ scene' = Invalidated(scene) /\ Failed
    /\ UNCHANGED <<UIVars, pending, exposed, drawn, snapshot, shown, changes>>

\* A part turned out to be painted with effects: a full frame follows.
PartUsedEffects ==
    /\ Painted /\ ~frame.all /\ frame.used
    /\ RolledBack
    /\ scene' = Invalidated(scene) /\ frame' = NoFrame /\ present' = TRUE
    /\ later' = TRUE /\ redraw' = FALSE
    /\ UNCHANGED <<UIVars, pending, exposed, drawn, snapshot, shown, missed, changes, faults>>

\* Mutant: what was invalidated during the frame is taken for painted.
Commit_Clean ==
    /\ Painted /\ (frame.all \/ ~frame.used)
    /\ scene' = [scene EXCEPT !.valid = TRUE, !.full = FALSE,
                              !.effects = IF frame.legacy THEN TRUE
                                          ELSE IF frame.all THEN frame.used ELSE @ \/ frame.used]
    /\ redraw' = redraw /\ pending' = {} /\ dirty' = {}
    /\ frame' = [frame EXCEPT !.pc = "present"]
    /\ UNCHANGED <<UIVars, present, later, exposed, drawn, snapshot, shown, missed, changes, faults>>

\* Mutant: another frame is left to the next invalidation.
Commit_NoRedraw ==
    /\ Painted /\ (frame.all \/ ~frame.used)
    /\ scene' = [scene EXCEPT !.valid = TRUE, !.full = UIDirty,
                              !.effects = IF frame.legacy THEN TRUE
                                          ELSE IF frame.all THEN frame.used ELSE @ \/ frame.used]
    /\ redraw' = redraw /\ pending' = IF UIDirty THEN pending ELSE {}
    /\ frame' = [frame EXCEPT !.pc = "present"]
    /\ UNCHANGED <<dirty, UIVars, present, later, exposed, drawn, snapshot, shown, missed, changes, faults>>

\* The scene is submitted: the transaction commits.
Commit ==
    /\ Painted /\ (frame.all \/ ~frame.used)
    /\ scene' = [scene EXCEPT !.valid = TRUE, !.full = UIDirty,
                              !.effects = IF frame.legacy THEN TRUE
                                          ELSE IF frame.all THEN frame.used ELSE @ \/ frame.used]
    /\ redraw' = (redraw \/ UIDirty) /\ pending' = IF UIDirty THEN pending ELSE {}
    /\ frame' = [frame EXCEPT !.pc = "present"]
    /\ UNCHANGED <<dirty, UIVars, present, later, exposed, drawn, snapshot, shown, missed, changes, faults>>

Snapshot == IF snapshot = None THEN drawn ELSE snapshot

PresentFails ==
    /\ At("present") /\ Fault /\ Failed
    /\ snapshot' \in {snapshot, Snapshot}
    /\ UNCHANGED <<dirty, UIVars, scene, pending, exposed, drawn, shown, changes>>

Present ==
    /\ At("present")
    /\ snapshot' = Snapshot /\ shown' = Snapshot
    /\ present' = UIDirty /\ missed' = FALSE /\ frame' = NoFrame
    /\ later' = (later \/ redraw) /\ redraw' = FALSE
    /\ UNCHANGED <<dirty, UIVars, scene, pending, exposed, drawn, changes, faults>>
-----------------------------------------------------------------------------
Frame == \/ Prepared \/ Commit \/ PartUsedEffects \/ Present
         \/ \E r \in Regions : Paint(r)

Next ==
    \/ \E r \in Regions : Change(r)
    \/ Restructure \/ TransitionBegins \/ TransitionEnds \/ Configure \/ Uncovered \/ Show
    \/ Update \/ Refused \/ CannotBegin \/ Begin \/ PrepareThrows \/ PaintThrows
    \/ SubmissionFails \/ PresentFails \/ Frame

\* The event loop goes on, and what it calls returns.
GoesOn == Update \/ Begin \/ Frame \/ TransitionEnds

Fairness == WF_vars(GoesOn)

Spec == Init /\ [][Next]_vars /\ Fairness
-----------------------------------------------------------------------------
\* Between frames, whatever the scene or the screen does not show as it should be
\* is known to be missing: the scene is to be repainted, or the region is; the
\* scene is to be presented, or an expose is on its way.
NothingIsForgotten ==
    At("idle") =>
        /\ \A r \in Regions \ drawn : ~scene.valid \/ scene.full \/ r \in dirty \/ layout_dirty
        /\ shown # Regions => present \/ exposed

\* Between frames, damage has a redraw that is on its way, or is asked for at the
\* next update; unless an expose failed, which waits for the window system's next.
DamageIsScheduled == At("idle") /\ UIDirty => exposed \/ later \/ missed

\* When the view changes no more (MaxChanges), all of it is shown as it should be,
\* or an expose has failed.
ChangesAreShown == shown # Regions ~> (shown = Regions \/ missed)
=============================================================================
