------------------------------ MODULE RasterCache ------------------------------
(***************************************************************************)
(* Cached pictures of subtrees: RasterCacheEpoch, the records of the Tree    *)
(* (detail/tree_raster_cache_private.inc), the paint that consults them      *)
(* (skia_painter.cpp), the renderer's transaction                            *)
(* (detail/raster_cache_renderer.hpp) and its store of images.               *)
(*                                                                          *)
(* A boundary's epoch counts the changes of its subtree; an image is filed    *)
(* under the generation it was painted from, and under where it was painted.  *)
(* Painting calls the components, which may change anything in the subtree   *)
(* while it is being painted.                                                *)
(***************************************************************************)
EXTENDS Integers, SequencesExt, FiniteSets

CONSTANTS
    Nodes, Parent, None, \* the tree; Parent of the root is None
    Boundaries,      \* the nodes that may be registered
    Places,          \* [x, w]: what layout chooses from
    ShowsFocus,      \* nodes that paint themselves differently with the focus
    TellsFocus,      \* nodes whose focus_changed invalidates them
    HasEffects,      \* nodes that paint with effects, which depend on what is behind
    MaxGeneration,   \* the largest value of the generation counter
    MaxLives,        \* bound: mounts of a boundary
    MaxImages        \* the entries of the renderer's store

RasterAssumption ==
    /\ Parent \in [Nodes -> Nodes \cup {None}] /\ None \notin Nodes
    /\ Boundaries \cup ShowsFocus \cup TellsFocus \cup HasEffects \subseteq Nodes
    /\ {MaxGeneration, MaxLives, MaxImages} \subseteq Nat \ {0}

VARIABLES
    content,         \* what each component would paint
    behind,          \* what effects see
    place,           \* Node::bounds
    focus,           \* the focused node, or None
    layout_dirty,
    life,            \* mounts of the tree
    epochs,          \* raster_cache_epochs_
    images,          \* the renderer's retained images
    paint            \* the boundary that is being painted

vars == <<content, behind, place, focus, layout_dirty, life, epochs, images, paint>>

Ancestry[n \in Nodes] == {n} \cup IF Parent[n] = None THEN {} ELSE Ancestry[Parent[n]]
Subtree(b)  == {n \in Nodes : b \in Ancestry[n]}
Registered  == DOMAIN epochs
Unpainted   == [b |-> None, key |-> None, left |-> {}, picture |-> [n \in {} |-> 0], effects |-> FALSE]
NotPainting == paint.b = None

Fresh(l) == [life |-> l, generation |-> 1, stale |-> TRUE, captured |-> FALSE, exhausted |-> FALSE]

Init ==
    /\ content = [n \in Nodes |-> 0] /\ behind = 0
    /\ place \in [Nodes -> {CHOOSE p \in Places : TRUE}]
    /\ focus = None /\ layout_dirty = FALSE /\ life = 1
    /\ epochs = [b \in {} |-> 0] /\ images = {} /\ paint = Unpainted

TypeOK ==
    /\ content \in [Nodes -> {0, 1}] /\ behind \in {0, 1}
    /\ place \in [Nodes -> Places] /\ focus \in Nodes \cup {None}
    /\ layout_dirty \in BOOLEAN /\ life \in 1..MaxLives
    /\ Registered \subseteq Boundaries
    /\ \A b \in Registered :
          /\ epochs[b].generation \in 1..MaxGeneration /\ epochs[b].life \in 1..life
          /\ {epochs[b].stale, epochs[b].captured, epochs[b].exhausted} \subseteq BOOLEAN
    /\ Cardinality(images) <= MaxImages
    /\ paint.b \in Registered \cup {None} /\ paint.left \subseteq Nodes
-----------------------------------------------------------------------------
(* RasterCacheEpoch.                                                         *)

\* Mutant: the counter starts again.
Invalidated_Wraps(e) ==
    LET counts == ~e.stale \/ e.captured IN
    [e EXCEPT !.generation = IF counts THEN (@ % MaxGeneration) + 1 ELSE @,
              !.stale = TRUE, !.captured = FALSE]

\* invalidate: coalesced only as long as nobody has captured the generation.
Invalidated(e) ==
    LET counts == ~e.stale \/ e.captured IN
    IF e.exhausted THEN e
    ELSE [e EXCEPT !.generation = IF counts /\ @ < MaxGeneration THEN @ + 1 ELSE @,
                   !.exhausted = counts /\ e.generation = MaxGeneration,
                   !.stale = TRUE, !.captured = FALSE]

Token(e)      == [life |-> e.life, generation |-> e.generation]
Current(e, t) == ~e.exhausted /\ t = Token(e)
Reusable(e, t)    == ~e.stale /\ Current(e, t)
Committable(e, t) == e.captured /\ Current(e, t)

\* invalidate_raster_cache_ancestry of each of the nodes.
Revoke(ns) ==
    epochs' = [b \in Registered |-> IF \E n \in ns : b \in Ancestry[n]
                                    THEN Invalidated(epochs[b]) ELSE epochs[b]]
-----------------------------------------------------------------------------
(* The tree: what changes what is painted.                                   *)

\* register_raster_cache_boundary
Register(b) ==
    /\ b \in Boundaries \ Registered /\ NotPainting
    /\ epochs' = [a \in Registered \cup {b} |->
                    IF a = b THEN Fresh(life)
                    ELSE IF a \in Ancestry[b] THEN Invalidated(epochs[a]) ELSE epochs[a]]
    /\ UNCHANGED <<content, behind, place, focus, layout_dirty, life, images, paint>>

\* A component changes and invalidates itself: paint, layout, the theme, the
\* availability, the structure.  Also from a component that is being painted.
Change(n) ==
    /\ content' = [content EXCEPT ![n] = 1 - @]
    /\ Revoke({n})
    /\ layout_dirty' \in {layout_dirty, TRUE}
    /\ UNCHANGED <<behind, place, focus, life, images, paint>>

Dx(p, n)     == p[n].x - place[n].x
Moved(p, n)  == Dx(p, n) # IF Parent[n] = None THEN 0 ELSE Dx(p, Parent[n])
Sized(p, n)  == p[n].w # place[n].w

\* note_raster_cache_geometry of every node: a node that is moved within its
\* parent changes the picture of those that contain it.
Geometry(p) == Revoke({n \in Nodes : Sized(p, n)}
                      \cup {Parent[n] : n \in {m \in Nodes : Moved(p, m) /\ Parent[m] # None}})

\* Layout, which may fail and be rolled back: what it revoked stays revoked.
Layout ==
    /\ layout_dirty /\ NotPainting
    /\ \E p \in [Nodes -> Places] :
          /\ Geometry(p)
          /\ \/ place' = p /\ layout_dirty' = FALSE
             \/ UNCHANGED <<place, layout_dirty>>
    /\ UNCHANGED <<content, behind, focus, life, images, paint>>

\* A focus transition: the nodes' own callbacks may invalidate them; the Tree
\* itself publishes damage only (publish_focus_invalidation).
MoveFocus(n) ==
    /\ n # focus /\ NotPainting /\ focus' = n
    /\ Revoke({focus, n} \cap TellsFocus)
    /\ UNCHANGED <<content, behind, place, layout_dirty, life, images, paint>>

\* Mutant: the records survive the nodes they were made for.
Remount_KeepsIdentity ==
    /\ NotPainting /\ life < MaxLives /\ life' = life + 1
    /\ content' \in [Nodes -> {0, 1}] /\ layout_dirty' = TRUE
    /\ epochs' = [b \in Registered |-> Fresh(epochs[b].life)]
    /\ UNCHANGED <<behind, place, focus, images, paint>>

\* The tree is unmounted, changes unseen, and is mounted again with the same
\* node ids; records are retired with the nodes, and made anew.
Remount ==
    /\ NotPainting /\ life < MaxLives /\ life' = life + 1
    /\ content' \in [Nodes -> {0, 1}] /\ layout_dirty' = TRUE
    /\ epochs' = [b \in Registered |-> Fresh(life')]
    /\ UNCHANGED <<behind, place, focus, images, paint>>

BehindChanges ==
    /\ HasEffects # {} /\ behind' = 1 - behind
    /\ UNCHANGED <<content, place, focus, layout_dirty, life, epochs, images, paint>>
-----------------------------------------------------------------------------
(* The renderer.                                                             *)

Look(n, b) == [content |-> content[n], dx |-> place[n].x - place[b].x, w |-> place[n].w,
               focused |-> n = focus /\ n \in ShowsFocus,
               behind |-> IF n \in HasEffects THEN behind ELSE 0]
Picture(b) == [n \in Subtree(b) |-> Look(n, b)]

Key(b)     == [b |-> b, token |-> Token(epochs[b]), place |-> place[b]]
Nested(b)  == \E a \in Registered \ {b} : a \in Ancestry[b] \/ b \in Ancestry[a]
Found(k)   == \E i \in images : i.key = k

\* try_paint_raster_cache_boundary, up to the image that is found, or the
\* surface to paint on.  Otherwise the subtree is painted past the cache.
TryPaint(b) ==
    /\ b \in Registered /\ NotPainting /\ ~layout_dirty /\ ~Nested(b) /\ ~epochs[b].exhausted
    /\ epochs' = [epochs EXCEPT ![b].captured = TRUE]
    /\ IF Reusable(epochs[b], Token(epochs[b])) /\ Found(Key(b)) THEN UNCHANGED paint
       ELSE paint' = [Unpainted EXCEPT !.b = b, !.key = Key(b), !.left = Subtree(b)]
    /\ UNCHANGED <<content, behind, place, focus, layout_dirty, life, images>>

\* One component of the subtree paints itself, after its parent.
PaintNode(n) ==
    /\ n \in paint.left /\ (Ancestry[n] \ {n}) \cap paint.left = {}
    /\ paint' = [paint EXCEPT !.left = @ \ {n},
                              !.picture = [m \in DOMAIN @ \cup {n} |->
                                             IF m = n THEN Look(n, paint.b) ELSE @[m]],
                              !.effects = @ \/ n \in HasEffects]
    /\ UNCHANGED <<content, behind, place, focus, layout_dirty, life, epochs, images>>

Painted == ~NotPainting /\ paint.left = {}

\* Mutant: what was painted is published whatever changed meanwhile.
Publish_Unvalidated ==
    /\ Painted /\ paint' = Unpainted
    /\ LET b == paint.b IN
       IF paint.effects THEN UNCHANGED <<images, epochs>>
       ELSE /\ epochs' = [epochs EXCEPT ![b].stale = FALSE]
            /\ images' \in {images} \cup
                  {kept \cup {[key |-> [paint.key EXCEPT !.token = Token(epochs[b])], picture |-> paint.picture]} :
                      kept \in {s \in SUBSET images : Cardinality(s) < MaxImages}}
    /\ UNCHANGED <<content, behind, place, focus, layout_dirty, life>>

\* The snapshot is retained, if the store has room or can make some, and the
\* epoch committed; unless effects were used, or something changed meanwhile.
Publish ==
    /\ Painted /\ paint' = Unpainted
    /\ LET b == paint.b
           i == [key |-> paint.key, picture |-> paint.picture]
       IN IF paint.effects \/ layout_dirty \/ ~Committable(epochs[b], paint.key.token)
          THEN UNCHANGED <<images, epochs>>
          ELSE /\ epochs' = [epochs EXCEPT ![b].stale = FALSE]
               /\ IF Found(paint.key) THEN UNCHANGED images
                  ELSE images' \in {images} \cup {kept \cup {i} :
                           kept \in {s \in SUBSET images : Cardinality(s) < MaxImages}}
    /\ UNCHANGED <<content, behind, place, focus, layout_dirty, life>>

\* A component throws, or a surface, a snapshot or the retention fails.
PaintFails ==
    /\ ~NotPainting /\ paint' = Unpainted
    /\ UNCHANGED <<content, behind, place, focus, layout_dirty, life, epochs, images>>

\* The graphics context is lost, or released.
ContextLost ==
    /\ images # {} /\ images' = {}
    /\ UNCHANGED <<content, behind, place, focus, layout_dirty, life, epochs, paint>>
-----------------------------------------------------------------------------
Next ==
    \/ \E b \in Boundaries : Register(b) \/ TryPaint(b)
    \/ \E n \in Nodes : Change(n) \/ PaintNode(n)
    \/ \E n \in Nodes \cup {None} : MoveFocus(n)
    \/ Layout \/ Remount \/ BehindChanges \/ Publish \/ PaintFails \/ ContextLost

Spec == Init /\ [][Next]_vars
-----------------------------------------------------------------------------
\* An image that would be reused shows what the components would paint now:
\* whatever changed before, during or after its painting has revoked it.
ReusedIsCurrent ==
    \A b \in Registered :
       ~layout_dirty /\ Reusable(epochs[b], Token(epochs[b])) =>
           \A i \in images : i.key = Key(b) => i.picture = Picture(b)

\* An image that was revoked stays revoked: a token never becomes current again.
RevokedForGood ==
    [][\A b \in Registered \cap DOMAIN epochs' :
          \A i \in images : i.key.b = b /\ ~Current(epochs[b], i.key.token)
                               => ~Current(epochs'[b], i.key.token)]_vars
=============================================================================
