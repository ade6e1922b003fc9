---------------------------- MODULE MCRasterCache ----------------------------
(***************************************************************************)
(* TLC instance of RasterCache: a panel with a knob in it, which paints     *)
(* itself differently with the focus and does not invalidate itself when    *)
(* the focus comes and goes, as KnobComponent does.                         *)
(***************************************************************************)
EXTENDS RasterCache

InPanel  == [n \in Nodes |-> IF n = "knob" THEN "panel" ELSE None]
OnePlace == {[x |-> 0, w |-> 1]}
=============================================================================
