---------------------------- MODULE MCWindowClose ----------------------------
(***************************************************************************)
(* TLC instances of WindowClose: which user code pumps again.               *)
(***************************************************************************)
EXTENDS WindowClose

FromDialogs == {"veto", "task"}
=============================================================================
