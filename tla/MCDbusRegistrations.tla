------------------------- MODULE MCDbusRegistrations -------------------------
(***************************************************************************)
(* TLC instance of DbusRegistrations: one client owns everything.           *)
(***************************************************************************)
EXTENDS DbusRegistrations

CONSTANTS c1, t1

OneOwner == [x \in Subs \cup Paths |-> c1]

\* The client's dispatcher runs on one of the threads.
OneDispatcher == [x \in Subs |-> t1]
=============================================================================
