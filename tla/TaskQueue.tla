------------------------------ MODULE TaskQueue ------------------------------
(***************************************************************************)
(* What a Dispatcher promises its users, without threads, locks, wakes or   *)
(* checkpoints: a bounded queue of tasks, accepted in some order, each      *)
(* started at most once and in exactly that order, until the queue is       *)
(* closed; then nothing is accepted or started any more.                    *)
(***************************************************************************)
EXTENDS Integers

CONSTANTS
    Capacity,   \* how many tasks may wait
    LastNumber  \* how many tasks may ever be accepted

VARIABLES
    accepted,   \* how many tasks were accepted
    begun,      \* how many of them were started: always the first ones
    closed

queueVars == <<accepted, begun, closed>>

QueueInit == accepted = 0 /\ begun = 0 /\ closed = FALSE

\* One post, or the due timers of one checkpoint.
Accept ==
    /\ ~closed
    /\ \E n \in 1 .. Capacity :
        /\ accepted + n - begun <= Capacity
        /\ accepted + n <= LastNumber
        /\ accepted' = accepted + n
    /\ UNCHANGED <<begun, closed>>

StartNext ==
    /\ ~closed
    /\ begun < accepted
    /\ begun' = begun + 1
    /\ UNCHANGED <<accepted, closed>>

Close ==
    /\ closed' = TRUE
    /\ UNCHANGED <<accepted, begun>>

QueueNext == Accept \/ StartNext \/ Close

QueueSpec == QueueInit /\ [][QueueNext]_queueVars
=============================================================================
