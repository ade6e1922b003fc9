---------------------------- MODULE MCApplication ----------------------------
(***************************************************************************)
(* TLC instances of Application with two windows.                           *)
(*                                                                          *)
(* A behaviour is one of a single application, the subject: one in which     *)
(* every task and close is served in the end, one whose callbacks throw and  *)
(* whose windows use their dispatchers before the wake view exists, and,     *)
(* under ThrowSpec, one whose callbacks throw after that.                    *)
(***************************************************************************)
EXTENDS Naturals

VARIABLES
    subject,
    record, open_window_count, quit_policy, quit_requested, terminal_error, d, close_due,
    wake_view, native_wake, now, pump

applicationVars == <<record, open_window_count, quit_policy, quit_requested, terminal_error, d,
                     close_due, wake_view, native_wake, now, pump>>

vars == <<subject, applicationVars>>

TwoWindows == {"a", "b"}

Steady == INSTANCE Application WITH
    Windows <- TwoWindows, UserThrows <- FALSE, EarlyCalls <- FALSE,
    MaxPendingTasks <- 1, MaxActiveTimers <- 1, MaxTasksPerCheckpoint <- 1,
    IdModulus <- 2, TimeMax <- 1

Faulty == INSTANCE Application WITH
    Windows <- TwoWindows, UserThrows <- TRUE, EarlyCalls <- TRUE,
    MaxPendingTasks <- 2, MaxActiveTimers <- 1, MaxTasksPerCheckpoint <- 2,
    IdModulus <- 3, TimeMax <- 0

Throwing == INSTANCE Application WITH
    Windows <- TwoWindows, UserThrows <- TRUE, EarlyCalls <- FALSE,
    MaxPendingTasks <- 2, MaxActiveTimers <- 1, MaxTasksPerCheckpoint <- 2,
    IdModulus <- 4, TimeMax <- 2

ASSUME ConstantsAsAssumed ==
    /\ Steady!ApplicationAssumption /\ Faulty!ApplicationAssumption
    /\ Throwing!ApplicationAssumption
-----------------------------------------------------------------------------
Init == \/ subject = "steady" /\ Steady!Init
        \/ subject = "faulty" /\ Faulty!Init

Next == /\ UNCHANGED subject
        /\ \/ subject = "steady" /\ Steady!Next
           \/ subject = "faulty" /\ Faulty!Next

\* The fairness of module Application.
OfSteady == subject = "steady" /\ UNCHANGED subject

Fairness ==
    /\ WF_vars(OfSteady /\ Steady!GoesOn)
    /\ SF_vars(OfSteady /\ Steady!Continues)
    /\ WF_vars(OfSteady /\ Steady!Tick)

Spec == Init /\ [][Next]_vars /\ Fairness

ThrowSpec == subject = "throwing" /\ Throwing!Init
             /\ [][UNCHANGED subject /\ Throwing!Next]_vars
-----------------------------------------------------------------------------
\* The loop sleeps past the work and the close of no window of a steady
\* application, and past the work of none where callbacks throw.
NoOversleep ==
    /\ subject = "steady" => Steady!NoOversleep /\ Steady!NoSleepOnClose
    /\ subject = "throwing" => Throwing!NoOversleep

\* The registry has exactly the windows that are not closed, run ends for the
\* policy's reasons only, and the pump runs tasks of open windows only.
ApplicationFollowsPolicy ==
    /\ [](subject = "faulty" => Faulty!RegistryAgrees)
    /\ Faulty!QuitsByPolicy
    /\ Faulty!ServesOpenWindows

\* Neither the tasks nor the close of any window are left behind for ever,
\* whatever the other window does.  The windows are interchangeable: one stands
\* for both.
NoWindowLeftBehind ==
    LET w == "a" IN
    /\ subject = "steady" /\ d[w].tasks # <<>> ~> d[w].tasks = <<>> \/ quit_requested
    /\ subject = "steady" /\ close_due[w] # Steady!NotDue
           ~> close_due[w] = Steady!NotDue \/ quit_requested
=============================================================================
