------------------------------ MODULE MCDeferred ------------------------------
(***************************************************************************)
(* One TLC run for the components that answer later than they are asked:    *)
(* calls over D-Bus, choosers and URLs over the desktop portal, animations, *)
(* and frames that are drawn when the window system gets to it.  What is    *)
(* asked for may be outdated by the time it is there.                       *)
(*                                                                          *)
(* A behaviour is one of a single component, the subject; the others stay   *)
(* in their initial states, in which their properties hold and go on        *)
(* holding.                                                                 *)
(***************************************************************************)
EXTENDS Naturals, Sequences

CONSTANTS
    Clients, Requests, MaxPending,                              \* of DbusCalls
    Animations, MotionKind, Duration, MaxNested, MaxThrown,     \* of Animation
    Regions, MaxChanges, MaxFailures,                           \* of SceneRenderer
    MaxUnrest    \* bound: changes of the view and failures of its renderer together

VARIABLES
    subject,
    \* DbusCalls
    surfaceClosing, members, gone, leaving, loop, stopReq, owner, entry, slots, native, wire,
    notify, gate, call, hand, posted, admitted, heard,
    \* DesktopRequests
    active, closing, entries, op, subs, calling, connected, portal, tasks, begun, accepted,
    outcome, told, confirmed, faults,
    \* Animation
    running, wake, timers, reduced_motion, destroyed, stack, started, age, ended, completions,
    thrown,
    \* SceneRenderer
    dirty, layout_dirty, transition, overlays, effects, scene, pending, redraw, present, frame,
    later, exposed, drawn, snapshot, shown, missed, changes, failures

dbusVars    == <<surfaceClosing, members, gone, leaving, loop, stopReq, owner, entry, slots,
                 native, wire, notify, gate, call, hand, posted, admitted, heard>>
desktopVars == <<active, closing, entries, op, subs, calling, connected, portal, tasks, begun,
                 accepted, outcome, told, confirmed, faults>>
motionVars  == <<running, wake, timers, reduced_motion, destroyed, stack, started, age, ended,
                 completions, thrown>>
sceneVars   == <<dirty, layout_dirty, transition, overlays, effects, scene, pending, redraw,
                 present, frame, later, exposed, drawn, snapshot, shown, missed, changes, failures>>

vars == <<subject, dbusVars, desktopVars, motionVars, sceneVars>>
-----------------------------------------------------------------------------
Dbus == INSTANCE DbusCalls WITH closing <- surfaceClosing, tasks <- posted, told <- heard

\* Two choosers, started and cancelled by two threads; and a chooser and a
\* URL, by the UI thread, against a fault.
Choosers == INSTANCE DesktopRequestsProofs WITH
    Calls <- {1, 2}, Kind <- <<"chooser", "chooser">>, MaxUrls <- 1,
    Threads <- {"ui", "w"}, UI <- "ui", MaxFaults <- 0

Opened == INSTANCE DesktopRequestsProofs WITH
    Calls <- {1, 2}, Kind <- <<"chooser", "url">>, MaxUrls <- 1,
    Threads <- {"ui"}, UI <- "ui", MaxFaults <- 1

Motion == INSTANCE Animation WITH
    Kind <- MotionKind, MaxStack <- MaxNested, MaxFaults <- MaxThrown,
    entries <- running, closing <- destroyed, begun <- started, told <- completions,
    faults <- thrown

Scene == INSTANCE SceneRenderer WITH MaxFaults <- MaxFailures, faults <- failures

\* The values of the constants in the run: a tween and a spring.
TweenAndSpring == <<"tween", "spring">>

ASSUME ConstantsAsAssumed ==
    /\ Dbus!CallsAssumption
    /\ Choosers!RequestsAssumption /\ Opened!RequestsAssumption
    /\ Motion!AnimationAssumption
    /\ Scene!SceneAssumption
    /\ MaxUnrest \in Nat
-----------------------------------------------------------------------------
Init ==
    /\ subject \in {"dbus", "choosers", "opened", "motion", "scene"}
    /\ Dbus!Init /\ Motion!Init /\ Scene!Init
    /\ IF subject = "opened" THEN Opened!Init ELSE Choosers!Init

OfDbus    == /\ subject = "dbus"
             /\ UNCHANGED <<subject, desktopVars, motionVars, sceneVars>>
OfDesktop == /\ subject \in {"choosers", "opened"}
             /\ UNCHANGED <<subject, dbusVars, motionVars, sceneVars>>
OfMotion  == /\ subject = "motion"
             /\ UNCHANGED <<subject, dbusVars, desktopVars, sceneVars>>
OfScene   == /\ subject = "scene"
             /\ UNCHANGED <<subject, dbusVars, desktopVars, motionVars>>

\* A view that changes often, or one that changes less and fails.
Bounded == changes' + failures' <= MaxUnrest

Next ==
    \/ OfDbus /\ Dbus!Next
    \/ subject = "choosers" /\ OfDesktop /\ Choosers!Next
    \/ subject = "opened" /\ OfDesktop /\ Opened!Next
    \/ OfMotion /\ Motion!Next
    \/ OfScene /\ Scene!Next /\ Bounded

\* The fairness of each component.  One subject runs, so that fairness of the
\* disjunction is fairness of the subject's disjunct.
Fairness ==
    /\ WF_vars(\/ OfDbus /\ Dbus!Goes
               \/ OfDesktop /\ (Opened!Goes("ui") \/ Opened!Replaces)
               \/ OfMotion /\ Motion!Goes
               \/ OfScene /\ Scene!GoesOn)
    /\ WF_vars(subject = "choosers" /\ OfDesktop /\ Choosers!Goes("w"))
    /\ SF_vars(\/ OfDbus /\ Dbus!Expire(1)
               \/ OfDesktop /\ Opened!RunsTask
               \/ OfMotion /\ stack = <<>> /\ Motion!WakeFires)
    /\ SF_vars(\/ OfDbus /\ Dbus!Expire(2)
               \/ OfMotion /\ Len(stack) = 1 /\ Motion!Returns)
    /\ SF_vars(\/ OfDbus /\ loop = "done" /\ Dbus!Stop
               \/ OfMotion /\ Len(stack) = 2 /\ Motion!Returns)

Spec == Init /\ [][Next]_vars /\ Fairness
-----------------------------------------------------------------------------
TypeOK ==
    CASE subject = "dbus"     -> Dbus!TypeOK
      [] subject = "choosers" -> Choosers!TypeOK
      [] subject = "opened"   -> Opened!TypeOK
      [] subject = "motion"   -> Motion!TypeOK
      [] subject = "scene"    -> Scene!TypeOK

\* None is left in the pending set with nobody to complete it, capacity neither
\* leaks nor comes back early, and a released client has nothing left.
CallsAreSound == Dbus!NothingStranded /\ Dbus!LedgerAgrees

\* Choosers and URLs: nothing of a request that ended stays on the bus, services
\* and backend agree on what is active, cancel returns true to the one that
\* cancelled, and no callback is called twice.
ChoosersAreSound ==
    /\ subject = "choosers" => /\ Choosers!BusHoldsNothingElse /\ Choosers!BothHoldTheRequest
                               /\ Choosers!CancelTellsTheTruth
    /\ subject = "opened" => /\ Opened!BusHoldsNothingElse /\ Opened!BothHoldTheRequest
                             /\ Opened!CancelTellsTheTruth
    /\ Choosers!CalledOnce

\* Animations whose callbacks start, cancel and throw: each that runs has somebody
\* who comes back to it, and there is one timer at most, which dies with the
\* context.  What the scene or the screen do not show as it should be is known to
\* be missing, and a frame is asked for.
UnfinishedIsScheduled ==
    /\ subject = "motion" => Motion!NoneStranded /\ Motion!OneWake
    /\ subject = "scene" => Scene!NothingIsForgotten /\ Scene!DamageIsScheduled

\* What is over stays over: requests are settled once, and no answer sets out for
\* an owner that has gone, although one whose task had passed the gate of the D-Bus
\* client before still arrives; no value is written for an animation that has ended,
\* and a completion is called once, never for a cancelled animation.
WhatIsOverStaysOver ==
    /\ Dbus!ImplementsRequestContract
    /\ Choosers!ImplementsRequestContract
    /\ Motion!WritesTheLiving
    /\ Motion!CompletesOnce

\* Calls get their terminal result, a response of the portal ends its request,
\* tweens come to their end, and changes are shown unless an expose fails.
\*
\* These are EveryRequestSettles, ResponsesSettle, TweensEnd and ChangesAreShown.
\* What was settled is not asked for again, so that of several calls or responses
\* each is, if all of them are in the end.
Owed ==
    CASE subject = "dbus" -> entry # {}
      [] subject \in {"choosers", "opened"} -> Choosers!Answered(1) \/ Choosers!Answered(2)
      [] subject = "motion" -> \E i \in running : MotionKind[i] = "tween"
      [] subject = "scene" -> shown # Regions /\ ~missed

EverythingIsAnswered == Owed ~> ~Owed
=============================================================================
