------------------------------ MODULE MCReentry ------------------------------
(***************************************************************************)
(* One TLC run for the components whose difficulty is user code that calls  *)
(* them again, and throws, while they are in the middle of something: a     *)
(* dispatcher and a window whose callbacks pump, a State whose observers     *)
(* write it, a tree whose components dispatch and capture pointers, or change *)
(* what is being painted into a cached picture.                              *)
(*                                                                          *)
(* A behaviour is one of a single component, the subject; the others stay   *)
(* in their initial states, in which their properties hold and go on        *)
(* holding.                                                                 *)
(***************************************************************************)
EXTENDS Naturals

VARIABLES
    subject,
    \* Dispatcher
    d, now, native_wake, call, frames, started, faults,
    \* WindowClose
    phase, request_posted, completion_posted, window_alive, tasks, wake, pumps, asked, notices,
    \* ObservableState
    value, revision, listeners, next_listener_id, cleanup_needed, owner_alive, pending, copied,
    dispatch, reads, owed, latest, writes,
    \* Pointers
    contact, capture, granted, nodes, active, issued, stack, throwing, kept, over,
    \* Toasts
    toast, view, publishing, refused, flips, actionsStarted, expired, lived,
    \* Dialogs
    ctl, slot, nextGeneration, waiting, entries, mounted, dirty, ended, closing, thrown, first, calls,
    \* RasterCache
    content, behind, place, focus, layout_dirty, life, epochs, images, paint

dispatcherVars == <<d, now, native_wake, call, frames, started, faults>>
windowVars  == <<phase, request_posted, completion_posted, window_alive, tasks, wake, pumps,
                 asked, notices>>
stateVars   == <<value, revision, listeners, next_listener_id, cleanup_needed, owner_alive,
                 pending, copied, dispatch, reads, owed, latest, writes>>
pointerVars == <<contact, capture, granted, nodes, active, issued, stack, throwing, kept, over>>

toastVars   == <<toast, view, publishing, refused, flips, actionsStarted, expired, lived>>
dialogVars  == <<ctl, slot, nextGeneration, waiting, entries, mounted, dirty, ended, closing,
                 thrown, first, calls>>
rasterVars  == <<content, behind, place, focus, layout_dirty, life, epochs, images, paint>>

vars == <<subject, dispatcherVars, windowVars, stateVars, pointerVars, toastVars, dialogVars,
          rasterVars>>
-----------------------------------------------------------------------------
\* Partial transfers, the queue and the counters at their limits, and tasks that
\* pump; batches of due timers.  All calls are made by the UI thread.
Pumped == INSTANCE DispatcherProofs WITH
    Workers <- {}, UI <- "ui", MaxDepth <- 2, NestedFrom <- {"run"}, MaxFaults <- 1,
    MaxPendingTasks <- 2, MaxActiveTimers <- 1, MaxTasksPerCheckpoint <- 2,
    IdModulus <- 3, TimeMax <- 1

Batched == INSTANCE DispatcherProofs WITH
    Workers <- {}, UI <- "ui", MaxDepth <- 2, NestedFrom <- {"run"}, MaxFaults <- 0,
    MaxPendingTasks <- 1, MaxActiveTimers <- 2, MaxTasksPerCheckpoint <- 2,
    IdModulus <- 3, TimeMax <- 1

\* A window that owns its loop, and pumps from the veto callback and from tasks.
Window == INSTANCE WindowCloseProofs WITH
    QueueMax <- 3, CheckpointMax <- 2, AppOwned <- FALSE, UserThrows <- TRUE,
    NestedFrom <- {"veto", "task"}, MaxPumps <- 3,
    alive <- window_alive, stack <- pumps

Observable == INSTANCE StateProofs WITH
    Values <- {0, 1}, InitialValue <- 0, RevisionMax <- 2, MaxListeners <- 3, MaxReads <- 1,
    MaxWrites <- 3, FallibleValue <- TRUE, ConditionsRestore <- FALSE

\* Two pointers, the platform's own mouse (0) among them, of which one is
\* tracked at a time; a touch that is put down three times; and the mouse over a
\* component that a change removes.
TwoPointers == INSTANCE Pointers WITH
    Nodes <- {"root"}, Root <- "root", Pointers <- {0, 1}, MaxTracked <- 1,
    MaxTokens <- 2, MaxStack <- 3

OneTouch == INSTANCE Pointers WITH
    Nodes <- {"root"}, Root <- "root", Pointers <- {1}, MaxTracked <- 1,
    MaxTokens <- 3, MaxStack <- 3

OverLeaf == INSTANCE Pointers WITH
    Nodes <- {"root", "leaf"}, Root <- "root", Pointers <- {0}, MaxTracked <- 1,
    MaxTokens <- 2, MaxStack <- 3

\* Two messages, and one over which the pointer goes back and forth.
TwoToasts == INSTANCE Toasts WITH
    Ids <- {1, 2}, Capacity <- 2, Duration <- 1, MaxStack <- 2, MaxFaults <- 0, MaxFlips <- 0,
    s <- toast, ui <- view, stack <- publishing, faults <- refused, started <- actionsStarted

OneToast == INSTANCE Toasts WITH
    Ids <- {1}, Capacity <- 2, Duration <- 1, MaxStack <- 2, MaxFaults <- 1, MaxFlips <- 1,
    s <- toast, ui <- view, stack <- publishing, faults <- refused, started <- actionsStarted

\* Two controllers that show two dialogs; and the same, called from everywhere.
TwoDialogs == INSTANCE Dialogs WITH
    Dialogs <- {"a", "b"}, MaxGen <- 2, MaxStack <- 2, MaxFaults <- 1, Reentrant <- FALSE,
    next <- nextGeneration, pending <- waiting, stack <- closing, faults <- thrown

Reentered == INSTANCE Dialogs WITH
    Dialogs <- {"a", "b"}, MaxGen <- 2, MaxStack <- 2, MaxFaults <- 0, Reentrant <- TRUE,
    next <- nextGeneration, pending <- waiting, stack <- closing, faults <- thrown

\* A knob within a panel.  The panel is cached while the knob moves and has the
\* focus, and over a second mount; either may be cached; the knob has effects.
Panel == [n \in {"panel", "knob"} |-> IF n = "knob" THEN "panel" ELSE "none"]
There == [x |-> 0, w |-> 1]
Aside == [x |-> 1, w |-> 1]
Wide  == [x |-> 0, w |-> 2]

Moved == INSTANCE RasterCache WITH
    Nodes <- DOMAIN Panel, Parent <- Panel, None <- "none", Boundaries <- {"panel"},
    Places <- {There, Aside}, ShowsFocus <- {"knob"}, TellsFocus <- {"knob"}, HasEffects <- {},
    MaxGeneration <- 2, MaxLives <- 1, MaxImages <- 1

Remounted == INSTANCE RasterCache WITH
    Nodes <- DOMAIN Panel, Parent <- Panel, None <- "none", Boundaries <- {"panel"},
    Places <- {There}, ShowsFocus <- {"knob"}, TellsFocus <- {"knob"}, HasEffects <- {},
    MaxGeneration <- 2, MaxLives <- 2, MaxImages <- 1

Either == INSTANCE RasterCache WITH
    Nodes <- DOMAIN Panel, Parent <- Panel, None <- "none", Boundaries <- {"panel", "knob"},
    Places <- {There}, ShowsFocus <- {}, TellsFocus <- {}, HasEffects <- {},
    MaxGeneration <- 2, MaxLives <- 1, MaxImages <- 1

Effects == INSTANCE RasterCache WITH
    Nodes <- DOMAIN Panel, Parent <- Panel, None <- "none", Boundaries <- {"panel", "knob"},
    Places <- {There, Wide}, ShowsFocus <- {}, TellsFocus <- {}, HasEffects <- {"knob"},
    MaxGeneration <- 2, MaxLives <- 1, MaxImages <- 1

ASSUME ConstantsAsAssumed ==
    /\ Window!CloseAssumption /\ Observable!StateAssumption
    /\ TwoToasts!ToastAssumption /\ OneToast!ToastAssumption
    /\ TwoDialogs!DialogAssumption /\ Reentered!DialogAssumption
    /\ TwoPointers!PointersAssumption /\ OneTouch!PointersAssumption /\ OverLeaf!PointersAssumption
    /\ Moved!RasterAssumption /\ Remounted!RasterAssumption
    /\ Either!RasterAssumption /\ Effects!RasterAssumption
-----------------------------------------------------------------------------
Init ==
    /\ subject \in {"dispatcher", "timers", "window", "state", "two pointers", "one touch",
                    "over leaf", "two toasts", "one toast", "dialogs", "dialogs reentered",
                    "moved", "remounted", "either", "effects"}
    /\ Pumped!Init /\ Window!Init /\ Observable!Init /\ TwoDialogs!Init /\ Moved!Init
    /\ IF subject = "one toast" THEN OneToast!Init ELSE TwoToasts!Init
    /\ IF subject = "over leaf" THEN OverLeaf!Init ELSE TwoPointers!Init

OfDispatcher == UNCHANGED <<subject, windowVars, stateVars, pointerVars, toastVars, dialogVars,
                             rasterVars>>
OfWindow     == UNCHANGED <<subject, dispatcherVars, stateVars, pointerVars, toastVars,
                             dialogVars, rasterVars>>
OfState      == UNCHANGED <<subject, dispatcherVars, windowVars, pointerVars, toastVars,
                             dialogVars, rasterVars>>
OfPointer    == UNCHANGED <<subject, dispatcherVars, windowVars, stateVars, toastVars,
                             dialogVars, rasterVars>>
OfToast      == UNCHANGED <<subject, dispatcherVars, windowVars, stateVars, pointerVars,
                             dialogVars, rasterVars>>
OfDialog     == UNCHANGED <<subject, dispatcherVars, windowVars, stateVars, pointerVars,
                             toastVars, rasterVars>>
OfRaster     == UNCHANGED <<subject, dispatcherVars, windowVars, stateVars, pointerVars,
                             toastVars, dialogVars>>

Next ==
    \/ subject = "dispatcher" /\ OfDispatcher /\ Pumped!Next
    \/ subject = "timers" /\ OfDispatcher /\ Batched!Next
    \/ subject = "window" /\ OfWindow /\ Window!Next
    \/ subject = "state" /\ OfState /\ Observable!Next
    \/ subject = "two pointers" /\ OfPointer /\ TwoPointers!Next
    \/ subject = "one touch" /\ OfPointer /\ OneTouch!Next
    \/ subject = "over leaf" /\ OfPointer /\ OverLeaf!Next
    \/ subject = "two toasts" /\ OfToast /\ TwoToasts!Next
    \/ subject = "one toast" /\ OfToast /\ OneToast!Next
    \/ subject = "dialogs" /\ OfDialog /\ TwoDialogs!Next
    \/ subject = "dialogs reentered" /\ OfDialog /\ Reentered!Next
    \/ subject = "moved" /\ OfRaster /\ Moved!Next
    \/ subject = "remounted" /\ OfRaster /\ Remounted!Next
    \/ subject = "either" /\ OfRaster /\ Either!Next
    \/ subject = "effects" /\ OfRaster /\ Effects!Next

Spec == Init /\ [][Next]_vars
-----------------------------------------------------------------------------
\* The dispatcher's type is TypeCorrect of DispatcherProofs.
TypeOK ==
    CASE subject \in {"dispatcher", "timers"} -> TRUE
      [] subject = "window"       -> Window!TypeOK
      [] subject = "state"        -> Observable!TypeOK
      [] subject = "two pointers" -> TwoPointers!TypeOK
      [] subject = "one touch"    -> OneTouch!TypeOK
      [] subject = "over leaf"    -> OverLeaf!TypeOK
      [] subject = "two toasts"   -> TwoToasts!TypeOK
      [] subject = "one toast"    -> OneToast!TypeOK
      [] subject \in {"dialogs", "dialogs reentered"} -> TwoDialogs!TypeOK
      [] subject = "moved"     -> Moved!TypeOK
      [] subject = "remounted" -> Remounted!TypeOK
      [] subject = "either"    -> Either!TypeOK
      [] subject = "effects"   -> Effects!TypeOK

\* A dispatcher whose tasks pump: the wake protocol is kept, the loop does not
\* sleep past accepted work, tasks start in their order; a timer's last firing is
\* not replayed, and the limits hold on top of posted tasks.  A window whose
\* callbacks pump: a posted close step has its task in the Dispatcher, and the
\* loop does not wait for events while a close is undecided.
NestedPumpsAreSafe ==
    /\ subject = "dispatcher" => /\ Pumped!WakeInv /\ Pumped!NoOversleep
                                 /\ Pumped!QueueIsUnstartedSuffix
                                 /\ Pumped!FinalFiringIsFinal /\ Pumped!LimitsHold
    /\ subject = "timers" => /\ Batched!WakeInv /\ Batched!NoOversleep
                             /\ Batched!FinalFiringIsFinal /\ Batched!LimitsHold
    /\ subject = "window" => Window!PostedMeansQueued /\ Window!NoSleepOnDurableClose

\* A State whose observers write it: at rest the value is the one written last
\* and nothing else is left over, a pass stays within the listeners it was made
\* for, and none of those that are due is passed over.
StateIsSound ==
    subject = "state" =>
        /\ Observable!LatestWriteWins
        /\ Observable!PassInBounds
        /\ Observable!RestsClean
        /\ Observable!NobodyLeftOut

\* The dispatcher is the bounded FIFO executor of TaskQueue; listeners hear what
\* ObserverContract says, and a value does not change under those who borrow it.
ImplementsContracts ==
    /\ Pumped!ImplementsTaskQueue
    /\ Observable!StableBorrow
    /\ Observable!ImplementsObserverContract

\* Pointers whose handlers dispatch and throw: captures belong to contacts in
\* progress, a contact that ended is not tracked again, no table of the tree
\* points at a destroyed node, and the platform's capture is held only for one of
\* the tree's.
PointersAreSound ==
    subject \in {"two pointers", "one touch", "over leaf"} =>
        /\ OverLeaf!CapturesFollowContacts
        /\ OverLeaf!EndedStaysEnded
        /\ OverLeaf!NothingDangles
        /\ OverLeaf!NoNativeCaptureLeaks

\* Messages: only one that is there has a timer of the Dispatcher, as long as
\* there is one its overlay is open, none leaves by time before its time, and no
\* operation that is over keeps the controller busy.  Dialogs: a completion is
\* called once with the result asked for first; while notifications and unmounted
\* components do not use dialogs, nothing that fails leaves the UI busy, a
\* controller with a dialog that is gone, or an overlay that is open for nobody.
PresentationsAreSound ==
    /\ subject \in {"two toasts", "one toast"} =>
           /\ OneToast!TimersHaveEntries
           /\ OneToast!EntriesAreShown
           /\ OneToast!ExpiresInTime
           /\ OneToast!RestsIdle
    /\ subject \in {"dialogs", "dialogs reentered"} => TwoDialogs!CompletesOnce
    /\ subject = "dialogs" =>
           /\ TwoDialogs!NobodyIsStuck
           /\ TwoDialogs!ControllersAgree
           /\ TwoDialogs!MountedIsOpen

\* A picture that would be reused is what the components would paint now.
PicturesAreCurrent ==
    /\ subject = "moved"     => Moved!ReusedIsCurrent
    /\ subject = "remounted" => Remounted!ReusedIsCurrent
    /\ subject = "either"    => Either!ReusedIsCurrent
    /\ subject = "effects"   => Effects!ReusedIsCurrent

\* What code of the application keeps and uses too late does no harm: the input
\* context of a contact that ended does nothing, the frame of an older contact
\* leaves a newer one of the same pointer alone, a drain cancels every contact,
\* whatever is thrown, and a picture that was revoked never becomes current again.
OutdatedIsInert ==
    /\ TwoPointers!StaleContextIsInert /\ OneTouch!StaleContextIsInert /\ OverLeaf!StaleContextIsInert
    /\ TwoPointers!NewerContactSurvives /\ OneTouch!NewerContactSurvives /\ OverLeaf!NewerContactSurvives
    /\ TwoPointers!DrainsEverything /\ OneTouch!DrainsEverything /\ OverLeaf!DrainsEverything
    /\ Moved!RevokedForGood /\ Remounted!RevokedForGood /\ Either!RevokedForGood
=============================================================================
