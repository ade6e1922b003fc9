----------------------------- MODULE Application -----------------------------
(***************************************************************************)
(* One Application (src/src/detail/platform/application.hpp): the windows   *)
(* it registered, the quit policy and the pump that serves the dispatchers  *)
(* and close controls of all its windows with one native wake.              *)
(*                                                                          *)
(* Every window has the dispatcher of module DispatcherState.  The races    *)
(* inside one dispatcher and the close protocol inside one window are the   *)
(* subject of modules Dispatcher and WindowClose: here a call and its wake  *)
(* are one step, and a close is due or not.  The registry is an             *)
(* unordered_map, so the order in which a pump serves windows is arbitrary. *)
(***************************************************************************)
EXTENDS DispatcherState

CONSTANTS
    Windows,     \* the windows the program may create
    UserThrows,  \* dispatcher tasks and on_closed may throw out of the pump
    EarlyCalls   \* a window under construction uses its dispatcher before
                 \* the application's wake view exists

ApplicationAssumption ==
    /\ IsFiniteSet(Windows)
    /\ UserThrows \in BOOLEAN
    /\ EarlyCalls \in BOOLEAN

VARIABLES
    record,       \* per window: its record in the registry, or its lack of one
    open_window_count,
    quit_policy,
    quit_requested,
    terminal_error,
    d,            \* per window: its DispatcherState
    close_due,    \* per window: the sequence of the task that completes an
                  \* accepted close, 0 without one, NotDue without a close
    wake_view,    \* the wake backend has realized its view
    native_wake,  \* a wake sits in the native event queue
    now,
    pump          \* the pump in progress

policy   == <<quit_policy, quit_requested, terminal_error>>
registry == <<record, open_window_count>>
loop     == <<wake_view, native_wake, now>>
vars     == <<registry, policy, d, close_due, loop, pump>>

NotDue == IdModulus

Records == {"none", "constructing", "open", "closed", "destroyed"}

\* idle: outside the pump; dispatch: native handlers run; serve: between two
\* checkpoints; pop, run: inside one; controls, notify: closing windows.
Pump ==
    [pc : {"idle", "wait", "dispatch", "serve", "pop", "run", "controls", "notify"},
     todo : SUBSET Windows,             \* rest of the snapshot
     owner : Windows,                   \* the window being served
     left : 0 .. MaxTasksPerCheckpoint, \* tasks its checkpoint may still start
     deadline : 0 .. NoDeadline]

TypeOK ==
    /\ record \in [Windows -> Records]
    /\ open_window_count \in 0 .. Cardinality(Windows)
    /\ quit_policy \in {"OnLastWindowClosed", "ExplicitOnly"}
    /\ quit_requested \in BOOLEAN /\ terminal_error \in BOOLEAN
    /\ d \in [Windows -> DispatcherStates]
    /\ close_due \in [Windows -> Ids \cup {NotDue}]
    /\ wake_view \in BOOLEAN /\ native_wake \in BOOLEAN
    /\ now \in Time
    /\ pump \in Pump

Idle == [pc |-> "idle", todo |-> {}, owner |-> CHOOSE w \in Windows : TRUE,
         left |-> 0, deadline |-> 0]

Init ==
    /\ record = [w \in Windows |-> "none"]
    /\ open_window_count = 0
    /\ quit_policy = "OnLastWindowClosed"
    /\ quit_requested = FALSE /\ terminal_error = FALSE
    /\ d = [w \in Windows |-> NewDispatcherState]
    /\ close_due = [w \in Windows |-> NotDue]
    /\ wake_view = FALSE /\ native_wake = FALSE
    /\ now = 0
    /\ pump = Idle

OpenWindows == {w \in Windows : record[w] = "open"}

Runnable == ~terminal_error /\ ~quit_requested

Constructing == \E w \in Windows : record[w] = "constructing"

\* The UI thread runs user code, and no constructor is under way.
InUserCode == pump.pc \in {"idle", "dispatch", "run", "notify"} /\ ~Constructing

-----------------------------------------------------------------------------
(***************************************************************************)
(* Dispatcher calls.                                                        *)
(***************************************************************************)

\* request_wake does nothing before the view exists.
WakeIf(asked) == native_wake' = (native_wake \/ (asked /\ wake_view))

Callable(w) ==
    \/ record[w] = "open"
    \/ record[w] = "constructing" /\ (wake_view \/ EarlyCalls)

\* Dispatcher::post, from any thread.
Post(w) ==
    /\ Callable(w) /\ ~d[w].closing /\ CanEnqueue(d[w])
    /\ d' = [d EXCEPT ![w] = PostLocked(@)]
    /\ WakeIf(PostWakes(d[w]))
    /\ UNCHANGED <<registry, policy, close_due, wake_view, now, pump>>

\* Dispatcher::post_after, from any thread.
PostAfter(w) ==
    /\ Callable(w) /\ CanSchedule(d[w])
    /\ \E delay \in Time :
        /\ CanAdd(now, delay)
        /\ d' = [d EXCEPT ![w] = ScheduleLocked(@, now, delay, FALSE)]
    /\ WakeIf(~d[w].wake_pending)
    /\ UNCHANGED <<registry, policy, close_due, wake_view, now, pump>>

-----------------------------------------------------------------------------
(***************************************************************************)
(* Windows and the quit policy, used by user code on the UI thread.         *)
(***************************************************************************)

\* The StandaloneWindow constructor up to register_window ...
ConstructBegin(w) ==
    /\ InUserCode
    /\ record[w] = "none"
    /\ Runnable
    /\ record' = [record EXCEPT ![w] = "constructing"]
    /\ UNCHANGED <<open_window_count, policy, d, close_due, loop, pump>>

\* ... register_window, which realizes the wake view on first use ...
RegisterWindow(w) ==
    /\ record[w] = "constructing"
    /\ record' = [record EXCEPT ![w] = "open"]
    /\ open_window_count' = open_window_count + 1
    /\ wake_view' = TRUE
    /\ UNCHANGED <<policy, d, close_due, native_wake, now, pump>>

\* ... and fails for good if it cannot.
RegisterFails(w) ==
    /\ record[w] = "constructing"
    /\ ~wake_view
    /\ terminal_error' = TRUE
    /\ quit_requested' = TRUE
    /\ record' = [record EXCEPT ![w] = "destroyed"]
    /\ d' = [d EXCEPT ![w] = ShutdownLocked(@)]
    /\ UNCHANGED <<open_window_count, quit_policy, close_due, loop, pump>>

\* Mutants: the count drops whether or not the record is open; the dispatcher
\* of a closed window stays open.
MarkWindowClosed_Twice(w, after) ==
    /\ record' = [record EXCEPT ![w] = after]
    /\ d' = [d EXCEPT ![w] = ShutdownLocked(@)]
    /\ open_window_count' = IF open_window_count > 0 THEN open_window_count - 1
                                                     ELSE 0
    /\ quit_requested' = (quit_requested \/
           (open_window_count' = 0 /\ quit_policy = "OnLastWindowClosed"))

MarkWindowClosed_NoShutdown(w, after) ==
    /\ record' = [record EXCEPT ![w] = after]
    /\ \/ /\ record[w] = "open"
          /\ open_window_count' = open_window_count - 1
          /\ quit_requested' = (quit_requested \/
                 (open_window_count' = 0 /\ quit_policy = "OnLastWindowClosed"))
       \/ /\ record[w] # "open"
          /\ UNCHANGED <<open_window_count, quit_requested>>
    /\ UNCHANGED d

\* mark_window_closed and the shutdown of the window's dispatcher; the record
\* becomes `after`.
MarkWindowClosed(w, after) ==
    /\ record' = [record EXCEPT ![w] = after]
    /\ d' = [d EXCEPT ![w] = ShutdownLocked(@)]
    /\ \/ /\ record[w] = "open"
          /\ open_window_count' = open_window_count - 1
          /\ quit_requested' = (quit_requested \/
                 (open_window_count' = 0 /\ quit_policy = "OnLastWindowClosed"))
       \/ /\ record[w] # "open"
          /\ UNCHANGED <<open_window_count, quit_requested>>

\* The destructor of an open or closed window: unregister_window.
DestroyWindow(w) ==
    /\ InUserCode /\ pump.pc # "dispatch"
    /\ record[w] \in {"open", "closed"}
    /\ MarkWindowClosed(w, "destroyed")
    /\ close_due' = [close_due EXCEPT ![w] = NotDue]
    /\ UNCHANGED <<quit_policy, terminal_error, loop, pump>>

\* An accepted close: a completion task, or a wake if the post is rejected.
RequestClose(w) ==
    /\ InUserCode
    /\ record[w] = "open" /\ close_due[w] = NotDue
    /\ \/ /\ CanEnqueue(d[w])
          /\ close_due' = [close_due EXCEPT ![w] = d[w].next_task_sequence]
          /\ d' = [d EXCEPT ![w] = PostLocked(@)]
          /\ WakeIf(PostWakes(d[w]))
       \/ /\ close_due' = [close_due EXCEPT ![w] = 0]
          /\ WakeIf(TRUE)
          /\ UNCHANGED d
    /\ UNCHANGED <<registry, policy, wake_view, now, pump>>

RequestQuit ==
    /\ InUserCode
    /\ quit_requested' = TRUE
    /\ UNCHANGED <<registry, quit_policy, terminal_error, d, close_due, loop, pump>>

SetQuitPolicy ==
    /\ InUserCode
    /\ quit_policy' \in {"OnLastWindowClosed", "ExplicitOnly"}
    /\ UNCHANGED <<registry, quit_requested, terminal_error, d, close_due, loop, pump>>

-----------------------------------------------------------------------------
(***************************************************************************)
(* Application::Impl::pump.                                                 *)
(***************************************************************************)

PumpAt(pc) == pump.pc = pc /\ ~Constructing

\* Mutant: the wait is bounded by one of the dispatchers only.
BoundDispatchTimeout_OfOne ==
    LET dues == {NextDeadline(d[w], now) : w \in OpenWindows}
    IN  IF dues = {} THEN NoDeadline
        ELSE CHOOSE x \in dues : \A y \in dues : y <= x

\* bound_dispatch_timeout over the snapshot of open windows.
BoundDispatchTimeout ==
    LET dues == {NextDeadline(d[w], now) : w \in OpenWindows}
    IN  IF dues = {} THEN NoDeadline
        ELSE CHOOSE x \in dues : \A y \in dues : x <= y

PumpBegin ==
    /\ PumpAt("idle")
    /\ Runnable
    /\ pump' = [pump EXCEPT !.pc = "wait", !.deadline = BoundDispatchTimeout]
    /\ UNCHANGED <<registry, policy, d, close_due, loop>>

WaitEnds ==
    /\ PumpAt("wait")
    /\ native_wake \/ pump.deadline <= now
    /\ native_wake' = FALSE
    /\ pump' = [Idle EXCEPT !.pc = "dispatch"]
    /\ UNCHANGED <<registry, policy, d, close_due, wake_view, now>>

\* Another native event, or the caller's own timeout.
WaitInterrupted ==
    /\ PumpAt("wait")
    /\ pump' = [Idle EXCEPT !.pc = "dispatch"]
    /\ UNCHANGED <<registry, policy, d, close_due, loop>>

WaitFails ==
    /\ PumpAt("wait")
    /\ terminal_error' = TRUE
    /\ quit_requested' = TRUE
    /\ pump' = Idle
    /\ UNCHANGED <<registry, quit_policy, d, close_due, loop>>

DispatchWake ==
    /\ PumpAt("dispatch")
    /\ native_wake
    /\ native_wake' = FALSE
    /\ UNCHANGED <<registry, policy, d, close_due, wake_view, now, pump>>

\* drain_dispatchers takes its snapshot after native dispatch.
DispatchDone ==
    /\ PumpAt("dispatch")
    /\ pump' = [pump EXCEPT !.pc = "serve", !.todo = OpenWindows]
    /\ UNCHANGED <<registry, policy, d, close_due, loop>>

\* The next owner's checkpoint up to its first unlock.  The snapshot keeps the
\* owner alive if its window is destroyed meanwhile.
ServeOwner(w) ==
    /\ PumpAt("serve")
    /\ w \in pump.todo
    /\ \/ /\ d[w].closing
          /\ pump' = [pump EXCEPT !.todo = @ \ {w}]
          /\ UNCHANGED <<d, native_wake>>
       \/ /\ ~d[w].closing
          /\ LET due == DueTimers(d[w], now)
                 k   == TransferLimit(d[w], due)
             IN \E f \in FiringOrders(due, k) :
                  LET moved  == Transfer(d[w], now, f, k)
                      rewake == MustRewake(moved, k < Cardinality(due))
                  IN /\ d' = [d EXCEPT ![w] = IF rewake THEN ArmWake(moved) ELSE moved]
                     /\ WakeIf(rewake)
                     /\ pump' = [pump EXCEPT !.pc = "pop", !.todo = @ \ {w},
                                             !.owner = w,
                                             !.left = FrozenWork(moved)]
    /\ UNCHANGED <<registry, policy, close_due, wake_view, now>>

MayStart(own) == pump.left > 0 /\ ~own.closing /\ own.tasks # <<>>

\* A task is user code, unless it is the completion of the owner's close: then
\* the user code is on_closed.
StartTask ==
    LET own == d[pump.owner]
    IN  /\ PumpAt("pop")
        /\ MayStart(own)
        /\ pump' = [pump EXCEPT !.pc = "run", !.left = @ - 1]
        /\ \/ /\ Head(own.tasks).sequence = close_due[pump.owner]
              /\ MarkWindowClosed(pump.owner, "closed")
              /\ close_due' = [close_due EXCEPT ![pump.owner] = NotDue]
           \/ /\ Head(own.tasks).sequence # close_due[pump.owner]
              /\ d' = [d EXCEPT ![pump.owner] = PopFront(own)]
              /\ UNCHANGED <<registry, quit_requested, close_due>>
        /\ UNCHANGED <<quit_policy, terminal_error, loop>>

WorkLeft(own) == ~own.closing /\ own.tasks # <<>>

\* The tail of a checkpoint re-arms the wake for the work that is left.
LeaveCheckpoint(rewake) ==
    /\ d' = [d EXCEPT ![pump.owner] = IF rewake THEN ArmWake(@) ELSE @]
    /\ WakeIf(rewake)
    /\ UNCHANGED <<registry, policy, close_due, wake_view, now>>

CheckpointDone ==
    /\ PumpAt("pop")
    /\ \/ pump.left = 0
       \/ d[pump.owner].closing
       \/ d[pump.owner].tasks = <<>>
    /\ LeaveCheckpoint(WorkLeft(d[pump.owner]) /\ ~d[pump.owner].wake_pending)
    /\ pump' = [Idle EXCEPT !.pc = "serve", !.todo = pump.todo]

TaskReturns ==
    /\ PumpAt("run")
    /\ pump' = [pump EXCEPT !.pc = "pop"]
    /\ UNCHANGED <<registry, policy, d, close_due, loop>>

\* The exception leaves the checkpoint and the pump: the owners that were not
\* served yet and all close controls are skipped.
TaskThrows ==
    /\ UserThrows
    /\ PumpAt("run")
    /\ LeaveCheckpoint(WorkLeft(d[pump.owner]))
    /\ pump' = Idle

\* drain_close_controls takes a snapshot of its own.
ServeControls ==
    /\ PumpAt("serve")
    /\ pump.todo = {}
    /\ pump' = [pump EXCEPT !.pc = "controls", !.todo = OpenWindows]
    /\ UNCHANGED <<registry, policy, d, close_due, loop>>

\* Mutant: a control that is due is skipped.
ServeControl_Skips(w) ==
    /\ PumpAt("controls")
    /\ w \in pump.todo
    /\ pump' = [pump EXCEPT !.todo = @ \ {w}]
    /\ UNCHANGED <<registry, policy, d, close_due, loop>>

\* The close control of one window, or of none if it went away meanwhile.
ServeControl(w) ==
    /\ PumpAt("controls")
    /\ w \in pump.todo
    /\ \/ /\ close_due[w] # NotDue
          /\ MarkWindowClosed(w, "closed")
          /\ close_due' = [close_due EXCEPT ![w] = NotDue]
          /\ pump' = [pump EXCEPT !.pc = "notify", !.todo = @ \ {w}]
          /\ UNCHANGED <<quit_policy, terminal_error>>
       \/ /\ close_due[w] = NotDue
          /\ pump' = [pump EXCEPT !.todo = @ \ {w}]
          /\ UNCHANGED <<registry, policy, d, close_due>>
    /\ UNCHANGED loop

NotifyReturns ==
    /\ PumpAt("notify")
    /\ pump' = [pump EXCEPT !.pc = "controls"]
    /\ UNCHANGED <<registry, policy, d, close_due, loop>>

NotifyThrows ==
    /\ UserThrows
    /\ PumpAt("notify")
    /\ pump' = Idle
    /\ UNCHANGED <<registry, policy, d, close_due, loop>>

PumpEnds ==
    /\ PumpAt("controls")
    /\ pump.todo = {}
    /\ pump' = Idle
    /\ UNCHANGED <<registry, policy, d, close_due, loop>>

Tick ==
    /\ now < TimeMax
    /\ now' = now + 1
    /\ UNCHANGED <<registry, policy, d, close_due, wake_view, native_wake, pump>>

WindowStep(w) ==
    \/ Post(w) \/ PostAfter(w)
    \/ ConstructBegin(w) \/ RegisterWindow(w) \/ RegisterFails(w)
    \/ DestroyWindow(w) \/ RequestClose(w)

PumpStep ==
    \/ PumpBegin \/ WaitEnds \/ WaitInterrupted \/ WaitFails
    \/ DispatchWake \/ DispatchDone
    \/ \E w \in Windows : ServeOwner(w) \/ ServeControl(w)
    \/ StartTask \/ CheckpointDone \/ TaskReturns \/ TaskThrows
    \/ ServeControls \/ NotifyReturns \/ NotifyThrows \/ PumpEnds

Next ==
    \/ \E w \in Windows : WindowStep(w)
    \/ RequestQuit \/ SetQuitPolicy
    \/ PumpStep
    \/ Tick

Spec == Init /\ [][Next]_vars

\* What the application does by itself, and what it does when the program calls it
\* and user code returns.
GoesOn == \/ StartTask \/ CheckpointDone \/ ServeControls \/ PumpEnds \/ WaitEnds
          \/ \E w \in Windows : RegisterWindow(w) \/ ServeOwner(w) \/ ServeControl(w)

Continues == PumpBegin \/ DispatchDone \/ TaskReturns \/ NotifyReturns

\* As in modules Dispatcher and WindowClose: the program pumps until it quits,
\* user code returns, a wake or the deadline ends the wait, time passes.
Fairness == WF_vars(GoesOn) /\ SF_vars(Continues) /\ WF_vars(Tick)

FairSpec == Spec /\ Fairness

-----------------------------------------------------------------------------
(***************************************************************************)
(* Properties.                                                              *)
(***************************************************************************)

\* The count that decides about quitting is the number of open windows, however
\* windows are closed and destroyed, and only their dispatchers accept work.
RegistryAgrees ==
    /\ open_window_count = Cardinality(OpenWindows)
    /\ \A w \in Windows :
          /\ record[w] \in {"closed", "destroyed"} => d[w].closing
          /\ close_due[w] # NotDue => record[w] = "open"

\* The application quits when the last open window goes while the policy says
\* so; other than that only an explicit request or a terminal error quits it,
\* and nothing takes the quit back.
QuitsByPolicy ==
    [][LET last_went == OpenWindows # {} /\ OpenWindows' = {}
       IN  /\ quit_requested => quit_requested'
           /\ last_went /\ quit_policy = "OnLastWindowClosed" => quit_requested'
           /\ quit_requested' # quit_requested =>
                 \/ last_went /\ quit_policy = "OnLastWindowClosed"
                 \/ terminal_error'
                 \/ RequestQuit]_vars

\* The pump runs tasks of open windows only, although it works on a snapshot
\* and every task may close or destroy any window.
ServesOpenWindows ==
    [][pump.pc = "pop" /\ pump'.pc = "run" => record[pump.owner] = "open"]_vars

\* The loop never sleeps past the work of any of its windows: no task is queued
\* anywhere and no timer is due before the deadline.
Asleep == PumpAt("wait") /\ ~native_wake /\ now < pump.deadline

NoOversleep ==
    Asleep => \A w \in OpenWindows :
        /\ d[w].tasks = <<>>
        /\ \A timer \in d[w].timers : pump.deadline <= timer.due

\* Nor past the close of any of them, whoever requested it and when.
NoSleepOnClose == Asleep => \A w \in Windows : close_due[w] = NotDue

\* No window is left behind: whatever the others do, the work of each one is
\* eventually done, unless the program quits.
EveryOwnerServed ==
    \A w \in Windows : d[w].tasks # <<>> ~> d[w].tasks = <<>> \/ quit_requested

\* The accepted close of every window completes, unless the program quits.
EveryCloseCompletes ==
    \A w \in Windows :
        close_due[w] # NotDue ~> close_due[w] = NotDue \/ quit_requested
=============================================================================
