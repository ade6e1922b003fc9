# Verification of NativeUI

NativeUI (`src/`) is a retained-mode C++ GUI toolkit: one component tree per
native view, drawn with Skia through Pugl, observable `State<T>` cells as the
application's model, and one *dispatcher* per window that brings work from
other threads to the UI thread. This directory holds TLA+ models of its core,
the TLC configurations that check them on small instances, and theorems about
them that TLAPS proves for every value of the constants.

Paths are relative to the repository root; `detail/` stands for
`include/nativeui/detail/` (retained core) and `platform/` for
`src/detail/platform/`. `PROJECT.json` adds the `src/` prefix.

1. [The system](#1-the-system)
2. [The models](#2-the-models)
3. [The runs](#3-the-runs)
4. [The proofs](#4-the-proofs)
5. [Where code and words disagree](#5-where-code-and-words-disagree)
6. [What is not modelled, and the plan](#6-what-is-not-modelled-and-the-plan)

To repeat the results: `tlc -config X.cfg M` for the pairs listed in
section 3, and `tlapm M.tla` for the eight modules listed in section 4.

## 1. The system

One UI thread runs everything except: worker threads that use a `Dispatcher`
handle, and the I/O thread of the Linux D-Bus client. Everything on the UI
thread is nevertheless re-entrant: native handlers, dispatcher tasks,
observers, lifecycle and input callbacks are application code that may call
back into the component that called them, destroy it, throw, or pump the event
loop.

```
 worker threads                        D-Bus I/O thread
      | post / schedule / cancel              | completions are posted
      v                                       v
 +------------------------- Dispatcher (one per window) ----------------------+
 | task queue, timers, wake_pending -- request_wake --> wake backend          |
 +-----------^---------------------------------------------------|------------+
             | checkpoint                                         | ends the wait
 Application::pump / StandaloneWindow::poll  <---------------------+
      | native events            | close controls
      v                          v
 ViewCore -> Tree (input, focus, lifecycle,     WindowCloseState / veto / on_closed
             dynamic composition, layout,
             invalidation, paint) <-> State<T>, EditSession, overlays, animation
```

### Components on the event loop

**Dispatcher** (`src/dispatcher.cpp`, `detail/dispatcher_owner.hpp`).
State: a bounded FIFO of tasks, a bounded set of timers, two id counters that
stop at their end, `closing`, `wake_pending`, all under one mutex.
Operations: `post`, `post_after`, `schedule_every`, `cancel` from any thread;
`checkpoint`, `next_delay`, `shutdown` on the UI thread. Hard: the wake is
requested after the mutex is released; only the poster that arms
`wake_pending` wakes; a checkpoint freezes its work, may fail with `bad_alloc`
half way, may be unwound by a throwing callback and may be re-entered.
Correct when: accepted tasks start at most once and in order, limits hold, and
the loop never sleeps past accepted work.

**Wake backend** (`platform/dispatcher_backend.cpp`). State: the native view or
source that carries wakes, `closing_`, `realized_`. Operations: `request_wake`
(any thread), `update_world` (wait and dispatch), `bound_dispatch_timeout`.
Correct when: a wake requested during or before a wait ends it.

**Application** (`platform/application.hpp/.cpp`). State: window records, the
count of open windows, quit policy, quit request, terminal error. Operations:
`register_window`, `mark_window_closed`, `unregister_window`, `pump`, `run`,
`poll`, `request_quit`. Hard: a pump serves all windows from snapshots with one
wake, while its callbacks create, close and destroy windows and throw. Correct
when: windows are independent of each other, and the program quits exactly when
its policy says so.

**Standalone window close protocol** (`platform/standalone_window.cpp`,
`src/detail/window_control_state.hpp`). State: a close phase, one *posted* bit
per kind of task, the lifetime token. Operations: native close,
`request_close`, veto callback, completion, destructor. Hard: posts fail inside
native callbacks that cannot report it, tasks outlive their reason, the veto
callback may request, destroy, or run a modal loop. Correct when: every native
request is asked about once and answered, an accepted close is never taken back
and completes once, after its callback unwound, and nothing is slept on.

**Embedded view and view core** (`platform/embedded_view.cpp`,
`platform/view_core.cpp`, `platform/view_events.cpp`). Construction and
teardown of the native view, translation of events, containment of exceptions
at the native boundary. Correct when: teardown releases everything once and no
exception crosses C code.

### Components of the model layer

**State, Binding** (`include/nativeui/state.hpp`). State: value, revision,
listener slots, owner flag, pending write, read frames, the dispatching flag.
Operations: `set`, `set_if`, `snapshot`/`read`, `observe`,
`Subscription::reset`, destruction. Hard: all of them run from inside
callbacks of each other, and any callback may throw. Correct when: a borrowed
value does not change, the latest write wins, every observer is told exactly
as promised.

**EditSession** (`include/nativeui/edit.hpp`). State: active flag, deferred
terminal, source. Operations: `begin`, `update`, `end`, `cancel`. Correct when:
every session that began ends or cancels exactly once, after the callback in
progress.

**Text editing** (`include/nativeui/text_edit.hpp`, `src/text_input.cpp`,
`src/text_area.cpp`). Text, cursor, selection, undo and redo history,
composition. Correct when: the length limit holds, undo inverts, a stale
composition changes nothing.

**Collections** (`src/collection_model.cpp`, `src/collection_view.cpp`).
Snapshots with generations, prepared commits, selection, virtual rows. Correct
when: a commit prepared against an old generation is refused and row identity
survives.

### Components of the retained tree

**Lifecycle transactions** (`detail/tree_lifecycle_transaction.inc`). Mount and
activation journals and their rollback. Correct when: every started component
is undone exactly once in reverse order, whatever fails.

**Dynamic composition** (`detail/tree_dynamic.inc`, `for_each`, `if`). Dirty
markers, structural epoch, staged insertions. Correct when: no structural
change is lost and no stale snapshot is applied.

**Focus** (`detail/tree_focus.inc`), **input and pointer capture**
(`detail/tree_input.inc`, `platform/pointer_state.hpp`), **availability and
semantics** (`detail/tree_*_recovery.inc`). Durable cursors of transitions that
are resumed after callbacks. Correct when: enter and leave callbacks are
paired, and nothing refers to a removed node or to an older contact.

**Layout** (`detail/tree_layout*.inc`), **invalidation and culling**
(`detail/tree_retained_invalidation.inc`), **scene damage**
(`platform/scene_damage_state.hpp`), **raster cache**
(`detail/raster_cache_epoch.hpp`), **renderer** (`platform/gl_renderer.cpp`),
**render resources** (`src/detail/render_resource_*.hpp`). Correct when: damage
accepted before or during a frame is painted by this frame or a later one, and
cached pixels are reused only if nothing they depend on changed.

**Overlays** (`include/nativeui/overlay.hpp`) with **dialogs, popovers, menus**
(`src/dialog.cpp`, `src/popup_menu.cpp`, ...) and **tooltips and toasts**
(`src/tooltip.cpp`, `src/toast.cpp`). Entries with tokens, timers of the
dispatcher, a slot for the one dialog that may be shown. Hard: every change is
published to application code, which may fail or use the controller again
between its steps. Correct when: each entry goes away exactly once, a stale
handle closes nothing, a completion or action is called once, and no failure
leaves the UI busy.

**Animation** (`include/nativeui/animation.hpp`). A registry of running
animations and one timer between them. Correct when: whatever runs has a timer
or a tick under way that comes back to it, and nothing is written or completed
for an animation that is over.

### Services and the rest

**Linux D-Bus client** (`src/linux_dbus.cpp`,
`src/linux_dbus_client_operations.cpp`): pending calls, subscriptions and
object paths shared by the client threads and one I/O thread. Hard: reply,
deadline, cancellation, release of a client and shutdown race for each request;
handlers run on the I/O thread and may call the client. Correct when: every
request has at most one terminal result, delivered on its dispatcher, limits are
released with it, and what was unregistered or released stays silent.

**Desktop services** (`src/desktop_services.cpp`,
`src/linux_portal_desktop_services.cpp`): file choosers and URLs over the
portal. A request is held by the facade and by the backend, whose subscription
may have to move to another handle. Correct when: each request ends once and
leaves nothing on the bus.

**Widgets, commands, styles, value types, Skia painting, codec, input-method
glue, build and examples**: presentation, data conversion or platform glue;
their protocols are the ones of the parts above.

## 2. The models

| Module | Models | Uses |
|---|---|---|
| `DispatcherState` | the data of one dispatcher and the effect of each critical section | |
| `Dispatcher` | threads, pump and wake around one `DispatcherState` | `DispatcherState`, `TaskQueue` |
| `TaskQueue` | what a dispatcher promises: a bounded FIFO executor, at most once | |
| `WindowClose` | one window, its close protocol, its queue and its pumps | `CloseContract` |
| `CloseContract` | what the close protocol promises | |
| `Application` | several windows under one pump | `DispatcherState` |
| `ObservableState` | `State<T>`/`Binding<T>` with re-entrant user code | `ObserverContract` |
| `ObserverContract` | what a `State` promises its observers | |
| `EditSession` | one edit interaction over a `State` | `EditContract` |
| `EditContract` | begin, changes, then exactly one of end and cancel | |
| `TreeLifecycle` | mount, activate, deactivate, unmount of a whole tree, and their rollbacks | `LifecycleContract` |
| `DynamicComposition` | structural reconciliation, with failing components | `LifecycleContract` |
| `LifecycleContract` | the order in which one component is called | |
| `HoverTransitions` | the durable hover transition and its coalesced request | |
| `Pointers` | contacts and captures, their routes, drains and removals | |
| `Toasts` | the messages of one controller, their timers and actions | |
| `Dialogs` | dialogs of one UI, their slot and their overlays | |
| `Animation` | the animations of one context and their timer | |
| `RasterCache` | cached pictures of subtrees | |
| `SceneRenderer` | damage, scene and redraw of one view | |
| `DbusCalls` | method calls over D-Bus | `RequestContract` |
| `DbusRegistrations` | signals, object paths and teardown of the D-Bus client | |
| `DesktopRequests` | choosers and URLs over the portal | `RequestContract` |
| `RequestContract` | a request is settled once and told at most once | |
| `DispatcherProofs`, `WindowCloseProofs`, `StateProofs`, `DbusRegistrationsProofs`, `DesktopRequestsProofs` | lemmas and theorems about one module (section 4) | |
| `DeferredProofs`, `ProgressProofs`, `ReentryProofs` | theorems about the components of a suite, and about the suite | |
| `MCDispatcher`, `MCDbusRegistrations`, `MCWindowClose`, `MCObservableState`, `MCRasterCache` | instances of one module for TLC | |
| `MCApplication`, `MCDeferred`, `MCProgress`, `MCReentry` | suites: several components, one kind of question (section 3) | |

In the models of code on one thread, what makes the code hard is a stack of
operations: an operation that calls the application waits as a frame, and
everything the application may do, from any depth, is an action that is enabled
while the top frame is such a call. Throwing unwinds frames one by one through
what the C++ destructors and handlers do. History variables (named as such
where they are declared) record what properties speak about and influence
nothing.

### Dispatcher

`DispatcherState` holds the fields of the C++ `DispatcherState` as a record and
one operator per critical section (`PostLocked`, `ScheduleLocked`,
`CancelLocked`, `Transfer`, `PopFront`, `ShutdownLocked`, `NextDeadline`). It
has no variables, so that `Application` can have one per window.

`Dispatcher` interleaves at what the code makes atomic: one action per critical
section, one for the re-check in `request_wake`, one for the signal to the
backend. `schedule` is two actions because the clock is read before the lock is
taken. The UI thread is a stack of frames; a frame walks through
`wait -> dispatch -> enter -> pop <-> run -> finish` with the branches
`recover` (allocation failure in the transfer) and `unwind` (a callback threw).
A callback may do everything a worker may do, shut the owner down, throw, and,
where `NestedFrom` says so, pump again. An exception leaves the pump it unwinds;
the callback that had pumped may catch it or let it out in turn.

Abstractions: a task is its sequence number, a timer its id, due time and
kind; time is a small counter; ids wrap at `IdModulus` as the 64-bit counters
do, so that their end is reached. The order of timers that are due at the same
time is that of their ids as in the code.

### Window close and Application

`WindowClose` has the phase machine, both posted bits, the queue with three
kinds of task and a stack of pumps and callbacks. `AppOwned` selects between
the pump of an `Application` and the window's own `poll`, which differ in
whether the wait looks at the close phase. The dispatcher is reduced to its
queue: that a queued task ends a wait is what `Dispatcher` shows.

In `Application` each window has a record (`none`, `constructing`, `open`,
`closed`, `destroyed`), a `DispatcherState` and a close that is due or not. The
concurrency inside a dispatcher is that of `Dispatcher`, so here a call and its
wake are one step; the close protocol inside a window is that of `WindowClose`.
What is left is what several windows share: one wake, one wait with the minimum
of their deadlines, snapshots, and the count that decides about quitting. The
registry is an `unordered_map`; the order of service is arbitrary.

### Observable state and edit sessions

`ObservableState` keeps the control block of `state.hpp`: listener slots by
position, the pending write, the write left behind by completed reads, the read
frames, and the notification loop as a small program counter. User code is any
sequence of `UserCall` steps while `InUserCode` holds, which is: outside every
operation, in a condition, in an observer, in a reader. `owed` and `latest` are
history variables: who must still be told of the current revision, and the
write that counts as the latest. Comparing and destroying values call back into
nothing; moving a value may throw or destroy the State (`FallibleValue`).

`EditSession` has the control block (`active`, the deferred terminal, whether
the owner is alive), which callback is running (`phase`) and what the operation
still does when it returns (`rest`). Of the `State` it keeps what the session
reads of it: whether it exists, whether it is busy, and its value. Callbacks
and observers end, cancel, write, destroy session or State, and throw.

### Tree

`TreeLifecycle` numbers the nodes in mount order. A frame of `stack` is an
operation with the pass it is in (`mount`, `activate`, `blur`, `deactivate`,
`late`, `unmount`), the node it is at, and whether it rolls back; teardown and
rollback go backwards. Callbacks may throw and call the tree's operations
again, which the transition flag refuses or queues as in the code. Every
component retains an invalidation callback with the generation of its mount:
`DeadCallbacks` is about those.

`DynamicComposition` is a root host with the keys `leaf` and `host`, the latter
a host with the key `inner`: enough for children that stay beside ones that go,
and for a host that is destroyed while it is marked. Markers, the pass limit,
retry-all after a failure, the structural epoch (only whether it moved since it
was last looked at) and the repair of the focus registry are the code's.

`HoverTransitions` has the current target, the transition that is durable
across callbacks and exceptions, and the one request behind it. `Pointers` has
the contact table, the capture table, the platform's capture of the mouse, and
a stack of operations of the tree and of callbacks of the application in turn.
A pointer id is reused; contacts are told apart by the token of the dispatch
that began them. Two assumptions of `Pointers`: the application does not
capture a pointer in the very Up or Cancel that ends its contact, or from a
view that was deactivated (`Sensible`); and a component is removed only between
dispatches, where the tree's checkpoints are.

### Overlays, animation and painting

`Toasts` has the entries with one timer each, the overlay that shows them and
the queue of pressed actions; showing the list, notifying and closing call the
application. `Dialogs` has the controllers, the slot that only one of them
holds, the overlays with their reconciliation, and the close that waits for the
end of a dispatch. `Reentrant` says whether notifications and unmounted
components use dialogs again (section 5 has what happens then).

`Animation` has the registry, the timer in the Dispatcher and a stack of ticks
and other calls. A tick walks a snapshot; each value that is written,
invalidation and completion calls the application. Curves are left out: a tween
may be due at any tick, and is at its last one; a spring need never rest.

`RasterCache` has per boundary an epoch (generation, stale, captured,
exhausted), the store of images with the place they were painted at, and the
paint in progress, which calls one component after the other; each of them may
change the content of anything meanwhile. A picture is the contents it was
painted from, so that "current" can be asked of it.

`SceneRenderer` is a row of regions; damage is an interval of them, as a dirty
rectangle is. For each region the scene, its snapshot and the screen either
show what the tree would paint or do not. A frame takes damage, lays out,
paints and presents, and gives its damage back where it fails; what the window
system asks for and what the view asks for are `exposed` and `later`. Left out:
the collapse of more than eight rectangles into one, the extra damage of a
frame with descendant actions, the inspector, a resize whose immediate layout
throws out of the configure handler, hidden views.

### Services

`DbusCalls`: a request is in the pending-call set (`entry`), the resource
ledger (`slots`), the transport (`native`) and on the wire. Client threads are
serialized by the surface's mutex; the I/O thread delivers replies and
deadlines, and whoever takes the entry out completes the request by a task of
the client's dispatcher, which reads the client's gate (`RunTask`) and then calls
back (`StartCallback`), in two steps, because the gate is read without a lock.
`DbusRegistrations` has signal subscriptions and
object paths in each table that holds them (surface, ledger, filter, transport,
libdbus) and the operations of client threads and of handlers on the I/O
thread, one step per critical section; `subscribe_signal` keeps both mutexes
while it waits for the I/O thread, and so it does here. A delivery reads the
subscription's flag (`RunDelivery`) and then calls back (`StartDelivery`), again
in two steps, on the thread of its dispatcher (`RunsOn`), which does one thing at
a time: a task or an operation. `DesktopRequests` has
the table of the facade, the backend's entry with its subscription, call and
handle, the bus, the portal, and the tasks that carry replies and results.
Request ids are unique, a caller knows the id once `start` returned, and the
services are destroyed with no call of theirs in progress. The ledger has a
mutex of its own and is released right after the surface's section; the models
make the two one step (`RawUnregister`, `DropSignal`, `DiscardEntry`), so a slot
is never seen held for an entry that has just gone. An `AddMatch` that failed or
timed out leaves no rule at the bus (`Install`): whether the bus applied one whose
answer came too late is not modelled.

## 3. The runs

All runs finish on two TLC workers, the longest (`progress`) in about three
minutes.

| Run | Module and configuration | Question | Result |
|---|---|---|---|
| `dispatcher_threads` | `MCDispatcher`, `MCDispatcher.cfg` | two threads and the UI thread race every call against one pump, with one allocation failure | holds |
| `dispatcher_live` | `MCDispatcher`, `MCDispatcherLive.cfg` | every accepted task and due timer leaves the dispatcher | holds |
| `application` | `MCApplication`, `MCApplication.cfg` | two windows: no sleep past either, every window served; registry and policy when callbacks throw | holds |
| `dbus_registrations` | `MCDbusRegistrations`, `MCDbusRegistrations.cfg` | threads and handlers subscribe, register, release and stop | holds |
| `deferred` | `MCDeferred`, `MCDeferred.cfg` | components that answer later than they are asked | holds |
| `progress` | `MCProgress`, `MCProgress.cfg` | components whose work must come to an end | holds |
| `reentry` | `MCReentry`, `MCReentry.cfg` | components whose callbacks call them again and throw | holds |
| `window_close_dialog` | `MCWindowClose`, `MCWindowCloseDialog.cfg` | a veto callback that runs a modal loop is asked once | violated, see 5 |
| `application_throw` | `MCApplication`, `MCApplicationThrow.cfg` | no sleep past a window after another one's task threw | violated, see 5 |
| `observable_state_condition` | `MCObservableState`, `MCObservableStateCondition.cfg` | the latest write wins when a condition writes | violated, see 5 |
| `dbus_stop_returns` | `MCDbusRegistrations`, `MCDbusRegistrationsStop.cfg` | `stop()` returns, also beside a handler that unregisters itself | violated, see 5 |
| `raster_focus` | `MCRasterCache`, `MCRasterCacheFocus.cfg` | a picture is reused only if it is current, also after a change of focus | violated, see 5 |

*Suites.* `application`, `deferred`, `progress` and `reentry` ask one kind of
question of several components, or of one component in several worlds. A
behaviour is one of a single component, its `subject`; the other components
stay in their initial states, in which their properties hold and go on holding.
So the reachable states are the union, not the product, of the components', a
property of the suite is the conjunction of what it says of each subject, and a
suite shows of each component what a run of its own would. The subjects of
`application` are *steady* (nothing throws; liveness) and *faulty* (callbacks
throw, calls before the wake view exists); of `deferred`: *dbus*, *choosers*,
*opened*, *motion*, *scene*; of `progress`: *window*, *tree*,
*dynamic*, *failing*, *hover*, *edit*, *toast*, *dialog*; of `reentry`:
*dispatcher*, *timers*, *window*, *state*, *two pointers*, *one touch*, *over
leaf*, *two toasts*, *one toast*, *dialogs*, *dialogs reentered*, *moved*,
*remounted*, *either*, *effects*.

The bounds of the components that the theorems of section 4 speak about are
`CONSTANTS` of the suite (`Clients`, `Animations`, `TreeSize`, `HoverParent`, ...)
with their values in its `.cfg`, so that a theorem about the suite holds for any
of them; those of the other components are written where the suite instantiates
them.

### What the properties say

*Dispatcher.* `NoOversleep`: while the UI thread is asleep, no task is queued
and no timer is due before the deadline of the wait. It rests on
`NoStrandedTask` (queued work has an armed flag or a checkpoint under way) and
`WakeInFlight` (an armed flag, which silences later posters, stands for a wake
that is on its way or was just taken). `QueueIsUnstartedSuffix`: the queue is
exactly what was accepted and not started. `FixedSnapshot`: a checkpoint never
starts work accepted after its freeze. `ImplementsTaskQueue`: refinement of the
abstract executor. `EveryTaskLeaves`, `EveryDueTimerFires`: liveness.
`NestedPumpsAreSafe` has the wake protocol, order, `FinalFiringIsFinal` (the
last firing of a timer is not followed by another, also when a transfer failed
half way) and `LimitsHold` for a dispatcher whose tasks pump; and, for a window
that is polled and whose callbacks pump, `PostedMeansQueued` and
`NoSleepOnDurableClose`.

*Windows.* `CloseIsSound`: the bits that suppress posts stand for queued tasks,
a close completes after the callback that asked for it returned, and the loop
does not sleep on a close that is undecided. `ImplementsContracts` contains
`CloseContract`: one question per request, an accepted close is never taken
back, one `on_closed`, silence after destruction. For the application:
`NoOversleep` over tasks, timers and closes of all windows,
`NoWindowLeftBehind`, and `ApplicationFollowsPolicy` (the registry has exactly
the windows that are not closed; `run` ends for the reasons of the policy only;
only open windows are served).

*State.* `StateIsSound`: at rest the value is that of the latest write that was
neither refused by its condition nor discarded by a failure; a pass stays
within the listeners it was made for; however a dispatch ends nothing of it is
left; nobody who watched at publication is passed over. `ImplementsContracts`:
value and revision change only while nobody borrows them, and everybody is told
once, before the next value. *Edit session:* `EditIsSound` (nothing is pending
at rest, the interaction of a destroyed owner is over), the contract (begin,
changes, exactly one terminal, which is a cancel if anything spoiled the
interaction), and in `NothingIsToldTwice`, that `begin` reports an interaction
only when there is one that can be updated.

*Tree.* `LifecycleIsSound`: between operations the tree's flags tell what the
components were told, so that a failed operation left none of its calls behind;
a component has the Dispatcher as long as it is active; retained callbacks of
dead components do nothing. `CompositionIsSound`: between flushes exactly the
components in the tree are up, no change of what hosts observe is lost, the
focus registry has no destroyed node; children that stay hear nothing of the
reconciliation of others. `HoverIsSound`: no destroyed node is the target,
observers and target agree when nothing is unfinished, the last request counts,
and nobody hears the same news twice. `PointersAreSound`: captures belong to
contacts in progress, an ended contact is not tracked again, nothing points at a
destroyed node, the platform's capture is held for one of the tree's only.
`OutdatedIsInert`: a context of an ended contact does nothing, the frame of an
older contact leaves a newer one of the same pointer alone, a drain cancels
every contact whatever is thrown, a revoked picture never becomes current again.

*Overlays, animation, painting.* `PresentationsAreSound`: messages have timers,
an overlay and their full time, and finished operations leave the controller
idle; a completion is called once, with the result asked for first; nothing
that fails leaves the UI busy, a controller with a dialog that is gone, or an
overlay that is open for nobody. `PicturesAreCurrent`: a picture that would be
reused is what the components would paint now. `UnfinishedIsScheduled`: a
running animation has somebody who comes back to it, and one timer at most; what
scene or screen lack is known to be missing, and a frame is asked for.

*Requests.* `CallsAreSound`: no request is left in the pending set with nobody
to complete it, and the ledger's slots are exactly those of the requests under
way. `ChoosersAreSound`: nothing of a request that ended stays on the bus,
facade and backend agree on what is active, `cancel` tells the truth, no
callback is called twice. `WhatIsOverStaysOver` has `RequestContract` for calls
and for choosers (accepted once, settled once, told at most once and afterwards;
when the release of a client has returned, no task of its requests passes the gate
any more, and only an answer that had passed it before still arrives), and for
animations that no value is written and nothing
is completed after the end. `UnregisteredIsSilent`: when an unregistration has
returned, no handler of the path runs or will run. `TablesAgree`: ledger, match
rules, filter, transport and surface agree. `UnsubscribedIsSilent`: when the
thread of a subscription's dispatcher has seen its end (a `subscribe_signal` that
failed, an `unsubscribe_signal`, `release_client` or `stop` that returned there),
no delivery of it is left to call back. It says nothing when another thread ended
it (section 5).
`OperationsReturn`: every call returns, unless a handler waits for itself.

`WorkComesToAnEnd` and `EverythingIsAnswered` are one leads-to formula each,
`Owed ~> Settled`, which stands for the leads-to property of each subject (the
comment on it names them). A behaviour has one subject, so it is that subject's
property.

### Bounds, and why they are enough

* *Dispatcher:* two workers and the UI thread, since the lost-wake races need a
  poster that arms the flag, one that relies on it, and the consumer. Workers are
  symmetric; the run with symmetry has no liveness property. Queue, timers and
  checkpoint limits of one or two are reached, and so are partial transfers. Ids
  wrap at 3 (the last number occurs). Pumps nest two deep, those of a window
  three: an outer frame with stale locals and an inner one that changes what it
  relied on.
* *Application:* two windows, one that is served and one that could be left
  behind. In the steady world each dispatcher holds one task and one timer: the
  question there is who is served and when.
* *State:* three listeners, three writes, three revisions, one read at a time in
  `reentry` (two in the violating run): an observer that is walked over, one that
  leaves and one that joins in the same pass, with a write made in it and one
  superseding that.
* *Tree:* three components and two mounts, that is a rollback with something
  before and something behind the one that failed; three changes of structure
  with one fault, or two with a fault in the recovery of the first; a limit of
  two passes, so that a flush meets it. Four nodes for hover: paths that share an
  ancestor and paths that do not. Pointers: two pointers of which one can be
  tracked, one pointer put down three times, and the mouse over a component that
  is removed; three frames.
* *Overlays:* two messages, or one with a fault and the pointer over it; two
  controllers and two dialogs with one fault; three regions; a tween and a
  spring, ticks and calls nested two deep, two faults; of a view's changes and its
  renderer's failures three together (`MaxUnrest`), enough for a failure between two
  changes; a panel with a knob, one
  or both of them boundaries, generations that run out at two.
* *Requests:* two clients with two requests and a ledger for one; two choosers by
  two threads, and a chooser with a URL and one fault; two client threads with one
  subscription, whose dispatcher one of them runs, so that its own thread and the
  other may end it, and two paths of which libdbus may refuse to unregister one.
* `CHECK_DEADLOCK FALSE` stands where the program may come to a true end (windows
  destroyed, requests answered, bounds used up), which includes every suite.

### Fairness

Safety is checked without any: the suites state fairness for their leads-to
formulas, and it excludes no finite behaviour. It is what the code and its
platform give:

* threads inside `post`, `schedule`, `request_wake` or a D-Bus call get on (weak
  fairness of each critical section), and the D-Bus I/O loop runs: deadlines
  expire and the loop ends when it is asked to;
* the loop gets on inside a pump (weak fairness) and user code returns (strong
  fairness where a nested step may disable and re-enable the return): a callback
  that never returns stops any GUI;
* the program pumps again until it quits, which is what `run()` does, and which
  `poll()` demands of its caller; checkpoints of the tree, which every pump makes,
  therefore recur;
* a wake in the native queue or the expired deadline ends the wait; time passes.
  For the dispatcher no other native event is assumed to come: that would hide
  lost wakes;
* for messages, tasks and timers of the dispatcher run outside operations of the
  tree again and again; for dialogs, events keep coming (a deferred close is
  carried out at the end of a dispatch or layout); for choosers, calls return
  and the dispatcher runs its tasks; the portal need not answer;
* for animations, callbacks return at every depth and a due timer fires; for
  frames, updates and exposes that were asked for are delivered.

A suite has one formula per *kind* of fairness, over the disjunction of its
components' steps. With one subject in a behaviour, fairness of the disjunction
is fairness of the subject's disjunct.

## 4. The proofs

Eight modules hold the theorems, about eleven components for every value of
their constants, and about the suites that TLC checks. They assume the named
assumptions of the modules (limits that are positive, a finite tree, an I/O
thread that is no client, ...), which TLC evaluates in every run, and what the
table adds.

| Module | Theorem | States |
|---|---|---|
| `DispatcherProofs` | `TypeCorrect` | `[]TypeOK` |
| | `QueueAlwaysBounded` | the queue is within its limit |
| | `WakeAlwaysKept` | `[](TypeOK /\ WakeInv)`, from which the next three follow |
| | `TasksNeverStranded` | `[]NoStrandedTask` |
| | `WakeAlwaysInFlight` | `[]WakeInFlight` |
| | `NeverOversleeps` | `[]NoOversleep`, if native handlers do not pump (`NestedFrom \subseteq {"run"}`) |
| | `TasksRunInOrder` | `[]QueueIsUnstartedSuffix` |
| | `DispatcherImplementsTaskQueue` | the refinement of `TaskQueue` |
| | `SnapshotsStayFixed` | `FixedSnapshot`, if tasks do not pump (`NestedFrom \subseteq {"dispatch"}`) |
| | `FinalFiringsAreFinal` | `[]FinalFiringIsFinal` |
| | `LimitsAlwaysHold` | `[]LimitsHold` |
| `WindowCloseProofs` | `PostedAlwaysQueued` | `[]PostedMeansQueued`, whatever pumps or throws |
| | `CloseTyped` | `[](TypeOK /\ AskedOnce)`, without nested pumps |
| | `AlwaysUnwound` | `[]CompletionUnwound`, without nested pumps |
| | `NeverSleepsOnClose` | `[]NoSleepOnDurableClose`, without nested pumps and throws |
| | `CloseImplementsContract` | the refinement of `CloseContract`, without nested pumps |
| `StateProofs` | `StateTyped` | `[]TypeOK` |
| | `LatestWriteAlwaysWins` | `[]LatestWriteWins`, if conditions do not restore the value (`~ConditionsRestore`) |
| | `PassAlwaysInBounds`, `AlwaysRestsClean` | `[]PassInBounds`, `[]RestsClean` |
| | `NobodyIsLeftOut` | `[]NobodyLeftOut` |
| | `BorrowIsStable` | `StableBorrow` |
| | `StateImplementsContract` | the refinement of `ObserverContract` |
| `DbusRegistrationsProofs` | `RegistrationsTyped` | `[]TypeOK` |
| | `UnregisteredStaysSilent` | `[]UnregisteredIsSilent` |
| | `TablesAlwaysAgree` | `[]TablesAgree` |
| | `UnsubscribedStaysSilent` | `[]UnsubscribedIsSilent` |
| `DesktopRequestsProofs` | `RequestsAlwaysTyped` | `[]TypeOK` |
| | `BusAlwaysHoldsNothingElse` | `[]BusHoldsNothingElse` |
| | `BothAlwaysHoldTheRequest` | `[]BothHoldTheRequest` |
| | `CancelAlwaysTellsTheTruth` | `[]CancelTellsTheTruth` |
| | `RequestsImplementContract` | the refinement of `RequestContract` |
| `DeferredProofs` | `DbusCallsTyped` | `[]TypeOK` of `DbusCalls` |
| | `DbusNeverStranded` | `[]NothingStranded` |
| | `DbusLedgerAlwaysAgrees` | `[]LedgerAgrees` |
| | `DbusCallsImplementContract` | the refinement of `RequestContract` |
| | `CallsAreAlwaysSound`, `ChoosersAreAlwaysSound`, `UnfinishedIsAlwaysScheduled`, `AlwaysTyped` | all invariants of `deferred` |
| | `WhatIsOverAlwaysStaysOver` | its action property |
| `ProgressProofs` | `EditTyped` | `[]TypeOK` of `EditSession` |
| | `EditAlwaysSettled`, `EditDestroyedIsAlwaysOver` | `[]RestsSettled`, `[]DestroyedIsOver` |
| | `EditBeginAlwaysReportsTruth` | `BeginReportsTruth` |
| | `EditImplementsContract` | the refinement of `EditContract` |
| | `TreeTyped` | `[]TypeOK` of `TreeLifecycle` |
| | `FlagsAlwaysTellTheTruth` | `[]FlagsTellTheTruth` |
| | `AlwaysDispatcherWhileActive`, `CallbacksAlwaysDie` | `[]DispatcherWhileActive`, `[]DeadCallbacks` |
| | `TreeImplementsLifecycle` | the refinement of `LifecycleContract`, for every component |
| | `HoverTyped` | `[]TypeOK` of `HoverTransitions` |
| | `HoverNewsAlwaysAlternates` | `NewsAlternates` |
| | `CloseIsAlwaysSound`, `LifecycleIsAlwaysSound`, `HoverIsAlwaysSound`, `EditIsAlwaysSound` | those invariants of `progress` |
| `ReentryProofs` | `StateIsAlwaysSound`, `NestedPumpsAreAlwaysSafe` | those invariants of `reentry` |
| | `ContractsAreImplemented` | its refinements |

None of the safety properties is inductive as it stands. What is added to each,
and why:

*Dispatcher.* The effect of every operator of `DispatcherState` on the fields of
the record is a lemma of its own; `Transfer` is the long one, because it moves a
prefix of the due timers chosen by several limits. The steps of the pump are
handled through lemmas about the stack (push, replace top, pop). `WakeInv` adds
that only the innermost pump waits (`OnlyTopWaits`), that a closed owner is empty
and unarmed (`ClosedIsEmpty`), and that a waiting pump has something that ends
its wait or has computed its deadline from everything there is
(`WaitIsCovered`). The last part is the point of the argument: the deadline is
computed before the wait, so every later acceptance must arm the flag or find it
armed, and an armed flag is a wake in flight. `NeverOversleeps` follows when no
frame below the waiting one has taken a wake without having reached its
checkpoint, which is why it excludes pumps from native handlers.
`SnapshotsStayFixed` needs `Snapshot`: a task started plus the tasks left to a
checkpoint never reach what was accepted after the freeze. A nested checkpoint
consumes tasks but not the outer count, so tasks that pump are excluded; section
5 says what happens with them. `FinalFiringsAreFinal` needs that a timer id in the
queue is one given out before, so that no later timer takes it over, also where
the counter wraps to its end (`Timely`). The refinement maps the accepted number
to `LastAccepted` and the begun one to `started`; every action is an acceptance
(one or, for a transfer, several), a start, a shutdown or a stutter.

*Window close.* That a posted bit has its task rests on the queue alone (`Queue`:
a completion in the queue finds the phase `Pending`, a closed or destroyed
window has no tasks) and is proved for pumps of any depth. The rest needs to know
where the pump stands: without nested pumps the stack is a pump and at most one
callback (`Shape`), which says what is still to come: a request is asked about
once (`Asked`), none gets past the first half of the control section unasked
(`Past`), the callback that requested the close has gone when it completes
(`Unwound`), and outside the pump or in its wait, close work has something that
wakes (`Awake`). The assumptions are not conveniences: where callbacks
pump, the veto callback is asked twice and a close may complete under its
callback, and where they pump or throw, an application may sleep on a close
(section 5).

*D-Bus registrations.* `IInv` is built in layers. `Typed` says how an operation
proceeds through its sections; `Shutdown`, that one operation stops and what
nobody can do afterwards; `Given`, that an id is given out once. On those rest,
independently: `Silence` (a path that was waited for is not entered again: the
wait ends only when its record is gone and its handler returned), `QuotasAgree`,
`Setup` (where a subscription stands between rule, command and table), `Surface`
(every path the transport has and the surface has not is in somebody's hand),
`Teardown` (how far the release of a client has come) and `Delivery` (a thread in
a task has no operation, and what a thread knows to be over is inactive and not to
be set up again, so that no task of it begins). What makes the release
hard is another thread's unregistration that took a path at the same time;
`disturbed` names the clients to which that happened, and the theorem excludes
nothing else.

*D-Bus calls.* The invariant says who has a request: nobody (`Known`), one thread
that took the entry out (`Taken`), one task (`Posted`), or the transport, the
installer of its notification or the I/O thread (`Noticed`). With it
`NothingStranded`, `CapacityAgrees` and `ReleasedIsEmpty` are inductive together;
the contract's "settled once, told once" is that an entry is taken by one thread
only and a task posted only by it. Whom the gate admits is in the contract too
(`admitted`): it closes with the release, and who was let in before is told.

*Desktop requests.* A request passes through many hands, and the invariant says
in which it is. Who starts it has it alone until the portal was called (`Alone`);
what the backend holds is active and taken by nobody (`Held`), and what is active
is held by the backend, or by one thread that brings it there or ends it
(`ActiveHeld`, `EndsOnce`). With each go its subscription (`SubsKnown`) and its
method call (`CallsKnown`), so that nothing else is on the bus. `Confirmed`
follows one cancellation from the `true` it returned to the outcome.
`HandlesKnown` is what makes the exchange of a predicted handle for the
portal's own work: a reply and a response in the task queue name the handle the
portal has. The contract's "told once" is `ToldOnce`: one task, posted by whoever
took the request out.

*Animation.* A running animation is attended: the timer is armed, or a tick or a
reduction on the stack has not returned and re-arms or completes when it does
(`MotionAttended`). From `MotionFresh` (what runs, and what is yet to come, was not
completed) and `MotionBusy` (what is applied at once was never registered, and one
frame has it) follows that no value is written after the end and that completions
come once. What a frame has in hand is in the frame, so that the argument holds for
any depth of nesting.

*Scene.* What the scene, or what will be shown of it, lacks is known to be
missing (`SceneKnown`); while a frame paints, it is still to be painted by the
frame, or the frame will not be used, or there is damage for another one
(`ScenePainting`). Damage is joined into a hull, and that a hull stays within the
view rests on the only appeal to induction: a set of numbers that is not empty has
a least one (`LeastOne`, by the library's well-foundedness of `<`).

*Edit session.* The session's view agrees with what its callbacks heard
(`Agrees`), and a deferred terminal waits for a callback that will return, is a
cancel if anything spoiled the interaction, and is there if the owner was
destroyed (`Pending`).

*Tree lifecycle.* At any time at most one operation is under way, or the
deactivation that ends a failed activation (`Shape`, `Flags`, `Range`). Then
where its pass stands determines the last call every component heard
(`HeardAt`, `AllHeard`), and everything follows from that: the contract because
a step moves one component from what it has heard to the next, the truth of the
flags because at rest no pass stands anywhere. `Generations` says that no
component out of the tree has a callback of the current generation.

*Hover.* As long as no removal has cut it, a transition determines who was told:
those on both paths, and those of its old path from the cursor up, or of its new
path below the cursor (`HoverHeard`). So each step tells one node, and one that
was not told this last. `HoverLatest` keeps the last request, pending or served.
The path of a node is stated in the model as the smallest set that contains it
and is closed under parents, which needs no recursion; that paths are chains
follows from the assumption that the parents are well-founded.

*State.* At any time the latest write stands somewhere, and the rest was
superseded: it is the pending write, the copy of the dispatch, the write whose
condition is being decided, or what the innermost read gives back (`Latest`; each
frame of `reads` is judged against the write that was the latest when it began).
`Newer` says that what is written while a condition runs is newer than what it
decides. Where a condition may restore the old value this is exactly what fails,
and `observable_state_condition` shows the loss (section 5). `Turns` relates the
observers still owed the value to the slots a pass has yet to come to; slots are in
the order of their ids and are compacted after a dispatch only (`Ordered`), which is
stated as *the* sequence of the active slots in that order, not by a recursion.

*Suites.* A behaviour of a suite has one subject, which never changes
(`SubjectStays`); seen from one component, it is a behaviour of that component's
own specification, since a step is its own or leaves its variables alone
(`EditBehaves`, `TreeBehaves`, `HoverBehaves`, `WindowBehaves`, `StateBehaves`,
`DispatcherBehaves`). The theorem of the component, instantiated, then gives the
property TLC checks. The invariants of `DbusCalls`, `Animation`, `SceneRenderer`,
`EditSession`, `TreeLifecycle` and `HoverTransitions` are proved in the suite's
`...Proofs` module, about the instance whose constants the suite leaves open. `reentry`
judges two dispatchers by one formula: the one with batches, whose queue holds
one task, implements the `TaskQueue` of the other, whose queue holds two.
`NestedPumpsAreSafe` asks `NoSleepOnDurableClose` of a window that owns its
loop; its wait tests the phase, so that this part needs no invariant. For a
window of an application it is false with nested pumps (section 5).

*What stays with TLC.* Liveness under fairness and `ENABLED` are out of the
prover's reach: all leads-to properties and `OperationsReturn`. So is induction
over data: what a recursive definition or a fold computes for every input.
Therefore, and because a proof of each is work of its own, only model-checked are
`Application`, `DynamicComposition` (`CompositionIsSound`), `Pointers`
(`PointersAreSound`, `OutdatedIsInert`), `Toasts` and `Dialogs`
(`PresentationsAreSound`), `RasterCache` (`PicturesAreCurrent`), and with them the
type invariants and the conjunctions of refinements of `progress` and `reentry`
where they speak of these.

## 5. Where code and words disagree

Five runs show a behaviour of the code that a comment, a document or a test of
the repository excludes.

* `window_close_dialog`. A native close is put to the veto callback "exactly
  once" (`tests/t066_window_controls_platform_tests.cpp:265`). If the callback
  pumps the loop, as a modal question does, the close-control section of the
  nested pump finds the phase still `Requesting` and calls it again:
  `close_request_callback_active` is set (`standalone_window.cpp:201`) and
  never read.
* `application_throw`. A task that throws leaves `drain_dispatchers`
  (`application.hpp:190`) before the other windows are served, although the
  wake they share was taken. A window left behind keeps `wake_pending`, so a
  later post into its empty queue wakes nobody, and the application sleeps on
  it, against `tests/t065_platform_tests.cpp:116-117`.
* `observable_state_condition`. "The latest write wins for the next pass;
  writing the current value cancels an earlier pending write"
  (`state.hpp:288-290`). While the condition of a `set_if` runs, its write is
  no longer pending; a write of the current value made by the condition is
  taken for a no-op and the older conditional write is then published.
* `dbus_stop_returns`. A handler may call the surface again
  (`linux_dbus_client_operations.cpp:135-136`), and an unregistration on the I/O
  thread does not wait for itself: it recognises the thread by
  `io_thread.get_id()` (`linux_dbus.cpp:2163`). A stop on another thread has
  moved the handle out by then (`:1565`), the comparison fails, the handler waits
  for its own return, and the stop for the thread.
* `raster_focus`. "Content changes revoke containing boundaries"
  (`docs/raster-cache-boundaries.md:33`). A change of focus
  damages the component (`detail/tree_focus.inc:73`) but revokes nothing; a
  `KnobComponent`, which paints its focus (`knob.cpp:370`) and does not
  invalidate itself when it changes (`:149`), is shown as it was.

The other runs exclude these situations by constants (`NestedFrom`,
`UserThrows`, `ConditionsRestore`, `TellsFocus`) or by name
(`OperationsReturn`: a handler that waits for itself), so that what holds
otherwise is visible. More such conditions were met while the models were
written; with these constants TLC finds a violation:

* `NestedFrom = {"dispatch"}` in `Dispatcher`: a native handler that pumps runs
  between the wake being taken and the checkpoint that disarms the flag; posts
  made then are silent, and the nested wait may oversleep
  (`dispatcher.cpp:211`, `:441`).
* `NestedFrom = {"run"}` and `FixedSnapshot`: a nested checkpoint runs work of
  the outer one, whose count then reaches newer work (`dispatcher.cpp:305`
  against `dispatcher_owner.hpp:59-60`).
* `AppOwned` with `UserThrows` or nested pumps, and `NoSleepOnDurableClose`: a
  task that throws skips the close-control section, and the next wait of an
  application looks at dispatchers only (`application.hpp:214`);
  `StandaloneWindow::poll` looks at the phase as well and is not affected.
* nested pumps and `CompletionUnwound`: the control section of the nested pump
  completes a close whose callback is still on the stack (`window.hpp:117-119`).
* `EarlyCalls` in `Application` and `NoOversleep`: a call made before the wake
  view is realized arms the flag and loses the wake
  (`dispatcher_backend.cpp:93`).
* `Reentrant` in `Dialogs`, of whose properties only `CompletesOnce` then holds: a
  `complete` after a failed release clears the controller whatever it shows
  (`dialog.cpp:591-596`), so that a dialog shown again meanwhile is forgotten and
  the UI stays busy; a deactivation inside the notification of `show` abandons the
  dialog while its overlay handle is still empty, which leaves a modal overlay
  for nobody.

What the models do as the code does, and a reader of the code may not expect:

* D-Bus: a reply that is dispatched between the send and the installation of its
  notification is not noticed, and the call ends by its deadline.
  `subscribe_signal` may keep both mutexes for its whole time-out. `release_client`
  gives up when another thread's unregistration took a path of the client
  (`linux_dbus.cpp:2226-2240`), so that the rest stays until `stop`.
* D-Bus: the gate of a client and the flag of a subscription are read without a
  lock (`linux_dbus.cpp:470`, `:1161`) before the callback is entered (`:473`,
  `:1164`). `release_client`, `unsubscribe_signal` or `stop` on another thread may
  return in between, and the callback starts after them. On the dispatcher's own
  thread that cannot happen; for subscriptions this is `UnsubscribedIsSilent`, for
  calls the model has no dispatcher threads and the contract allows it. A
  `release_client` on the dispatcher's thread that overlaps another thread's
  `stop` returns with the subscriptions active until `stop` has joined the I/O
  thread, and `UnsubscribedIsSilent` does not take it for their end.
* Portal: a `Response` on a replaced handle that comes before the new subscription
  is installed is lost, and the request lasts until it is cancelled; a `cancel`
  before the replacement closes the predicted handle only; after the loss of the
  bus, requests whose call was answered last until they are cancelled.
* Tree: `UI::dispatch` begins the contact of a Down that the tree ignores
  (`ui.hpp:179-181`), which then lasts until the next Up; the frame of an older
  contact may overwrite the capture of a newer one with the same id
  (`tree_input.inc:92-94`); a removal that cuts an unfinished hover transition
  leaves observers untold (`tree_input.inc:400-402`); duplicate keys are refused
  before the focus registry is repaired.
* Toasts: a view that is deactivated and activated inside the publication of a
  message drops it at the next checkpoint. Overlays: `close` notifies before it
  erases; a `close_reconciled` that fails after its flush leaves an entry that is
  open and not mounted until it is retried.
* Animation: a timer armed by a start inside a tick may outlive the animation by
  one idle tick.
* Rendering: after a failed expose the tree keeps its damage, so a later
  invalidation it covers asks for no frame until the window system exposes the
  view (`DESIGN.md:303` says as much); with overlays, a frame that lays out asks
  for one more than it needs.

## 6. What is not modelled, and the plan

Not modelled on purpose: drawing, layout arithmetic, animation curves, codec and
event translation (data without behaviour over time), the native mechanisms
behind a wake and the browser loop (outside the repository's C++ core, abstracted
to one wake event), widgets (their protocols are those of the parts they use),
commands, styles, build files and examples. `PROJECT.json` says of every
component what is left out of it.

Not modelled yet, in the order of their interest:

| Module | Over | Properties aimed at |
|---|---|---|
| `FocusTransitions` | `HoverTransitions` as a pattern | paired enter and leave, nothing refers to a removed node, availability recovered (`tree_*_recovery.inc`) |
| `LayoutTransaction` | `TreeLifecycle` | staged bounds are committed or rolled back as a whole |
| `OverlayCommands` | `Dialogs` | a throwing notification (`overlay.hpp:337`) and its retry; tooltips (`tooltip.cpp:131`) |
| `RenderResources` | | the accounting of the cache agrees with its entries |
| `TextEdit`, `Collections` | | undo as inverse, stale compositions (`text_edit.hpp:253`); prepared commits refused by generation |

Proofs still to come, in this order:

* `Application`: type correctness, `RegistryAgrees` and `QuitsByPolicy`, then
  `NoOversleep`, which is the dispatcher's argument once per window with a
  shared wake;
* `Pointers`: `CapturesFollowContacts` and `NewerContactSurvives`;
* `DynamicComposition`: the contract, by the argument of `TreeLifecycle`;
* `RasterCache`: `ReusedIsCurrent`; `Toasts` and `Dialogs`: that completions are
  called once and that nothing is left over.

`PROJECT.json` lists the hazards the properties are aimed at, each at its line,
and those that no property covers yet with the reason.
