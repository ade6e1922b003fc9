----------------------------- MODULE Dispatcher -----------------------------
(***************************************************************************)
(* One logical UI dispatcher (src/src/dispatcher.cpp) under concurrency:    *)
(* worker threads post, schedule and cancel while the UI thread pumps its   *)
(* event loop.  Threads interleave at the critical sections of              *)
(* DispatcherState::mutex and at the wake request, which is made after the  *)
(* mutex is released.                                                       *)
(*                                                                          *)
(* The UI thread's control is a stack of pump frames: a callback run by a   *)
(* checkpoint is user code, and user code may pump the loop again.          *)
(* Rejections that change nothing (empty callback, queue full, closing, a   *)
(* bad_alloc before the enqueue) leave every variable alone and are         *)
(* stuttering steps.                                                        *)
(***************************************************************************)
EXTENDS DispatcherState

CONSTANTS
    Workers,     \* threads that only use the weak Dispatcher handle
    UI,          \* the thread that owns the event loop
    MaxDepth,    \* bound: how deep pumps nest
    NestedFrom,  \* the user code that pumps again: subset of UserCode
    MaxFaults    \* bound: allocation failures inside checkpoint()

UserCode == {"dispatch", "run"}

ASSUME ThreadsAssumption ==
    /\ UI \notin Workers
    /\ MaxDepth \in Nat \ {0}
    /\ NestedFrom \subseteq UserCode
    /\ MaxFaults \in Nat

VARIABLES
    d,            \* the DispatcherState record
    now,          \* the dispatcher clock
    native_wake,  \* a wake event sits in the native event queue
    call,         \* per thread: the Dispatcher call it is inside of
    frames,       \* the UI thread's stack of pumps, innermost last
    started,      \* ghost: sequence of the last callback that was started
    faults        \* allocation failures so far

vars == <<d, now, native_wake, call, frames, started, faults>>

Threads == Workers \cup {UI}

Call ==
    [op : {"none", "request", "signal"}] \cup
    {c \in [op : {"schedule"}, now : Time, delay : Time, repeating : BOOLEAN] :
        c.now + c.delay <= TimeMax}

NoCall  == [op |-> "none"]
Request == [op |-> "request"]
Signal  == [op |-> "signal"]

\* wait: in the native wait; dispatch: native events are being dispatched;
\* enter .. finish: inside DispatcherOwner::checkpoint.
Frame ==
    [pc : {"wait", "dispatch", "enter", "recover", "pop", "run", "unwind", "finish"},
     deadline : 0 .. NoDeadline,      \* bound_dispatch_timeout of this wait
     now : Time,                      \* clock->now() of this checkpoint
     left : 0 .. MaxTasksPerCheckpoint, \* callbacks it may still start
     frozen : Ids]                    \* ghost: next_task_sequence at the freeze

TypeOK ==
    /\ d \in DispatcherStates
    /\ IsFiniteSet(d.timers)
    /\ now \in Time
    /\ native_wake \in BOOLEAN
    /\ call \in [Threads -> Call]
    /\ frames \in Seq(Frame)
    /\ Len(frames) <= MaxDepth
    /\ started \in Ids
    /\ faults \in 0 .. MaxFaults

Init ==
    /\ d = NewDispatcherState
    /\ now = 0
    /\ native_wake = FALSE
    /\ call = [t \in Threads |-> NoCall]
    /\ frames = <<>>
    /\ started = 0
    /\ faults = 0

-----------------------------------------------------------------------------
(***************************************************************************)
(* Calls through the Dispatcher handle, from any thread.                    *)
(***************************************************************************)

Top == frames[Len(frames)]

\* The UI thread runs user code outside a pump, in a native event handler and
\* in a dispatcher callback.
InUserCode == frames # <<>> => Top.pc \in UserCode

CanCall(t) == call[t].op = "none" /\ (t = UI => InUserCode)

SetCall(t, c) == call' = [call EXCEPT ![t] = c]

\* Dispatcher::post up to the unlock.
Post(t) ==
    /\ CanCall(t)
    /\ ~d.closing
    /\ CanEnqueue(d)
    /\ d' = PostLocked(d)
    /\ SetCall(t, IF PostWakes(d) THEN Request ELSE NoCall)
    /\ UNCHANGED <<now, native_wake, frames, started, faults>>

\* schedule_dispatcher_timer reads the clock before it takes the mutex.
ScheduleBegin(t) ==
    /\ CanCall(t)
    /\ \E delay \in Time, repeating \in BOOLEAN :
        /\ repeating => delay > 0
        /\ CanAdd(now, delay)
        /\ SetCall(t, [op |-> "schedule", now |-> now, delay |-> delay,
                       repeating |-> repeating])
    /\ UNCHANGED <<d, now, native_wake, frames, started, faults>>

ScheduleCommit(t) ==
    /\ call[t].op = "schedule"
    /\ \/ /\ CanSchedule(d)
          /\ d' = ScheduleLocked(d, call[t].now, call[t].delay, call[t].repeating)
          /\ SetCall(t, IF d.wake_pending THEN NoCall ELSE Request)
       \/ /\ ~CanSchedule(d)
          /\ SetCall(t, NoCall)
          /\ UNCHANGED d
    /\ UNCHANGED <<now, native_wake, frames, started, faults>>

Cancel(t) ==
    /\ CanCall(t)
    /\ ~d.closing
    /\ \E timer \in d.timers : d' = CancelLocked(d, timer)
    /\ UNCHANGED <<now, native_wake, call, frames, started, faults>>

\* request_dispatcher_wake: the second critical section ...
RequestWake(t) ==
    /\ call[t].op = "request"
    /\ SetCall(t, IF d.closing \/ ~d.wake_pending THEN NoCall ELSE Signal)
    /\ UNCHANGED <<d, now, native_wake, frames, started, faults>>

\* ... and backend->request_wake() after it.
SignalBackend(t) ==
    /\ call[t].op = "signal"
    /\ native_wake' = TRUE
    /\ SetCall(t, NoCall)
    /\ UNCHANGED <<d, now, frames, started, faults>>

\* DispatcherOwner::shutdown, called by the owner's window on the UI thread.
Shutdown ==
    /\ CanCall(UI)
    /\ d' = ShutdownLocked(d)
    /\ UNCHANGED <<now, native_wake, call, frames, started, faults>>

ThreadStep(t) ==
    Post(t) \/ ScheduleBegin(t) \/ ScheduleCommit(t) \/ Cancel(t)
    \/ RequestWake(t) \/ SignalBackend(t)

-----------------------------------------------------------------------------
(***************************************************************************)
(* The pump of the event loop: bounded native wait, native dispatch, then   *)
(* DispatcherOwner::checkpoint.                                             *)
(***************************************************************************)

Push(frame) == frames' = Append(frames, frame)

SetTop(frame) == frames' = [frames EXCEPT ![Len(frames)] = frame]

PopTop == frames' = SubSeq(frames, 1, Len(frames) - 1)

\* The innermost pump is at pc and its thread is not inside a Dispatcher call.
At(pc) == frames # <<>> /\ Top.pc = pc /\ call[UI].op = "none"

\* The deadline of the wait is computed from next_delay before the wait.
PumpBegin ==
    /\ call[UI].op = "none"
    /\ frames # <<>> => Top.pc \in NestedFrom
    /\ Len(frames) < MaxDepth
    /\ Push([pc |-> "wait", deadline |-> NextDeadline(d, now), now |-> now,
             left |-> 0, frozen |-> d.next_task_sequence])
    /\ UNCHANGED <<d, now, native_wake, call, started, faults>>

LeaveWait == SetTop([Top EXCEPT !.pc = "dispatch"])

\* The wait ends because the native queue holds a wake, which is consumed.
WaitWoken ==
    /\ At("wait")
    /\ native_wake
    /\ native_wake' = FALSE
    /\ LeaveWait
    /\ UNCHANGED <<d, now, call, started, faults>>

WaitTimedOut ==
    /\ At("wait")
    /\ Top.deadline <= now
    /\ LeaveWait
    /\ UNCHANGED <<d, now, native_wake, call, started, faults>>

\* Any other native event, a shorter timeout asked for by poll(), or the
\* non-blocking pump of an EmbeddedView.
WaitInterrupted ==
    /\ At("wait")
    /\ LeaveWait
    /\ UNCHANGED <<d, now, native_wake, call, started, faults>>

\* A wake that arrives while native events are dispatched.
DispatchWake ==
    /\ At("dispatch")
    /\ native_wake
    /\ native_wake' = FALSE
    /\ UNCHANGED <<d, now, call, frames, started, faults>>

\* checkpoint() reads the clock, then takes the mutex.
CheckpointBegin ==
    /\ At("dispatch")
    /\ SetTop([Top EXCEPT !.pc = "enter", !.now = now])
    /\ UNCHANGED <<d, now, native_wake, call, started, faults>>

CheckpointClosed ==
    /\ At("enter")
    /\ d.closing
    /\ PopTop
    /\ UNCHANGED <<d, now, native_wake, call, started, faults>>

\* The first critical section: transfer the due timers, freeze the work.
CheckpointTransfer ==
    /\ At("enter")
    /\ ~d.closing
    /\ LET due == DueTimers(d, Top.now)
           k   == TransferLimit(d, due)
       IN \E f \in FiringOrders(due, k) :
            LET moved  == Transfer(d, Top.now, f, k)
                rewake == MustRewake(moved, k < Cardinality(due))
            IN /\ d' = IF rewake THEN ArmWake(moved) ELSE moved
               /\ SetCall(UI, IF rewake THEN Request ELSE NoCall)
               /\ SetTop([Top EXCEPT !.pc = "pop", !.left = FrozenWork(moved),
                                     !.frozen = moved.next_task_sequence])
    /\ UNCHANGED <<now, native_wake, started, faults>>

\* The same section when an allocation fails after k transfers.
CheckpointFails ==
    /\ At("enter")
    /\ ~d.closing
    /\ faults < MaxFaults
    /\ faults' = faults + 1
    /\ LET due == DueTimers(d, Top.now)
       IN /\ due # {}
          /\ \E k \in 0 .. TransferLimit(d, due) :
               /\ k = 0 \/ k < TransferLimit(d, due)
               /\ \E f \in FiringOrders(due, k) : d' = Transfer(d, Top.now, f, k)
    /\ SetTop([Top EXCEPT !.pc = "recover"])
    /\ UNCHANGED <<now, native_wake, call, started>>

\* The catch block: re-arm the wake, then rethrow out of checkpoint().
CheckpointRecover ==
    /\ At("recover")
    /\ d' = IF RecoverWake(d, Top.now) THEN ArmWake(d) ELSE d
    /\ SetCall(UI, IF RecoverWake(d, Top.now) THEN Request ELSE NoCall)
    /\ PopTop
    /\ UNCHANGED <<now, native_wake, started, faults>>

\* Mutant: callbacks run until the queue is empty.
StartTask_UntilEmpty ==
    /\ At("pop")
    /\ ~d.closing
    /\ d.tasks # <<>>
    /\ started' = Head(d.tasks).sequence
    /\ d' = PopFront(d)
    /\ SetTop([Top EXCEPT !.pc = "run"])
    /\ UNCHANGED <<now, native_wake, call, faults>>

StartTask ==
    /\ At("pop")
    /\ Top.left > 0
    /\ ~d.closing
    /\ d.tasks # <<>>
    /\ started' = Head(d.tasks).sequence
    /\ d' = PopFront(d)
    /\ SetTop([Top EXCEPT !.pc = "run", !.left = @ - 1])
    /\ UNCHANGED <<now, native_wake, call, faults>>

TasksDone ==
    /\ At("pop")
    /\ Top.left = 0 \/ d.closing \/ d.tasks = <<>>
    /\ SetTop([Top EXCEPT !.pc = "finish"])
    /\ UNCHANGED <<d, now, native_wake, call, started, faults>>

CallbackEnds ==
    /\ At("run")
    /\ \E pc \in {"pop", "unwind"} : SetTop([Top EXCEPT !.pc = pc])
    /\ UNCHANGED <<d, now, native_wake, call, started, faults>>

\* Mutants: the unwinding forgets the rest of the queue, or arms the flag and
\* forgets the wake.
CheckpointUnwind_NoRewake ==
    /\ At("unwind")
    /\ PopTop
    /\ UNCHANGED <<d, now, native_wake, call, started, faults>>

CheckpointUnwind_Silent ==
    /\ At("unwind")
    /\ d' = IF ~d.closing /\ d.tasks # <<>> THEN ArmWake(d) ELSE d
    /\ PopTop
    /\ UNCHANGED <<now, native_wake, call, started, faults>>

\* The callback threw: re-arm the wake for the rest, rethrow.
CheckpointUnwind ==
    /\ At("unwind")
    /\ LET rewake == ~d.closing /\ d.tasks # <<>>
       IN /\ d' = IF rewake THEN ArmWake(d) ELSE d
          /\ SetCall(UI, IF rewake THEN Request ELSE NoCall)
    /\ PopTop
    /\ UNCHANGED <<now, native_wake, started, faults>>

\* Mutant: work posted by the callbacks gets no wake.
CheckpointFinish_NoRewake ==
    /\ At("finish")
    /\ PopTop
    /\ UNCHANGED <<d, now, native_wake, call, started, faults>>

\* The last critical section: work posted by the callbacks needs a wake.
CheckpointFinish ==
    /\ At("finish")
    /\ LET rewake == ~d.closing /\ d.tasks # <<>> /\ ~d.wake_pending
       IN /\ d' = IF rewake THEN ArmWake(d) ELSE d
          /\ SetCall(UI, IF rewake THEN Request ELSE NoCall)
    /\ PopTop
    /\ UNCHANGED <<now, native_wake, started, faults>>

Tick ==
    /\ now < TimeMax
    /\ now' = now + 1
    /\ UNCHANGED <<d, native_wake, call, frames, started, faults>>

PumpStep ==
    \/ PumpBegin \/ WaitWoken \/ WaitTimedOut \/ WaitInterrupted
    \/ DispatchWake \/ CheckpointBegin \/ CheckpointClosed
    \/ CheckpointTransfer \/ CheckpointFails \/ CheckpointRecover
    \/ StartTask \/ TasksDone \/ CallbackEnds
    \/ CheckpointUnwind \/ CheckpointFinish

Next ==
    \/ \E t \in Threads : ThreadStep(t)
    \/ Shutdown
    \/ PumpStep
    \/ Tick

Spec == Init /\ [][Next]_vars

\* Scheduling: a thread inside a Dispatcher call finishes it, the native wait
\* ends when it is woken or times out, a checkpoint proceeds and time passes
\* (weak fairness).  The user code on the UI thread, which may call into the
\* Dispatcher before it is done, terminates: Application::run pumps again after
\* every pump, native handlers and dispatcher callbacks return or throw (strong
\* fairness).  Nothing makes a thread start a call, and nothing but a wake or
\* the deadline is sure to end a wait.
Fairness ==
    /\ \A t \in Threads : WF_vars(ScheduleCommit(t) \/ RequestWake(t) \/ SignalBackend(t))
    /\ WF_vars(WaitWoken \/ WaitTimedOut)
    /\ WF_vars(CheckpointClosed \/ CheckpointTransfer)
    /\ WF_vars(CheckpointRecover \/ CheckpointUnwind \/ CheckpointFinish)
    /\ WF_vars(StartTask \/ TasksDone)
    /\ WF_vars(Tick)
    /\ SF_vars(frames = <<>> /\ PumpBegin)
    /\ SF_vars(CheckpointBegin)
    /\ SF_vars(CallbackEnds)

FairSpec == Spec /\ Fairness

-----------------------------------------------------------------------------
(***************************************************************************)
(* Properties.                                                              *)
(***************************************************************************)

\* An accepted task is never stranded: while tasks are queued, either the wake
\* flag is armed or a checkpoint is active that arms it before it returns.
\* (post() does not wake for a queue that is not empty.)
NoStrandedTask ==
    ~d.closing /\ d.tasks # <<>> =>
        \/ d.wake_pending
        \/ \E i \in 1 .. Len(frames) :
              frames[i].pc \in {"recover", "pop", "run", "unwind", "finish"}

\* The armed flag suppresses the wakes of later posters, so it must never be
\* armed for nothing: a wake is in the native queue, a thread is about to put
\* one there, or a pump has taken one and not reached its checkpoint yet.
WakeInFlight ==
    d.wake_pending =>
        \/ native_wake
        \/ \E t \in Threads : call[t].op \in {"request", "signal"}
        \/ \E i \in 1 .. Len(frames) : frames[i].pc \in {"dispatch", "enter"}

\* The UI thread blocks in the native wait and nothing is about to wake it.
Asleep ==
    /\ At("wait")
    /\ now < Top.deadline
    /\ ~native_wake
    /\ \A t \in Threads : call[t].op \notin {"request", "signal"}

\* The loop never sleeps past accepted work: whatever was posted or scheduled
\* after the deadline of the wait was computed, while it is asleep no task is
\* queued and no timer is due before the deadline.
NoOversleep ==
    Asleep /\ ~d.closing =>
        /\ d.tasks = <<>>
        /\ \A timer \in d.timers : Top.deadline <= timer.due

\* What makes the last property inductive, together with the two before it:
\* only the innermost pump waits, a closed owner is empty and unarmed, and a
\* waiting pump either has something that ends its wait or computed its
\* deadline from everything there is.
OnlyTopWaits == \A i \in 1 .. Len(frames) - 1 : frames[i].pc \in NestedFrom

ClosedIsEmpty == d.closing => d.tasks = <<>> /\ d.timers = {} /\ ~d.wake_pending

WaitIsCovered ==
    frames # <<>> /\ Top.pc = "wait" /\ ~d.closing =>
        \/ native_wake
        \/ \E t \in Threads : call[t].op = "signal"
        \/ d.wake_pending
        \/ Top.deadline <= now
        \/ /\ d.tasks = <<>>
           /\ \A timer \in d.timers : Top.deadline <= timer.due

WakeInv == NoStrandedTask /\ WakeInFlight /\ OnlyTopWaits /\ ClosedIsEmpty /\ WaitIsCovered

\* The queue holds exactly the accepted tasks that were not started, in the
\* order they were accepted: no loss, duplication or reordering by concurrent
\* posts, timer firings, failed checkpoints, throwing callbacks or nested
\* pumps.
LastAccepted ==
    IF d.next_task_sequence = 0 THEN IdModulus - 1 ELSE d.next_task_sequence - 1

QueueIsUnstartedSuffix ==
    /\ \A i \in 1 .. Len(d.tasks) : d.tasks[i].sequence = started + i
    /\ ~d.closing => LastAccepted = started + Len(d.tasks)

\* The last firing of a timer (a one-shot, or a repeating timer whose next due
\* time cannot be represented) is never followed by another one: the timer is
\* not active any more and nothing later in the queue fires for it.  A
\* checkpoint that fails after some transfers must not replay them.
FinalFiringIsFinal ==
    \A i \in 1 .. Len(d.tasks) :
        d.tasks[i].timer # 0 /\ ~d.tasks[i].repeating =>
            /\ \A timer \in d.timers : timer.id # d.tasks[i].timer
            /\ \A j \in i + 1 .. Len(d.tasks) : d.tasks[j].timer # d.tasks[i].timer

\* The limits hold in every state, also after a batch of timer firings on top
\* of posted tasks.
QueueBounded == Len(d.tasks) <= MaxPendingTasks

LimitsHold == QueueBounded /\ Cardinality(d.timers) <= MaxActiveTimers

\* A checkpoint starts only callbacks of its fixed snapshot: work accepted
\* after the freeze is left to a later checkpoint, so callbacks that post
\* cannot keep one checkpoint running.
FixedSnapshot ==
    [][started' # started => Top.frozen = 0 \/ started' < Top.frozen]_vars

\* The dispatcher implements the bounded at-most-once FIFO executor: every step
\* of a thread or of the loop accepts tasks at the tail, starts the head,
\* closes the queue or is invisible to the users.
Queue == INSTANCE TaskQueue WITH
    Capacity <- MaxPendingTasks, LastNumber <- IdModulus - 1,
    accepted <- LastAccepted, begun <- started, closed <- d.closing

ImplementsTaskQueue == Queue!QueueSpec

\* Every accepted task is eventually started or discarded by shutdown.
Queued(s) == \E i \in 1 .. Len(d.tasks) : d.tasks[i].sequence = s

EveryTaskLeaves == \A s \in Ids : Queued(s) ~> ~Queued(s)

\* A timer that is due is eventually fired, cancelled or discarded, unless the
\* sequence numbers are exhausted.
IsDue(id) == \E timer \in d.timers : timer.id = id /\ timer.due <= now

EveryDueTimerFires ==
    \A id \in Ids : IsDue(id) ~> ~IsDue(id) \/ d.next_task_sequence = 0
=============================================================================
