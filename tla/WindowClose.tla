----------------------------- MODULE WindowClose -----------------------------
(***************************************************************************)
(* The close protocol of one StandaloneWindow                               *)
(* (src/src/detail/platform/standalone_window.cpp) and the phase and post   *)
(* states it is built from (window_control_state.hpp).                      *)
(*                                                                          *)
(* A close request or an accepted close is a phase of the window.  A task   *)
(* in the window's dispatcher only speeds it up: the post may fail, and     *)
(* whoever comes first, the task or the close-control section at the end    *)
(* of a pump, does the work.  User code runs in native handlers, dispatcher *)
(* tasks and both close callbacks, may request a close, destroy the window, *)
(* throw, and pump the loop again.                                          *)
(*                                                                          *)
(* The dispatcher is reduced to its queue: that a queued task ends the      *)
(* native wait is what module Dispatcher shows.  A missing veto callback is *)
(* one that accepts.                                                        *)
(***************************************************************************)
EXTENDS Naturals, Sequences

CONSTANTS
    QueueMax,      \* kDispatcherMaxPendingTasks
    CheckpointMax, \* kDispatcherMaxTasksPerCheckpoint
    AppOwned,      \* TRUE: Application::pump; FALSE: StandaloneWindow::poll
    UserThrows,    \* user tasks and on_closed may throw out of the pump
    NestedFrom,    \* the user code that pumps again
    MaxPumps       \* bound: how deep pumps nest

UserCode == {"handler", "task", "veto", "closed"}

CloseAssumption ==
    /\ QueueMax \in Nat \ {0}
    /\ CheckpointMax \in Nat \ {0}
    /\ AppOwned \in BOOLEAN
    /\ UserThrows \in BOOLEAN
    /\ NestedFrom \subseteq UserCode
    /\ MaxPumps \in Nat \ {0}

VARIABLES
    phase,             \* WindowCloseState
    request_posted,    \* close_request_post.posted_
    completion_posted, \* close_completion_post.posted_
    alive,             \* the lifetime token, which the destructor resets
    tasks,             \* the window's dispatcher queue
    wake,              \* a wake sits in the native queue (direct requests only)
    stack,             \* pumps and the user code they run, innermost last
    asked,             \* ghost: veto calls for the current native request
    notices            \* ghost: calls of on_closed

posts  == <<request_posted, completion_posted>>
ghosts == <<asked, notices>>
vars   == <<phase, posts, alive, tasks, wake, stack, ghosts>>

Phases == {"Open", "Requesting", "Pending", "Closed", "Teardown"}

\* A pump waits, dispatches native events, runs the dispatcher's checkpoint,
\* then the two steps of the close-control section.
PumpPoints == {"wait", "dispatch", "tasks", "controls", "complete"}

Activation ==
    [at : PumpPoints \cup UserCode,
     left : 0 .. CheckpointMax,   \* tasks the checkpoint may still start
     requested : BOOLEAN]         \* ghost: this callback called request_close

\* One record per pump and one per callback that is under way.
TypeOK ==
    /\ phase \in Phases
    /\ request_posted \in BOOLEAN /\ completion_posted \in BOOLEAN
    /\ alive \in BOOLEAN /\ wake \in BOOLEAN
    /\ tasks \in Seq({"request", "completion", "user"}) /\ Len(tasks) <= QueueMax
    /\ stack \in Seq(Activation)
    /\ asked \in 0 .. MaxPumps /\ notices \in Nat

Init ==
    /\ phase = "Open"
    /\ request_posted = FALSE /\ completion_posted = FALSE
    /\ alive = TRUE
    /\ tasks = <<>>
    /\ wake = FALSE
    /\ stack = <<>>
    /\ asked = 0 /\ notices = 0

-----------------------------------------------------------------------------
Top       == stack[Len(stack)]
At(point) == stack # <<>> /\ Top.at = point

\* User code on the UI thread: outside every pump or in a callback.
InUserCode == stack # <<>> => Top.at \in UserCode

Frame(point) == [at |-> point, left |-> 0, requested |-> FALSE]
Beneath      == SubSeq(stack, 1, Len(stack) - 1)
MoveTo(point) == [stack EXCEPT ![Len(stack)].at = point]

\* The dispatcher accepts a post; it may still fail to allocate.
Accepts == alive /\ phase \notin {"Closed", "Teardown"} /\ Len(tasks) < QueueMax

\* Mutant: a rejected post is never followed by a wake.
RejectionWakes_Never == FALSE

\* The owner's wake after a rejected post; a window that owns its loop has none.
RejectionWakes == AppOwned

\* Mutant: the posted bit survives a rejected post.
ScheduleCompletion_KeepsBit ==
    \/ /\ completion_posted
       /\ UNCHANGED <<posts, tasks, wake>>
    \/ /\ ~completion_posted
       /\ completion_posted' = TRUE
       /\ \/ /\ Accepts
             /\ tasks' = Append(tasks, "completion")
             /\ UNCHANGED wake
          \/ /\ wake' = (wake \/ RejectionWakes)
             /\ UNCHANGED tasks
       /\ UNCHANGED request_posted

\* schedule_close_completion in phase Pending.
ScheduleCompletion ==
    \/ /\ completion_posted
       /\ UNCHANGED <<posts, tasks, wake>>
    \/ /\ ~completion_posted
       /\ Accepts
       /\ completion_posted' = TRUE
       /\ tasks' = Append(tasks, "completion")
       /\ UNCHANGED <<request_posted, wake>>
    \/ /\ ~completion_posted
       /\ wake' = (wake \/ RejectionWakes)
       /\ UNCHANGED <<posts, tasks>>

\* complete_close in phase Pending, up to the call of on_closed: `base` is the
\* stack the callback runs on.
CompleteClose(base) ==
    /\ phase' = "Closed"
    /\ request_posted' = FALSE /\ completion_posted' = FALSE
    /\ tasks' = <<>>
    /\ stack' = Append(base, Frame("closed"))
    /\ notices' = notices + 1
    /\ UNCHANGED <<alive, wake, asked>>

\* process_native_close_request in phase Requesting, up to the veto callback.
AskVeto(base) ==
    /\ request_posted' = FALSE
    /\ stack' = Append(base, Frame("veto"))
    /\ asked' = asked + 1
    /\ UNCHANGED <<phase, completion_posted, alive, wake, notices>>

-----------------------------------------------------------------------------
(***************************************************************************)
(* Native close events and what user code may do.                           *)
(***************************************************************************)

\* handle_native_close_request: a close event while native events are
\* dispatched.  Outside phase Open it is dropped.  A request can be posted in
\* phase Open only when a nested pump took in a newer request than the one an
\* outer veto callback answered.
NativeClose ==
    /\ At("dispatch")
    /\ alive
    /\ phase = "Open"
    /\ phase' = "Requesting"
    /\ asked' = 0
    /\ \/ /\ request_posted
          /\ UNCHANGED <<posts, tasks, wake>>
       \/ /\ ~request_posted
          /\ Accepts
          /\ request_posted' = TRUE
          /\ tasks' = Append(tasks, "request")
          /\ UNCHANGED <<completion_posted, wake>>
       \/ /\ ~request_posted
          /\ wake' = (wake \/ RejectionWakes)
          /\ UNCHANGED <<posts, tasks>>
    /\ UNCHANGED <<alive, stack, notices>>

\* Mutant: a rejected post falls back to a synchronous close.
RequestClose_Synchronous ==
    /\ InUserCode
    /\ alive
    /\ phase \in {"Open", "Requesting"}
    /\ CompleteClose(IF stack = <<>> THEN stack
                     ELSE [stack EXCEPT ![Len(stack)].requested = TRUE])

\* request_close: a programmatic close skips the veto.
RequestClose ==
    /\ InUserCode
    /\ alive
    /\ phase \in {"Open", "Requesting"}
    /\ phase' = "Pending"
    /\ ScheduleCompletion
    /\ stack' = IF stack = <<>> THEN stack
                ELSE [stack EXCEPT ![Len(stack)].requested = TRUE]
    /\ UNCHANGED <<alive, ghosts>>

\* The destructor, outside the pumps or in a callback that allows it.
Destroy ==
    /\ InUserCode /\ ~At("handler")
    /\ alive
    /\ alive' = FALSE
    /\ phase' = IF phase = "Closed" THEN "Closed" ELSE "Teardown"
    /\ request_posted' = FALSE /\ completion_posted' = FALSE
    /\ tasks' = <<>>
    /\ UNCHANGED <<wake, stack, ghosts>>

\* Any thread posts an ordinary task.
UserPost ==
    /\ Accepts
    /\ tasks' = Append(tasks, "user")
    /\ UNCHANGED <<phase, posts, alive, wake, stack, ghosts>>

-----------------------------------------------------------------------------
(***************************************************************************)
(* The pump.                                                                *)
(***************************************************************************)

Pumps == Len(SelectSeq(stack, LAMBDA a : a.at \in PumpPoints))

PumpBegin ==
    /\ alive /\ phase # "Closed"
    /\ stack # <<>> => Top.at \in NestedFrom
    /\ Pumps < MaxPumps
    /\ stack' = Append(stack, Frame("wait"))
    /\ UNCHANGED <<phase, posts, alive, tasks, wake, ghosts>>

\* Mutant: the wait of a window that owns its loop ignores close work.
CloseControlReady_Never == FALSE

\* StandaloneWindow::poll does not block with close work to do.
CloseControlReady == ~AppOwned /\ phase \in {"Requesting", "Pending"}

WaitEnds ==
    /\ At("wait")
    /\ wake \/ tasks # <<>> \/ CloseControlReady
    /\ wake' = FALSE
    /\ stack' = MoveTo("dispatch")
    /\ UNCHANGED <<phase, posts, alive, tasks, ghosts>>

\* Another native event or a timeout.
WaitInterrupted ==
    /\ At("wait")
    /\ stack' = MoveTo("dispatch")
    /\ UNCHANGED <<phase, posts, alive, tasks, wake, ghosts>>

\* A wake requested by a native handler may be taken by the same dispatch.
DispatchWake ==
    /\ At("dispatch")
    /\ wake
    /\ wake' = FALSE
    /\ UNCHANGED <<phase, posts, alive, tasks, stack, ghosts>>

HandlerBegins ==
    /\ At("dispatch")
    /\ stack' = Append(stack, Frame("handler"))
    /\ UNCHANGED <<phase, posts, alive, tasks, wake, ghosts>>

\* Mutant: the checkpoint has no limit.
DispatchDone_NoLimit ==
    /\ At("dispatch")
    /\ stack' = [stack EXCEPT ![Len(stack)] =
           [@ EXCEPT !.at = "tasks", !.left = Len(tasks)]]
    /\ UNCHANGED <<phase, posts, alive, tasks, wake, ghosts>>

\* DispatcherOwner::checkpoint freezes the number of tasks it may start.
DispatchDone ==
    /\ At("dispatch")
    /\ stack' = [stack EXCEPT ![Len(stack)] =
           [@ EXCEPT !.at = "tasks",
                     !.left = IF Len(tasks) < CheckpointMax THEN Len(tasks)
                                                            ELSE CheckpointMax]]
    /\ UNCHANGED <<phase, posts, alive, tasks, wake, ghosts>>

Popped == [stack EXCEPT ![Len(stack)].left = @ - 1]

CanRunTask == At("tasks") /\ Top.left > 0 /\ tasks # <<>>

RunUserTask ==
    /\ CanRunTask
    /\ Head(tasks) = "user"
    /\ tasks' = Tail(tasks)
    /\ stack' = Append(Popped, Frame("task"))
    /\ UNCHANGED <<phase, posts, alive, wake, ghosts>>

\* Mutant: a stale request task asks without looking at the phase.
RunRequestTask_NoRecheck ==
    /\ CanRunTask
    /\ Head(tasks) = "request"
    /\ tasks' = Tail(tasks)
    /\ AskVeto(Popped)

\* The posted request: the control section may have served it already.
RunRequestTask ==
    /\ CanRunTask
    /\ Head(tasks) = "request"
    /\ tasks' = Tail(tasks)
    /\ \/ /\ phase = "Requesting"
          /\ AskVeto(Popped)
       \/ /\ phase # "Requesting"
          /\ request_posted' = FALSE
          /\ stack' = Popped
          /\ UNCHANGED <<phase, completion_posted, alive, wake, ghosts>>

\* The posted completion runs in phase Pending: any other way to leave that
\* phase empties the queue.
RunCompletionTask ==
    /\ CanRunTask
    /\ Head(tasks) = "completion"
    /\ phase = "Pending"
    /\ CompleteClose(Popped)

TasksDone ==
    /\ At("tasks")
    /\ Top.left = 0 \/ tasks = <<>>
    /\ stack' = MoveTo("controls")
    /\ UNCHANGED <<phase, posts, alive, tasks, wake, ghosts>>

\* Mutant: the control section leaves requests to the posted task.
Controls_OnlyCompletes ==
    /\ At("controls")
    /\ stack' = MoveTo("complete")
    /\ UNCHANGED <<phase, posts, alive, tasks, wake, ghosts>>

\* The close-control section of the owner, first half.
Controls ==
    /\ At("controls")
    /\ \/ /\ alive /\ phase = "Requesting"
          /\ AskVeto(MoveTo("complete"))
          /\ UNCHANGED tasks
       \/ /\ ~(alive /\ phase = "Requesting")
          /\ stack' = MoveTo("complete")
          /\ UNCHANGED <<phase, posts, alive, tasks, wake, ghosts>>

\* Mutant: the control section leaves completions to the posted task.
Complete_OnlyReturns ==
    /\ At("complete")
    /\ stack' = Beneath
    /\ UNCHANGED <<phase, posts, alive, tasks, wake, ghosts>>

\* Second half; the pump returns when there is nothing left to complete.
Complete ==
    /\ At("complete")
    /\ \/ /\ alive /\ phase = "Pending"
          /\ CompleteClose(stack)
       \/ /\ ~(alive /\ phase = "Pending")
          /\ stack' = Beneath
          /\ UNCHANGED <<phase, posts, alive, tasks, wake, ghosts>>

\* The veto callback answers; an exception counts as Cancel.  The answer only
\* counts while the window exists and the request still stands.
VetoReturns ==
    /\ At("veto")
    /\ stack' = Beneath
    /\ \/ /\ alive /\ phase = "Requesting"
          /\ \/ /\ phase' = "Open"
                /\ UNCHANGED <<posts, tasks, wake>>
             \/ /\ phase' = "Pending"
                /\ ScheduleCompletion
       \/ /\ alive /\ phase = "Pending"
          /\ ScheduleCompletion
          /\ UNCHANGED phase
       \/ /\ ~(alive /\ phase \in {"Requesting", "Pending"})
          /\ UNCHANGED <<phase, posts, tasks, wake>>
    /\ UNCHANGED <<alive, ghosts>>

CallbackReturns ==
    /\ \E point \in {"handler", "task", "closed"} : At(point)
    /\ stack' = Beneath
    /\ UNCHANGED <<phase, posts, alive, tasks, wake, ghosts>>

\* An exception leaves the checkpoint or the control section and the pump.
CallbackThrows ==
    /\ UserThrows
    /\ At("task") \/ At("closed")
    /\ stack' = SubSeq(stack, 1, Len(stack) - 2)
    /\ UNCHANGED <<phase, posts, alive, tasks, wake, ghosts>>

UserStep == RequestClose \/ Destroy \/ UserPost

PumpStep ==
    \/ NativeClose \/ PumpBegin \/ WaitEnds \/ WaitInterrupted
    \/ DispatchWake \/ HandlerBegins \/ DispatchDone
    \/ RunUserTask \/ RunRequestTask \/ RunCompletionTask \/ TasksDone
    \/ Controls \/ Complete
    \/ VetoReturns \/ CallbackReturns \/ CallbackThrows

Next == UserStep \/ PumpStep

Spec == Init /\ [][Next]_vars

\* The application pumps again while the window is open, user code returns,
\* native dispatch ends, and the native wait ends when something wakes it.
\* Other native events may never come.
Fairness ==
    /\ SF_vars(stack = <<>> /\ PumpBegin)
    /\ WF_vars(WaitEnds)
    /\ SF_vars(DispatchDone)
    /\ WF_vars(RunUserTask \/ RunRequestTask \/ RunCompletionTask \/ TasksDone)
    /\ WF_vars(Controls \/ Complete)
    /\ SF_vars(VetoReturns)
    /\ SF_vars(CallbackReturns)

FairSpec == Spec /\ Fairness

-----------------------------------------------------------------------------
(***************************************************************************)
(* Properties.                                                              *)
(***************************************************************************)

InProgress(point) == \E i \in 1 .. Len(stack) : stack[i].at = point

\* A native close request is put to the veto callback once, whichever of the
\* posted task and the control section comes first.
AskedOnce == asked <= 1

\* The window as its contract sees it.
Status ==
    CASE ~alive               -> "destroyed"
      [] phase = "Open"       -> "open"
      [] phase = "Requesting" -> "asking"
      [] phase = "Pending"    -> "accepted"
      [] OTHER                -> "closed"

Contract == INSTANCE CloseContract WITH status <- Status, asks <- asked

\* The window keeps the close contract: one question per native request, an
\* accepted close that no later answer takes back, one on_closed, silence
\* after destruction.
ImplementsCloseContract == Contract!ContractSpec

\* The posted bits suppress later posts, so a bit that is set stands for a
\* task in the queue; and a queued completion always finds the close pending.
PostedMeansQueued ==
    LET queued == {tasks[i] : i \in 1 .. Len(tasks)}
    IN  /\ request_posted => "request" \in queued
        /\ completion_posted => "completion" \in queued
        /\ "completion" \in queued => phase = "Pending"

\* The close completes after the callback that requested it has unwound, also
\* when the posts of the completion are rejected.
CompletionUnwound ==
    phase = "Closed" => \A i \in 1 .. Len(stack) :
        stack[i].requested => stack[i].at = "closed"

\* The loop does not fall asleep on close work: a phase that waits for the
\* control section ends the wait, or a task or wake does.
Asleep == At("wait") /\ ~wake /\ tasks = <<>> /\ ~CloseControlReady

NoSleepOnDurableClose ==
    Asleep /\ alive =>
        /\ phase # "Pending"
        /\ phase = "Requesting" => InProgress("veto")

\* Every native close request is eventually answered by the veto callback.
RequestAnswered == phase = "Requesting" ~> phase # "Requesting"

\* Every accepted close completes, unless the window is destroyed first.
AcceptedCloses == phase = "Pending" ~> phase \in {"Closed", "Teardown"}
=============================================================================
