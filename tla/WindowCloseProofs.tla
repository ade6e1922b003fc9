--------------------------- MODULE WindowCloseProofs ---------------------------
(***************************************************************************)
(* Proofs about WindowClose.  That a posted bit stands for a task in the    *)
(* queue needs nothing else.  The rest is proved for user code that does    *)
(* not pump again, where the stack is a pump and at most one callback: what *)
(* a nested pump breaks is shown by TLC.                                    *)
(***************************************************************************)
EXTENDS WindowClose, TLAPS

-----------------------------------------------------------------------------
(***************************************************************************)
(* The queue and the posted bits, however deep pumps nest.                  *)
(***************************************************************************)
\* TypeOK without the stack and the ghosts.
Known ==
    /\ phase \in Phases
    /\ request_posted \in BOOLEAN /\ completion_posted \in BOOLEAN
    /\ alive \in BOOLEAN /\ wake \in BOOLEAN
    /\ tasks \in Seq({"request", "completion", "user"}) /\ Len(tasks) <= QueueMax

Queued(t) == {t[i] : i \in 1 .. Len(t)}

\* PostedMeansQueued, in terms of Queued.
Posted ==
    /\ request_posted => "request" \in Queued(tasks)
    /\ completion_posted => "completion" \in Queued(tasks)
    /\ "completion" \in Queued(tasks) => phase = "Pending"

\* A window that is closed or gone has no tasks.
Gone ==
    /\ ~alive => tasks = <<>> /\ phase \in {"Closed", "Teardown"}
    /\ phase = "Closed" => tasks = <<>>
    /\ alive => phase # "Teardown"

Queue == Known /\ Posted /\ Gone

\* What the queue holds after a post, and before a task is taken.
LEMMA QueuedAppend ==
  ASSUME NEW S, NEW t \in Seq(S), NEW x
  PROVE  Queued(Append(t, x)) = Queued(t) \cup {x}
  <1>1. /\ Len(Append(t, x)) = Len(t) + 1 /\ Len(t) \in Nat
        /\ \A i \in 1 .. Len(t) : Append(t, x)[i] = t[i]
        /\ Append(t, x)[Len(t) + 1] = x
    OBVIOUS
  <1>2. 1 .. Len(t) + 1 = (1 .. Len(t)) \cup {Len(t) + 1}
    BY <1>1
  <1> QED
    BY <1>1, <1>2 DEF Queued

LEMMA QueuedTail ==
  ASSUME NEW S, NEW t \in Seq(S), t # <<>>
  PROVE  /\ Queued(t) = {Head(t)} \cup Queued(Tail(t))
         /\ Tail(t) \in Seq(S) /\ Len(Tail(t)) < Len(t)
  <1>1. /\ Len(t) \in Nat /\ Len(t) > 0 /\ Len(Tail(t)) = Len(t) - 1
        /\ Tail(t) \in Seq(S) /\ Head(t) = t[1]
        /\ \A i \in 1 .. Len(t) - 1 : Tail(t)[i] = t[i + 1]
    OBVIOUS
  <1>2. ASSUME NEW y \in Queued(t) PROVE y \in {Head(t)} \cup Queued(Tail(t))
    <2>1. PICK i \in 1 .. Len(t) : y = t[i]
      BY DEF Queued
    <2>2. CASE i = 1
      BY <1>1, <2>1, <2>2
    <2>3. CASE i # 1
      <3>1. i - 1 \in 1 .. Len(t) - 1 /\ (i - 1) + 1 = i
        BY <1>1, <2>1, <2>3
      <3>2. y = Tail(t)[i - 1]
        BY <1>1, <2>1, <3>1
      <3> QED
        BY <1>1, <3>1, <3>2 DEF Queued
    <2> QED
      BY <2>2, <2>3
  <1>3. ASSUME NEW y \in {Head(t)} \cup Queued(Tail(t)) PROVE y \in Queued(t)
    <2>1. CASE y = Head(t)
      BY <1>1, <2>1 DEF Queued
    <2>2. CASE y \in Queued(Tail(t))
      <3>1. PICK i \in 1 .. Len(t) - 1 : y = Tail(t)[i]
        BY <1>1, <2>2 DEF Queued
      <3>2. i + 1 \in 1 .. Len(t) /\ y = t[i + 1]
        BY <1>1, <3>1
      <3> QED
        BY <3>2 DEF Queued
    <2> QED
      BY <2>1, <2>2
  <1> QED
    BY <1>1, <1>2, <1>3

LEMMA QueuedNone == Queued(<<>>) = {}
  BY DEF Queued

\* A post of a task of kind x.
Adds(x) == Accepts /\ tasks' = Append(tasks, x)

LEMMA Added ==
  ASSUME Known, CloseAssumption, NEW x \in {"request", "completion", "user"}, Adds(x)
  PROVE  /\ tasks' \in Seq({"request", "completion", "user"}) /\ Len(tasks') <= QueueMax
         /\ Queued(tasks') = Queued(tasks) \cup {x} /\ tasks' # <<>>
         /\ alive /\ phase \notin {"Closed", "Teardown"}
  <1>1. /\ tasks \in Seq({"request", "completion", "user"}) /\ Len(tasks) < QueueMax
        /\ tasks' = Append(tasks, x) /\ Len(tasks) <= QueueMax
        /\ alive /\ phase \notin {"Closed", "Teardown"}
    BY DEF Known, Adds, Accepts
  <1>2. Queued(tasks') = Queued(tasks) \cup {x}
    BY <1>1, QueuedAppend
  <1>3. /\ tasks' \in Seq({"request", "completion", "user"})
        /\ Len(tasks') = Len(tasks) + 1 /\ Len(tasks) \in Nat
    BY <1>1
  <1>4. Len(tasks') <= QueueMax
    <2>1. QueueMax \in Nat
      BY DEF CloseAssumption
    <2> QED
      BY <1>1, <1>3, <2>1
  <1> QED
    BY <1>1, <1>2, <1>3, <1>4

\* A task of kind x is taken.
Takes(x) == tasks # <<>> /\ Head(tasks) = x /\ tasks' = Tail(tasks)

LEMMA Taken ==
  ASSUME Known, CloseAssumption, NEW x, Takes(x)
  PROVE  /\ tasks' \in Seq({"request", "completion", "user"}) /\ Len(tasks') <= QueueMax
         /\ Queued(tasks) = Queued(tasks') \cup {x}
         /\ tasks # <<>>
  <1>1. /\ tasks \in Seq({"request", "completion", "user"}) /\ tasks # <<>>
        /\ tasks' = Tail(tasks) /\ Head(tasks) = x /\ Len(tasks) <= QueueMax
    BY DEF Known, Takes
  <1>2. /\ Queued(tasks) = {x} \cup Queued(tasks') /\ Len(tasks') < Len(tasks)
        /\ tasks' \in Seq({"request", "completion", "user"})
    BY <1>1, QueuedTail
  <1>3. Len(tasks') <= QueueMax
    <2>1. QueueMax \in Nat /\ Len(tasks) \in Nat /\ Len(tasks') \in Nat
      BY <1>1, <1>2 DEF CloseAssumption
    <2> QED
      BY <1>1, <1>2, <2>1
  <1> QED
    BY <1>1, <1>2, <1>3

\* What an action does to the queue.
QuietQueue == UNCHANGED <<phase, posts, alive, tasks>>

\* schedule_close_completion leaves the task in the queue, or nothing is posted.
Schedules ==
    /\ UNCHANGED request_posted
    /\ \/ completion_posted /\ UNCHANGED <<completion_posted, tasks, wake>>
       \/ ~completion_posted /\ Adds("completion") /\ completion_posted' = TRUE /\ UNCHANGED wake
       \/ /\ ~completion_posted /\ wake' = (wake \/ RejectionWakes)
          /\ UNCHANGED <<completion_posted, tasks>>

\* The close completes, from phase Pending.
Completes ==
    /\ phase = "Pending" /\ phase' = "Closed"
    /\ request_posted' = FALSE /\ completion_posted' = FALSE
    /\ tasks' = <<>>
    /\ UNCHANGED alive

LEMMA PumpBeginQueue ==
  ASSUME PumpBegin
  PROVE  QuietQueue
  BY DEF PumpBegin, QuietQueue

LEMMA WaitEndsQueue ==
  ASSUME WaitEnds
  PROVE  QuietQueue
  BY DEF WaitEnds, QuietQueue

LEMMA WaitInterruptedQueue ==
  ASSUME WaitInterrupted
  PROVE  QuietQueue
  BY DEF WaitInterrupted, QuietQueue

LEMMA DispatchWakeQueue ==
  ASSUME DispatchWake
  PROVE  QuietQueue
  BY DEF DispatchWake, QuietQueue

LEMMA HandlerBeginsQueue ==
  ASSUME HandlerBegins
  PROVE  QuietQueue
  BY DEF HandlerBegins, QuietQueue

LEMMA DispatchDoneQueue ==
  ASSUME DispatchDone
  PROVE  QuietQueue
  BY DEF DispatchDone, QuietQueue

LEMMA TasksDoneQueue ==
  ASSUME TasksDone
  PROVE  QuietQueue
  BY DEF TasksDone, QuietQueue

LEMMA CallbackReturnsQueue ==
  ASSUME CallbackReturns
  PROVE  QuietQueue
  BY DEF CallbackReturns, QuietQueue

LEMMA CallbackThrowsQueue ==
  ASSUME CallbackThrows
  PROVE  QuietQueue
  BY DEF CallbackThrows, QuietQueue

LEMMA ScheduleQueue ==
  ASSUME ScheduleCompletion
  PROVE  Schedules
  BY DEF ScheduleCompletion, Schedules, Adds, posts

LEMMA RequestCloseQueue ==
  ASSUME RequestClose
  PROVE  /\ alive /\ phase \in {"Open", "Requesting"} /\ phase' = "Pending"
         /\ Schedules /\ UNCHANGED alive
  BY ScheduleQueue DEF RequestClose

LEMMA DestroyQueue ==
  ASSUME Destroy
  PROVE  /\ alive' = FALSE /\ alive
         /\ phase' = (IF phase = "Closed" THEN "Closed" ELSE "Teardown")
         /\ request_posted' = FALSE /\ completion_posted' = FALSE /\ tasks' = <<>>
         /\ UNCHANGED wake
  BY DEF Destroy

LEMMA UserPostQueue ==
  ASSUME UserPost
  PROVE  Adds("user") /\ UNCHANGED <<phase, posts, alive, wake>>
  BY DEF UserPost, Adds

LEMMA NativeCloseQueue ==
  ASSUME NativeClose
  PROVE  /\ alive /\ phase = "Open" /\ phase' = "Requesting"
         /\ UNCHANGED <<completion_posted, alive>>
         /\ \/ request_posted /\ UNCHANGED <<request_posted, tasks, wake>>
            \/ Adds("request") /\ request_posted' = TRUE /\ UNCHANGED wake
            \/ /\ ~request_posted /\ wake' = (wake \/ RejectionWakes)
               /\ UNCHANGED <<request_posted, tasks>>
  BY DEF NativeClose, Adds, posts

LEMMA RunUserTaskQueue ==
  ASSUME RunUserTask
  PROVE  Takes("user") /\ UNCHANGED <<phase, posts, alive, wake>>
  BY DEF RunUserTask, CanRunTask, Takes

LEMMA RunRequestTaskQueue ==
  ASSUME RunRequestTask
  PROVE  /\ Takes("request") /\ request_posted' = FALSE
         /\ UNCHANGED <<phase, completion_posted, alive, wake>>
  BY DEF RunRequestTask, CanRunTask, Takes, AskVeto

LEMMA RunCompletionTaskQueue ==
  ASSUME RunCompletionTask
  PROVE  Completes /\ UNCHANGED wake
  BY DEF RunCompletionTask, CompleteClose, Completes

LEMMA ControlsQueue ==
  ASSUME Controls
  PROVE  /\ UNCHANGED <<phase, completion_posted, alive, tasks, wake>>
         /\ request_posted' = FALSE \/ UNCHANGED request_posted
  BY DEF Controls, AskVeto, posts

LEMMA CompleteQueue ==
  ASSUME Complete
  PROVE  (Completes \/ QuietQueue) /\ UNCHANGED wake
  BY DEF Complete, CompleteClose, Completes, QuietQueue

LEMMA VetoReturnsQueue ==
  ASSUME VetoReturns
  PROVE  /\ \/ alive /\ phase = "Requesting" /\ phase' = "Open" /\ UNCHANGED <<posts, tasks, wake>>
            \/ alive /\ phase \in {"Requesting", "Pending"} /\ phase' = "Pending" /\ Schedules
            \/ /\ ~(alive /\ phase \in {"Requesting", "Pending"})
               /\ UNCHANGED <<phase, posts, tasks, wake>>
         /\ UNCHANGED alive
  BY ScheduleQueue DEF VetoReturns

\* The completion is scheduled in phase Pending.
LEMMA Scheduled ==
  ASSUME CloseAssumption, Queue, Schedules, phase' = "Pending", alive' = alive, alive,
         phase \in {"Open", "Requesting", "Pending"}
  PROVE  Queue' /\ (wake' \/ tasks' # <<>> \/ ~RejectionWakes)
  <1>1. CASE completion_posted /\ UNCHANGED <<completion_posted, tasks, wake>>
    <2>1. tasks # <<>>
      BY <1>1, QueuedNone DEF Queue, Posted
    <2> QED
      BY <1>1, <2>1 DEF Queue, Known, Posted, Gone, Schedules, Phases
  <1>2. CASE Adds("completion") /\ completion_posted' = TRUE /\ UNCHANGED wake
    <2>1. /\ tasks' \in Seq({"request", "completion", "user"}) /\ Len(tasks') <= QueueMax
          /\ Queued(tasks') = Queued(tasks) \cup {"completion"} /\ tasks' # <<>>
      BY <1>2, Added DEF Queue
    <2> QED
      BY <1>2, <2>1 DEF Queue, Known, Posted, Gone, Schedules, Phases
  <1>3. CASE wake' = (wake \/ RejectionWakes) /\ UNCHANGED <<completion_posted, tasks>>
    <2>1. wake' \in BOOLEAN /\ (wake' \/ ~RejectionWakes)
      BY <1>3
    <2> QED
      BY <1>3, <2>1 DEF Queue, Known, Posted, Gone, Schedules, Phases
  <1> QED
    BY <1>1, <1>2, <1>3 DEF Schedules

\* The close completes.
LEMMA Completed ==
  ASSUME Queue, Completes, CloseAssumption, wake' \in BOOLEAN
  PROVE  Queue'
  <1>1. Len(<<>>) = 0 /\ 0 <= QueueMax /\ <<>> \in Seq({"request", "completion", "user"})
    BY DEF CloseAssumption
  <1>2. Queued(tasks') = {} /\ tasks' = <<>>
    BY QueuedNone DEF Completes
  <1>3. alive
    BY DEF Queue, Gone, Completes
  <1> QED
    BY <1>1, <1>2, <1>3 DEF Queue, Known, Posted, Gone, Completes, Phases

\* Every step keeps the queue and the posted bits together.
LEMMA QueueKept ==
  ASSUME CloseAssumption, Queue, [Next]_vars
  PROVE  Queue'
  <1>0. Queue /\ Known /\ Posted /\ Gone /\ CloseAssumption
    BY DEF Queue
  <1>1. CASE RequestClose
    BY <1>1, RequestCloseQueue, <1>0, Scheduled DEF Queue, Known, Posted, Gone, posts, Phases
  <1>2. CASE Destroy

    <2>1. Len(<<>>) = 0 /\ 0 <= QueueMax /\ <<>> \in Seq({"request", "completion", "user"})
      BY <1>0 DEF CloseAssumption
    <2>2. Queued(tasks') = {} /\ tasks' = <<>>
      BY <1>2, QueuedNone, DestroyQueue
    <2> QED
      BY <1>2, <1>0, <2>1, <2>2, DestroyQueue DEF Queue, Known, Posted, Gone, Phases
  <1>3. CASE UserPost

    <2>1. /\ tasks' \in Seq({"request", "completion", "user"}) /\ Len(tasks') <= QueueMax
          /\ Queued(tasks') = Queued(tasks) \cup {"user"} /\ tasks' # <<>>
          /\ alive /\ phase \notin {"Closed", "Teardown"}
      BY <1>3, <1>0, UserPostQueue, Added
    <2> QED
      BY <1>3, <1>0, <2>1, UserPostQueue DEF Queue, Known, Posted, Gone, posts, Phases
  <1>4. CASE NativeClose

    <2>1. CASE Adds("request") /\ request_posted' = TRUE /\ UNCHANGED wake
      <3>1. /\ tasks' \in Seq({"request", "completion", "user"}) /\ Len(tasks') <= QueueMax
            /\ Queued(tasks') = Queued(tasks) \cup {"request"} /\ tasks' # <<>>
        BY <1>0, <2>1, Added
      <3> QED
        BY <1>4, <1>0, <2>1, <3>1, NativeCloseQueue DEF Queue, Known, Posted, Gone, Phases
    <2>2. CASE UNCHANGED <<request_posted, tasks>> /\ wake' \in BOOLEAN
      BY <1>4, <1>0, <2>2, NativeCloseQueue DEF Queue, Known, Posted, Gone, Phases
    <2> QED
      BY <1>4, <1>0, <2>1, <2>2, NativeCloseQueue DEF Known
  <1>5. CASE PumpBegin

    <2>1. QuietQueue /\ wake' \in BOOLEAN
      BY <1>5, <1>0, PumpBeginQueue DEF Known, PumpBegin
    <2> QED
      BY <1>0, <2>1 DEF QuietQueue, Queue, Known, Posted, Gone, posts, Phases
  <1>6. CASE WaitEnds

    <2>1. QuietQueue /\ wake' \in BOOLEAN
      BY <1>6, <1>0, WaitEndsQueue DEF Known, WaitEnds
    <2> QED
      BY <1>0, <2>1 DEF QuietQueue, Queue, Known, Posted, Gone, posts, Phases
  <1>7. CASE WaitInterrupted

    <2>1. QuietQueue /\ wake' \in BOOLEAN
      BY <1>7, <1>0, WaitInterruptedQueue DEF Known, WaitInterrupted
    <2> QED
      BY <1>0, <2>1 DEF QuietQueue, Queue, Known, Posted, Gone, posts, Phases
  <1>8. CASE DispatchWake

    <2>1. QuietQueue /\ wake' \in BOOLEAN
      BY <1>8, <1>0, DispatchWakeQueue DEF Known, DispatchWake
    <2> QED
      BY <1>0, <2>1 DEF QuietQueue, Queue, Known, Posted, Gone, posts, Phases
  <1>9. CASE HandlerBegins

    <2>1. QuietQueue /\ wake' \in BOOLEAN
      BY <1>9, <1>0, HandlerBeginsQueue DEF Known, HandlerBegins
    <2> QED
      BY <1>0, <2>1 DEF QuietQueue, Queue, Known, Posted, Gone, posts, Phases
  <1>10. CASE DispatchDone

    <2>1. QuietQueue /\ wake' \in BOOLEAN
      BY <1>10, <1>0, DispatchDoneQueue DEF Known, DispatchDone
    <2> QED
      BY <1>0, <2>1 DEF QuietQueue, Queue, Known, Posted, Gone, posts, Phases
  <1>11. CASE RunUserTask

    <2>1. /\ tasks' \in Seq({"request", "completion", "user"}) /\ Len(tasks') <= QueueMax
          /\ Queued(tasks) = Queued(tasks') \cup {"user"} /\ tasks # <<>>
      BY <1>11, <1>0, RunUserTaskQueue, Taken
    <2> QED
      BY <1>11, <1>0, <2>1, RunUserTaskQueue DEF Queue, Known, Posted, Gone, posts, Phases
  <1>12. CASE RunRequestTask

    <2>1. /\ tasks' \in Seq({"request", "completion", "user"}) /\ Len(tasks') <= QueueMax
          /\ Queued(tasks) = Queued(tasks') \cup {"request"} /\ tasks # <<>>
      BY <1>12, <1>0, RunRequestTaskQueue, Taken
    <2> QED
      BY <1>12, <1>0, <2>1, RunRequestTaskQueue DEF Queue, Known, Posted, Gone, posts, Phases
  <1>13. CASE RunCompletionTask

    <2>1. wake' \in BOOLEAN
      BY <1>13, <1>0, RunCompletionTaskQueue DEF Known
    <2> QED
      BY <1>13, <1>0, <2>1, RunCompletionTaskQueue, Completed
  <1>14. CASE TasksDone

    <2>1. QuietQueue /\ wake' \in BOOLEAN
      BY <1>14, <1>0, TasksDoneQueue DEF Known, TasksDone
    <2> QED
      BY <1>0, <2>1 DEF QuietQueue, Queue, Known, Posted, Gone, posts, Phases
  <1>15. CASE Controls

    <2>1. CASE request_posted' = FALSE
      <3>1. UNCHANGED <<phase, completion_posted, alive, tasks, wake>>
        BY <1>15, ControlsQueue
      <3> QED
        BY <1>0, <2>1, <3>1 DEF Queue, Known, Posted, Gone
    <2>2. CASE UNCHANGED request_posted
      BY <1>15, <1>0, <2>2, ControlsQueue DEF Queue, Known, Posted, Gone
    <2> QED
      BY <1>15, <2>1, <2>2, ControlsQueue
  <1>16. CASE Complete

    <2>1. wake' \in BOOLEAN
      BY <1>16, <1>0, CompleteQueue DEF Known
    <2>2. CASE Completes
      BY <1>0, <2>1, <2>2, Completed
    <2>3. CASE QuietQueue
      BY <1>0, <2>1, <2>3 DEF QuietQueue, Queue, Known, Posted, Gone, posts, Phases
    <2> QED
      BY <1>16, <2>2, <2>3, CompleteQueue
  <1>17. CASE VetoReturns

    <2>1. CASE Schedules /\ phase' = "Pending" /\ alive /\ phase \in {"Requesting", "Pending"}
      BY <1>17, <1>0, <2>1, VetoReturnsQueue, Scheduled
    <2>2. CASE phase = "Requesting" /\ phase' = "Open" /\ alive /\ UNCHANGED <<posts, tasks, wake>>
      BY <1>17, <1>0, <2>2, VetoReturnsQueue DEF Queue, Known, Posted, Gone, posts, Phases
    <2>3. CASE UNCHANGED <<phase, posts, tasks, wake>>
      BY <1>17, <1>0, <2>3, VetoReturnsQueue DEF Queue, Known, Posted, Gone, posts, Phases
    <2> QED
      BY <1>17, <2>1, <2>2, <2>3, VetoReturnsQueue
  <1>18. CASE CallbackReturns

    <2>1. QuietQueue /\ wake' \in BOOLEAN
      BY <1>18, <1>0, CallbackReturnsQueue DEF Known, CallbackReturns
    <2> QED
      BY <1>0, <2>1 DEF QuietQueue, Queue, Known, Posted, Gone, posts, Phases
  <1>19. CASE CallbackThrows

    <2>1. QuietQueue /\ wake' \in BOOLEAN
      BY <1>19, <1>0, CallbackThrowsQueue DEF Known, CallbackThrows
    <2> QED
      BY <1>0, <2>1 DEF QuietQueue, Queue, Known, Posted, Gone, posts, Phases
  <1>20. CASE UNCHANGED vars
    BY <1>20, <1>0 DEF vars, posts, ghosts, Queue, Known, Posted, Gone, Phases
  <1> QED
    BY <1>1, <1>2, <1>3, <1>4, <1>5, <1>6, <1>7, <1>8, <1>9, <1>10, <1>11, <1>12, <1>13, <1>14,
       <1>15, <1>16, <1>17, <1>18, <1>19, <1>20
       DEF Next, UserStep, PumpStep

LEMMA QueueStarts == ASSUME CloseAssumption, Init PROVE Queue
  <1>1. Len(<<>>) = 0 /\ 0 <= QueueMax /\ <<>> \in Seq({"request", "completion", "user"})
    BY DEF CloseAssumption
  <1>2. Queued(tasks) = {} /\ tasks = <<>>
    BY QueuedNone DEF Init
  <1> QED
    BY <1>1, <1>2 DEF Init, Queue, Known, Posted, Gone, Phases

LEMMA AlwaysQueue == ASSUME CloseAssumption PROVE Spec => []Queue
  <1>1. Init => Queue
    BY QueueStarts
  <1>2. Queue /\ [Next]_vars => Queue'
    BY QueueKept
  <1> QED
    BY <1>1, <1>2, PTL DEF Spec

\* A posted bit that is set stands for a task in the queue, and a queued completion
\* finds the close pending, whatever pumps again, throws or destroys the window.
THEOREM PostedAlwaysQueued == ASSUME CloseAssumption PROVE Spec => []PostedMeansQueued
  <1>1. Queue => PostedMeansQueued
    BY DEF Queue, Posted, Queued, PostedMeansQueued
  <1> QED
    BY <1>1, AlwaysQueue, PTL
-----------------------------------------------------------------------------
(***************************************************************************)
(* The stack, when user code does not pump again.                           *)
(***************************************************************************)
\* A pump at point p that has t tasks left.
Pumping(s, p, t) ==
    /\ s \in Seq(Activation) /\ Len(s) = 1
    /\ s[1] = [at |-> p, left |-> t, requested |-> FALSE]

\* A callback u under a pump at point p; r: it called request_close.
Calling(s, p, t, u, r) ==
    /\ s \in Seq(Activation) /\ Len(s) = 2
    /\ s[1] = [at |-> p, left |-> t, requested |-> FALSE]
    /\ s[2] = [at |-> u, left |-> 0, requested |-> r]

Left == 0 .. CheckpointMax

Shape ==
    \/ stack = <<>>
    \/ \E p \in PumpPoints, t \in Left : Pumping(stack, p, t)
    \/ \E p \in {"dispatch", "tasks", "complete"}, t \in Left, u \in UserCode, r \in BOOLEAN :
          Calling(stack, p, t, u, r)

\* The point of the pump, the callback under way, and whether it has called
\* request_close.
Outer == IF stack = <<>> THEN "none" ELSE stack[1].at
Inner == IF Len(stack) = 2 THEN stack[2].at ELSE "none"
Req   == Len(stack) = 2 /\ stack[2].requested

\* Frames.
LEMMA FrameIs ==
  ASSUME NEW p \in PumpPoints \cup UserCode, NEW t \in Left, NEW r \in BOOLEAN
  PROVE  [at |-> p, left |-> t, requested |-> r] \in Activation
  BY DEF Activation, Left

\* One and two frames.
LEMMA OneFrame ==
  ASSUME NEW f \in Activation
  PROVE  /\ <<f>> \in Seq(Activation) /\ Len(<<f>>) = 1 /\ <<f>>[1] = f /\ <<f>> # <<>>
         /\ Append(<<>>, f) = <<f>> /\ SubSeq(<<f>>, 1, 0) = <<>>
  OBVIOUS

LEMMA Appended ==
  ASSUME NEW S, NEW s \in Seq(S), NEW f \in S
  PROVE  Append(s, f)[Len(s) + 1] = f
  OBVIOUS

LEMMA TwoFrames ==
  ASSUME NEW s \in Seq(Activation), Len(s) = 1, NEW f \in Activation
  PROVE  /\ Append(s, f) \in Seq(Activation) /\ Len(Append(s, f)) = 2
         /\ Append(s, f)[1] = s[1] /\ Append(s, f)[2] = f
  <1>1. Append(s, f) \in Seq(Activation) /\ Len(Append(s, f)) = 2
    OBVIOUS
  <1>2. \A i \in 1 .. 1 : Append(s, f)[i] = s[i]
    OBVIOUS
  <1>3. Append(s, f)[Len(s) + 1] = f
    BY Appended
  <1>4. Append(s, f)[1] = s[1]
    BY <1>2
  <1>5. Append(s, f)[2] = f
    BY <1>3
  <1> QED
    BY <1>1, <1>4, <1>5

LEMMA Shorter ==
  ASSUME NEW s \in Seq(Activation)
  PROVE  /\ Len(s) = 1 => SubSeq(s, 1, 0) = <<>>
         /\ Len(s) = 2 => /\ SubSeq(s, 1, 0) = <<>>
                          /\ SubSeq(s, 1, 1) \in Seq(Activation)
                          /\ Len(SubSeq(s, 1, 1)) = 1
                          /\ SubSeq(s, 1, 1)[1] = s[1]
  <1>1. SubSeq(s, 1, 0) = <<>>
    OBVIOUS
  <1>2. ASSUME Len(s) = 2
        PROVE  /\ SubSeq(s, 1, 1) \in Seq(Activation)
               /\ Len(SubSeq(s, 1, 1)) = 1
               /\ SubSeq(s, 1, 1)[1] = s[1]
    <2>1. SubSeq(s, 1, 1) = [i \in 1 .. 1 |-> s[i]]
      BY <1>2
    <2>2. s[1] \in Activation /\ Len(s) = 2
      BY <1>2
    <2>3. Len(SubSeq(s, 1, 1)) = 1
      BY <1>2
    <2> QED
      BY <2>1, <2>2, <2>3
  <1> QED
    BY <1>1, <1>2

\* A frame replaced.
LEMMA Replaced ==
  ASSUME NEW S, NEW s \in Seq(S), NEW n \in 1 .. Len(s), NEW f \in S
  PROVE  /\ [s EXCEPT ![n] = f] \in Seq(S)
         /\ Len([s EXCEPT ![n] = f]) = Len(s)
         /\ \A i \in 1 .. Len(s) : [s EXCEPT ![n] = f][i] = IF i = n THEN f ELSE s[i]
  <1>1. [s EXCEPT ![n] = f] \in Seq(S)
    OBVIOUS
  <1>2. Len([s EXCEPT ![n] = f]) = Len(s)
    OBVIOUS
  <1>3. \A i \in 1 .. Len(s) : [s EXCEPT ![n] = f][i] = IF i = n THEN f ELSE s[i]
    OBVIOUS
  <1> QED
    BY <1>1, <1>2, <1>3

\* What the stack says.
LEMMA Where ==
  ASSUME Shape
  PROVE  /\ stack \in Seq(Activation)
         /\ Outer = "none" <=> stack = <<>>
         /\ Outer \in PumpPoints \cup {"none"} /\ Inner \in UserCode \cup {"none"}
         /\ Inner # "none" => Outer \in {"dispatch", "tasks", "complete"}
         /\ \A q \in PumpPoints : At(q) <=> Outer = q /\ Inner = "none"
         /\ \A q \in UserCode : At(q) <=> Inner = q
         /\ InUserCode <=> Outer = "none" \/ Inner # "none"
         /\ Req \in BOOLEAN /\ (Req => Inner # "none")
  <1>1. CASE stack = <<>>
    <2>1. Len(stack) = 0 /\ stack \in Seq(Activation)
      BY <1>1
    <2> QED
      BY <1>1, <2>1 DEF Outer, Inner, Req, At, InUserCode, PumpPoints, UserCode
  <1>2. ASSUME NEW p \in PumpPoints, NEW t \in Left, Pumping(stack, p, t)
        PROVE  /\ stack \in Seq(Activation) /\ stack # <<>> /\ Outer = p /\ Inner = "none" /\ ~Req
               /\ Top.at = p /\ Req \in BOOLEAN
    <2>2. stack \in Seq(Activation) /\ Len(stack) = 1
      BY <1>2 DEF Pumping
    <2>3. stack[1].at = p
      BY <1>2 DEF Pumping
    <2>4. stack # <<>>
      <3>1. Len(stack) = 1 /\ Len(<<>>) = 0
        BY <2>2
      <3> QED
        BY <3>1
    <2>1. stack \in Seq(Activation) /\ Len(stack) = 1 /\ stack[1].at = p /\ stack # <<>>
      BY <2>2, <2>3, <2>4
    <2> QED
      BY <2>1 DEF Outer, Inner, Req, Top
  <1>3. ASSUME NEW p \in {"dispatch", "tasks", "complete"}, NEW t \in Left, NEW u \in UserCode,
               NEW r \in BOOLEAN, Calling(stack, p, t, u, r)
        PROVE  /\ stack \in Seq(Activation) /\ stack # <<>> /\ Outer = p /\ Inner = u /\ (Req <=> r)
               /\ Top.at = u /\ Req \in BOOLEAN
    <2>1. /\ stack \in Seq(Activation) /\ Len(stack) = 2 /\ stack[1].at = p /\ stack # <<>>
          /\ stack[2].at = u
      <3>1. /\ stack \in Seq(Activation) /\ Len(stack) = 2
            /\ stack[1] = [at |-> p, left |-> t, requested |-> FALSE]
            /\ stack[2] = [at |-> u, left |-> 0, requested |-> r]
        BY <1>3 DEF Calling
      <3>2. stack[1].at = p /\ stack[2].at = u
        BY <3>1
      <3>0. Len(stack) = 2
        BY <1>3 DEF Calling
      <3>3. stack # <<>>
        BY <3>0
      <3> QED
        BY <3>1, <3>2, <3>3
    <2>2. stack[2].requested <=> r
      BY <1>3 DEF Calling
    <2> QED
      BY <2>1, <2>2 DEF Outer, Inner, Req, Top
  <1>4. ASSUME NEW p \in PumpPoints, NEW t \in Left, Pumping(stack, p, t)
        PROVE  /\ \A q \in PumpPoints : At(q) <=> Outer = q /\ Inner = "none"
               /\ \A q \in UserCode : At(q) <=> Inner = q
               /\ ~InUserCode /\ Outer # "none"
    BY <1>2, <1>4 DEF At, InUserCode, PumpPoints, UserCode
  <1>5. ASSUME NEW p \in {"dispatch", "tasks", "complete"}, NEW t \in Left, NEW u \in UserCode,
               NEW r \in BOOLEAN, Calling(stack, p, t, u, r)
        PROVE  /\ \A q \in PumpPoints : At(q) <=> Outer = q /\ Inner = "none"
               /\ \A q \in UserCode : At(q) <=> Inner = q
               /\ InUserCode /\ Outer # "none" /\ Inner # "none" /\ Outer \in PumpPoints
    BY <1>3, <1>5 DEF At, InUserCode, PumpPoints, UserCode
  <1>6. CASE \E p \in PumpPoints, t \in Left : Pumping(stack, p, t)
    <2>1. PICK p \in PumpPoints, t \in Left : Pumping(stack, p, t)
      BY <1>6
    <2>2. /\ stack \in Seq(Activation) /\ stack # <<>> /\ Outer = p /\ Inner = "none" /\ ~Req
          /\ Outer # "none" /\ ~InUserCode /\ Req \in BOOLEAN
      BY <2>1, <1>2, <1>4
    <2>3. /\ \A q \in PumpPoints : At(q) <=> Outer = q /\ Inner = "none"
          /\ \A q \in UserCode : At(q) <=> Inner = q
      BY <2>1, <1>4
    <2> QED
      BY <2>2, <2>3
  <1>7. CASE \E p \in {"dispatch", "tasks", "complete"}, t \in Left, u \in UserCode, r \in BOOLEAN :
               Calling(stack, p, t, u, r)
    <2>1. PICK p \in {"dispatch", "tasks", "complete"}, t \in Left, u \in UserCode, r \in BOOLEAN :
             Calling(stack, p, t, u, r)
      BY <1>7
    <2>2. /\ stack \in Seq(Activation) /\ stack # <<>> /\ Outer = p /\ Inner = u
          /\ Req \in BOOLEAN
      BY <2>1, <1>3
    <2>3. /\ InUserCode /\ Outer # "none" /\ Inner # "none" /\ Outer \in PumpPoints
      BY <2>1, <1>5
    <2>4. /\ \A q \in PumpPoints : At(q) <=> Outer = q /\ Inner = "none"
          /\ \A q \in UserCode : At(q) <=> Inner = q
      BY <2>1, <1>5
    <2> QED
      BY <2>2, <2>3, <2>4
  <1> QED
    BY <1>1, <1>6, <1>7 DEF Shape

\* The frames of a stack that is not empty.
LEMMA PumpFrame ==
  ASSUME Shape, Outer # "none", Inner = "none"
  PROVE  \E t \in Left : Pumping(stack, Outer, t)
  <1>1. ASSUME NEW p \in {"dispatch", "tasks", "complete"}, NEW t \in Left, NEW u \in UserCode,
               NEW r \in BOOLEAN, Calling(stack, p, t, u, r)
        PROVE  FALSE
    <2>1. Len(stack) = 2 /\ stack[2] = [at |-> u, left |-> 0, requested |-> r]
      BY <1>1 DEF Calling
    <2>2. Inner = u
      BY <2>1 DEF Inner
    <2> QED
      BY <2>2 DEF UserCode
  <1>2. ASSUME NEW p \in PumpPoints, NEW t \in Left, Pumping(stack, p, t)
        PROVE  Outer = p
    <2>1. Len(stack) = 1 /\ stack[1] = [at |-> p, left |-> t, requested |-> FALSE]
      BY <1>2 DEF Pumping
    <2>2. stack # <<>>
      BY <1>2, Zenon DEF Outer
    <2> QED
      BY <2>1, <2>2 DEF Outer
  <1>3. stack # <<>>
    BY DEF Outer
  <1> QED
    BY <1>1, <1>2, <1>3 DEF Shape

LEMMA CallFrames ==
  ASSUME Shape, Inner # "none"
  PROVE  /\ Outer \in {"dispatch", "tasks", "complete"} /\ Inner \in UserCode
         /\ \E t \in Left, r \in BOOLEAN : (r <=> Req) /\ Calling(stack, Outer, t, Inner, r)
  <1>1. stack # <<>>
    <2>1. Len(<<>>) = 0
      OBVIOUS
    <2> QED
      BY <2>1 DEF Inner
  <1>2. ASSUME NEW p \in PumpPoints, NEW t \in Left, Pumping(stack, p, t)
        PROVE  FALSE
    <2>1. Len(stack) = 1
      BY <1>2 DEF Pumping
    <2> QED
      BY <2>1 DEF Inner
  <1>3. PICK p \in {"dispatch", "tasks", "complete"}, t \in Left, u \in UserCode, r \in BOOLEAN :
           Calling(stack, p, t, u, r)
    BY <1>1, <1>2 DEF Shape
  <1>4. Len(stack) = 2
    BY <1>3 DEF Calling
  <1>5. stack[1].at = p /\ stack[2].at = u
    BY <1>3 DEF Calling
  <1>6. stack[2].requested <=> r
    BY <1>3 DEF Calling
  <1>7. Outer = p /\ Inner = u /\ (r <=> Req)
    BY <1>1, <1>4, <1>5, <1>6 DEF Outer, Inner, Req
  <1> QED
    BY <1>3, <1>7

\* What the stack becomes.
PumpsAt(p) == Shape' /\ Outer' = p /\ Inner' = "none" /\ ~Req'
CallsIn(p, u, r) == Shape' /\ Outer' = p /\ Inner' = u /\ (Req' <=> r)
Empties == Shape' /\ Outer' = "none" /\ Inner' = "none" /\ ~Req'

LEMMA ToPump ==
  ASSUME NEW p \in PumpPoints, NEW t \in Left, Pumping(stack', p, t)
  PROVE  PumpsAt(p)
  <1>1. Shape'
    BY DEF Shape
  <1>2. Len(stack') = 1 /\ stack'[1] = [at |-> p, left |-> t, requested |-> FALSE]
    BY DEF Pumping
  <1>3. stack' # <<>> /\ stack'[1].at = p
    <2>1. Len(<<>>) = 0
      OBVIOUS
    <2>2. stack'[1].at = p
      BY <1>2
    <2> QED
      BY <1>2, <2>1, <2>2
  <1>4. Outer' = p /\ Inner' = "none" /\ ~Req'
    BY <1>2, <1>3 DEF Outer, Inner, Req
  <1> QED
    BY <1>1, <1>4 DEF PumpsAt

LEMMA ToCall ==
  ASSUME NEW p \in {"dispatch", "tasks", "complete"}, NEW t \in Left, NEW u \in UserCode,
         NEW r \in BOOLEAN, Calling(stack', p, t, u, r)
  PROVE  CallsIn(p, u, r)
  <1>1. Shape'
    BY DEF Shape
  <1>2. Len(stack') = 2
    BY DEF Calling
  <1>3. stack'[1].at = p /\ stack'[2].at = u
    BY DEF Calling
  <1>4. stack'[2].requested <=> r
    BY DEF Calling
  <1>5. stack' # <<>>
    BY <1>2
  <1>6. Outer' = p /\ Inner' = u /\ (Req' <=> r)
    BY <1>2, <1>3, <1>4, <1>5 DEF Outer, Inner, Req
  <1> QED
    BY <1>1, <1>6 DEF CallsIn

LEMMA ToNone ==
  ASSUME stack' = <<>>
  PROVE  Empties
  <1>1. Len(stack') = 0
    OBVIOUS
  <1> QED
    BY <1>1 DEF Empties, Shape, Outer, Inner, Req

\* A pump that moves on, that has one task less, that calls.
LEMMA PumpMoved ==
  ASSUME NEW p \in PumpPoints, NEW t \in Left, Pumping(stack, p, t), NEW q \in PumpPoints
  PROVE  Pumping(MoveTo(q), q, t)
  <1> DEFINE f == [at |-> q, left |-> t, requested |-> FALSE]
             s == [stack EXCEPT ![Len(stack)] = f]
  <1>0. stack \in Seq(Activation)
    BY DEF Pumping
  <1>1. /\ stack \in Seq(Activation) /\ Len(stack) = 1
        /\ stack[1] = [at |-> p, left |-> t, requested |-> FALSE]
    BY DEF Pumping
  <1>2. [stack[Len(stack)] EXCEPT !.at = q] = f
    <2> DEFINE g == stack[Len(stack)]  h == [g EXCEPT !.at = q]
    <2>1. g = [at |-> p, left |-> t, requested |-> FALSE]
      BY <1>1
    <2> HIDE DEF g
    <2>2. /\ DOMAIN g = {"at", "left", "requested"}
          /\ DOMAIN h = {"at", "left", "requested"} /\ h = [x \in DOMAIN h |-> h[x]]
      BY <2>1
    <2>3. h.at = f.at /\ h.left = f.left /\ h.requested = f.requested
      BY <2>1, <2>2
    <2>4. /\ DOMAIN f = {"at", "left", "requested"} /\ f = [x \in DOMAIN f |-> f[x]]
      OBVIOUS
    <2> HIDE DEF f, h
    <2>5. h = f
      BY <2>2, <2>3, <2>4
    <2> QED
      BY <2>5 DEF g, h
  <1>3. MoveTo(q) = s
    BY <1>2 DEF MoveTo
  <1>4. f \in Activation
    BY FrameIs
  <1> HIDE DEF f
  <1>5. Len(stack) \in 1 .. Len(stack) /\ 1 \in 1 .. Len(stack)
    BY <1>1
  <1>6. s \in Seq(Activation) /\ Len(s) = Len(stack)
    BY <1>0, <1>4, <1>5, Replaced
  <1>7. s[1] = f
    BY <1>0, <1>1, <1>4, <1>5, Replaced
  <1> QED
    BY <1>1, <1>3, <1>6, <1>7 DEF Pumping, f

LEMMA PumpFrozen ==
  ASSUME NEW p \in PumpPoints, NEW t \in Left, Pumping(stack, p, t), NEW n \in Left
  PROVE  Pumping([stack EXCEPT ![Len(stack)] = [@ EXCEPT !.at = "tasks", !.left = n]], "tasks", n)
  <1> DEFINE f == [at |-> "tasks", left |-> n, requested |-> FALSE]
             s == [stack EXCEPT ![Len(stack)] = f]
  <1>0. stack \in Seq(Activation)
    BY DEF Pumping
  <1>1. /\ stack \in Seq(Activation) /\ Len(stack) = 1
        /\ stack[1] = [at |-> p, left |-> t, requested |-> FALSE]
    BY DEF Pumping
  <1>2. [stack[Len(stack)] EXCEPT !.at = "tasks", !.left = n] = f
    <2> DEFINE g == stack[Len(stack)]  h == [g EXCEPT !.at = "tasks", !.left = n]
    <2>1. g = [at |-> p, left |-> t, requested |-> FALSE]
      BY <1>1
    <2> HIDE DEF g
    <2>2. /\ DOMAIN g = {"at", "left", "requested"}
          /\ DOMAIN h = {"at", "left", "requested"} /\ h = [x \in DOMAIN h |-> h[x]]
      BY <2>1
    <2>3. h.at = f.at /\ h.left = f.left /\ h.requested = f.requested
      BY <2>1, <2>2
    <2>4. /\ DOMAIN f = {"at", "left", "requested"} /\ f = [x \in DOMAIN f |-> f[x]]
      OBVIOUS
    <2> HIDE DEF f, h
    <2>5. h = f
      BY <2>2, <2>3, <2>4
    <2> QED
      BY <2>5 DEF g, h
  <1>3. [stack EXCEPT ![Len(stack)] = [@ EXCEPT !.at = "tasks", !.left = n]] = s
    BY <1>2
  <1>4. f \in Activation
    BY FrameIs DEF PumpPoints
  <1> HIDE DEF f
  <1>5. Len(stack) \in 1 .. Len(stack) /\ 1 \in 1 .. Len(stack)
    BY <1>1
  <1>6. s \in Seq(Activation) /\ Len(s) = Len(stack)
    BY <1>0, <1>4, <1>5, Replaced
  <1>7. s[1] = f
    BY <1>0, <1>1, <1>4, <1>5, Replaced
  <1> QED
    BY <1>1, <1>3, <1>6, <1>7 DEF Pumping, f

LEMMA PumpPopped ==
  ASSUME NEW p \in PumpPoints, NEW t \in Left, Pumping(stack, p, t), Top.left > 0, CloseAssumption
  PROVE  \E n \in Left : Pumping(Popped, p, n)
  <1> DEFINE f == [at |-> p, left |-> t - 1, requested |-> FALSE]
             s == [stack EXCEPT ![Len(stack)] = f]
  <1>0. stack \in Seq(Activation)
    BY DEF Pumping
  <1>1. /\ stack \in Seq(Activation) /\ Len(stack) = 1
        /\ stack[1] = [at |-> p, left |-> t, requested |-> FALSE]
    BY DEF Pumping
  <1>2. stack[1].left = t /\ Top = stack[1]
    BY <1>1 DEF Top
  <1>3. t - 1 \in Left
    BY <1>2 DEF Left, CloseAssumption
  <1>4. [stack[Len(stack)] EXCEPT !.left = t - 1] = f
    <2> DEFINE g == stack[Len(stack)]  h == [g EXCEPT !.left = t - 1]
    <2>1. g = [at |-> p, left |-> t, requested |-> FALSE]
      BY <1>1
    <2> HIDE DEF g
    <2>2. /\ DOMAIN g = {"at", "left", "requested"}
          /\ DOMAIN h = {"at", "left", "requested"} /\ h = [x \in DOMAIN h |-> h[x]]
      BY <2>1
    <2>3. h.at = f.at /\ h.left = f.left /\ h.requested = f.requested
      BY <2>1, <2>2
    <2>4. /\ DOMAIN f = {"at", "left", "requested"} /\ f = [x \in DOMAIN f |-> f[x]]
      OBVIOUS
    <2> HIDE DEF f, h
    <2>5. h = f
      BY <2>2, <2>3, <2>4
    <2> QED
      BY <2>5 DEF g, h
  <1>5. Popped = s
    BY <1>1, <1>2, <1>4 DEF Popped
  <1>6. f \in Activation
    BY <1>3, FrameIs
  <1> HIDE DEF f
  <1>7. Len(stack) \in 1 .. Len(stack) /\ 1 \in 1 .. Len(stack)
    BY <1>1
  <1>8. s \in Seq(Activation) /\ Len(s) = Len(stack)
    BY <1>0, <1>6, <1>7, Replaced
  <1>9. s[1] = f
    BY <1>0, <1>1, <1>6, <1>7, Replaced
  <1>10. Pumping(Popped, p, t - 1)
    BY <1>1, <1>5, <1>8, <1>9 DEF Pumping, f
  <1> QED
    BY <1>3, <1>10

LEMMA Enters ==
  ASSUME NEW base, NEW p \in {"dispatch", "tasks", "complete"}, NEW t \in Left,
         Pumping(base, p, t), NEW u \in UserCode, stack' = Append(base, Frame(u)), CloseAssumption
  PROVE  CallsIn(p, u, FALSE)
  <1>1. 0 \in Left
    BY DEF Left, CloseAssumption
  <1>2. Frame(u) \in Activation
    BY <1>1, FrameIs DEF Frame
  <1>3. /\ base \in Seq(Activation) /\ Len(base) = 1
        /\ base[1] = [at |-> p, left |-> t, requested |-> FALSE]
    BY DEF Pumping
  <1>4. /\ stack' \in Seq(Activation) /\ Len(stack') = 2
        /\ stack'[1] = base[1] /\ stack'[2] = Frame(u)
    BY <1>2, <1>3, TwoFrames
  <1>5. Calling(stack', p, t, u, FALSE)
    BY <1>3, <1>4 DEF Calling, Frame
  <1> QED
    BY <1>5, ToCall

\* A pump or a callback that returns; a callback whose exception ends the pump.
LEMMA Unstacked ==
  ASSUME Shape, Outer # "none"
  PROVE  /\ Inner = "none" /\ stack' = Beneath => Empties
         /\ Inner # "none" /\ stack' = Beneath => PumpsAt(Outer)
         /\ Inner # "none" /\ stack' = SubSeq(stack, 1, Len(stack) - 2) => Empties
  <1>1. CASE Inner = "none"
    <2>1. PICK t \in Left : Pumping(stack, Outer, t)
      BY <1>1, PumpFrame
    <2>2. stack \in Seq(Activation) /\ Len(stack) = 1
      BY <2>1 DEF Pumping
    <2>3. Beneath = <<>>
      BY <2>2, Shorter DEF Beneath
    <2> QED
      BY <1>1, <2>3, ToNone
  <1>2. CASE Inner # "none"
    <2>1. PICK t \in Left, r \in BOOLEAN : Calling(stack, Outer, t, Inner, r)
      BY <1>2, CallFrames
    <2>2. /\ stack \in Seq(Activation) /\ Len(stack) = 2
          /\ stack[1] = [at |-> Outer, left |-> t, requested |-> FALSE]
      BY <2>1 DEF Calling
    <2>3. Beneath = SubSeq(stack, 1, 1) /\ SubSeq(stack, 1, Len(stack) - 2) = SubSeq(stack, 1, 0)
      BY <2>2 DEF Beneath
    <2>4. Pumping(Beneath, Outer, t) /\ SubSeq(stack, 1, Len(stack) - 2) = <<>>
      BY <2>2, <2>3, Shorter DEF Pumping
    <2>5. Outer \in PumpPoints
      BY <1>2, CallFrames DEF PumpPoints
    <2>6. stack' = Beneath => PumpsAt(Outer)
      BY <2>4, <2>5, ToPump
    <2> QED
      BY <1>2, <2>4, <2>6, ToNone
  <1> QED
    BY <1>1, <1>2

\* The callback under way calls request_close.
LEMMA Requested ==
  ASSUME Shape, Inner # "none", stack' = [stack EXCEPT ![Len(stack)].requested = TRUE],
         CloseAssumption
  PROVE  CallsIn(Outer, Inner, TRUE)
  <1>1. PICK t \in Left, r \in BOOLEAN : Calling(stack, Outer, t, Inner, r)
    BY CallFrames
  <1>2. Outer \in {"dispatch", "tasks", "complete"} /\ Inner \in UserCode
    BY CallFrames
  <1> DEFINE f == [at |-> Inner, left |-> 0, requested |-> TRUE]
             s == [stack EXCEPT ![Len(stack)] = f]
  <1>3. /\ stack \in Seq(Activation) /\ Len(stack) = 2
        /\ stack[1] = [at |-> Outer, left |-> t, requested |-> FALSE]
        /\ stack[2] = [at |-> Inner, left |-> 0, requested |-> r]
    BY <1>1 DEF Calling
  <1>0. stack \in Seq(Activation)
    BY <1>1 DEF Calling
  <1>4. [stack[Len(stack)] EXCEPT !.requested = TRUE] = f
    <2> DEFINE g == stack[Len(stack)]  h == [g EXCEPT !.requested = TRUE]
    <2>1. g = [at |-> Inner, left |-> 0, requested |-> r]
      BY <1>3
    <2> HIDE DEF g
    <2>2. /\ DOMAIN g = {"at", "left", "requested"}
          /\ DOMAIN h = {"at", "left", "requested"} /\ h = [x \in DOMAIN h |-> h[x]]
      BY <2>1
    <2>3. h.at = f.at /\ h.left = f.left /\ h.requested = f.requested
      BY <2>1, <2>2
    <2>4. /\ DOMAIN f = {"at", "left", "requested"} /\ f = [x \in DOMAIN f |-> f[x]]
      OBVIOUS
    <2> HIDE DEF f, h
    <2>5. h = f
      BY <2>2, <2>3, <2>4
    <2> QED
      BY <2>5 DEF g, h
  <1>5. stack' = s
    BY <1>4
  <1>6. f \in Activation
    <2>1. 0 \in Left
      BY DEF Left, CloseAssumption
    <2> QED
      BY <1>2, <2>1, FrameIs
  <1> HIDE DEF f
  <1>7. Len(stack) \in 1 .. Len(stack) /\ 1 \in 1 .. Len(stack) /\ 2 \in 1 .. Len(stack)
    BY <1>3
  <1>8. s \in Seq(Activation) /\ Len(s) = Len(stack)
    BY <1>0, <1>6, <1>7, Replaced
  <1>9. s[1] = stack[1] /\ s[2] = f
    BY <1>0, <1>3, <1>6, <1>7, Replaced
  <1>10. Calling(stack', Outer, t, Inner, TRUE)
    BY <1>3, <1>5, <1>8, <1>9 DEF Calling, f
  <1> QED
    BY <1>2, <1>10, ToCall

\* The stack and the variables that go with it stay.
Stays == UNCHANGED stack /\ Shape' /\ Outer' = Outer /\ Inner' = Inner /\ (Req' <=> Req)

LEMMA Stay == ASSUME Shape, UNCHANGED stack PROVE Stays
  BY DEF Stays, Shape, Outer, Inner, Req, Pumping, Calling

\* A pump at point p with no callback.
LEMMA AtPump ==
  ASSUME Shape, NEW p \in PumpPoints, At(p)
  PROVE  Outer = p /\ Inner = "none" /\ \E t \in Left : Pumping(stack, p, t)
  <1>1. Outer = p /\ Inner = "none" /\ Outer # "none"
    BY Where DEF PumpPoints
  <1> QED
    BY <1>1, PumpFrame

LEMMA AtCall ==
  ASSUME Shape, NEW u \in UserCode, At(u)
  PROVE  Inner = u /\ Inner # "none" /\ Outer # "none"
  BY Where DEF UserCode

LEMMA Moves ==
  ASSUME Shape, NEW p \in PumpPoints, At(p), NEW q \in PumpPoints, stack' = MoveTo(q)
  PROVE  PumpsAt(q)
  <1>1. PICK t \in Left : Pumping(stack, p, t)
    BY AtPump
  <1> QED
    BY <1>1, PumpMoved, ToPump

LEMMA Calls ==
  ASSUME Shape, NEW p \in {"dispatch", "tasks", "complete"}, At(p), NEW u \in UserCode,
         stack' = Append(stack, Frame(u)), CloseAssumption
  PROVE  CallsIn(p, u, FALSE)
  <1>1. PICK t \in Left : Pumping(stack, p, t)
    BY AtPump DEF PumpPoints
  <1> QED
    BY <1>1, Enters

LEMMA Runs ==
  ASSUME Shape, CanRunTask, NEW u \in UserCode, CloseAssumption
  PROVE  /\ stack' = Append(Popped, Frame(u)) => CallsIn("tasks", u, FALSE)
         /\ stack' = Popped => PumpsAt("tasks")
  <1>1. At("tasks") /\ Top.left > 0 /\ "tasks" \in PumpPoints
    BY DEF CanRunTask, PumpPoints
  <1>2. PICK t \in Left : Pumping(stack, "tasks", t)
    BY <1>1, AtPump
  <1>3. PICK n \in Left : Pumping(Popped, "tasks", n)
    BY <1>1, <1>2, PumpPopped
  <1> QED
    BY <1>1, <1>3, Enters, ToPump

LEMMA Points ==
  /\ "wait" \in PumpPoints /\ "dispatch" \in PumpPoints /\ "tasks" \in PumpPoints
  /\ "controls" \in PumpPoints /\ "complete" \in PumpPoints
  /\ "handler" \in UserCode /\ "task" \in UserCode /\ "veto" \in UserCode /\ "closed" \in UserCode
  BY DEF PumpPoints, UserCode

\* Each action: where it finds the stack and where it leaves it.
LEMMA RequestCloseStack ==
  ASSUME CloseAssumption, NestedFrom = {}, Shape, RequestClose
  PROVE  /\ UNCHANGED ghosts
         /\ \/ Outer = "none" /\ Empties
            \/ Inner # "none" /\ Outer # "none" /\ CallsIn(Outer, Inner, TRUE)
  <1>1. CASE stack = <<>>
    <2>1. stack' = <<>> /\ UNCHANGED ghosts
      BY <1>1 DEF RequestClose
    <2> QED
      BY <1>1, <2>1, ToNone, Where
  <1>2. CASE stack # <<>>
    <2>1. Inner # "none" /\ Outer # "none"
      BY <1>2, Where DEF RequestClose
    <2>2. stack' = [stack EXCEPT ![Len(stack)].requested = TRUE] /\ UNCHANGED ghosts
      BY <1>2 DEF RequestClose
    <2> QED
      BY <2>1, <2>2, Requested
  <1> QED
    BY <1>1, <1>2

LEMMA DestroyStack ==
  ASSUME CloseAssumption, NestedFrom = {}, Shape, Destroy
  PROVE  Stays /\ UNCHANGED ghosts
  BY Stay DEF Destroy

LEMMA UserPostStack ==
  ASSUME CloseAssumption, NestedFrom = {}, Shape, UserPost
  PROVE  Stays /\ UNCHANGED ghosts
  BY Stay DEF UserPost

LEMMA NativeCloseStack ==
  ASSUME CloseAssumption, NestedFrom = {}, Shape, NativeClose
  PROVE  /\ Outer = "dispatch" /\ Inner = "none" /\ Stays
         /\ asked' = 0 /\ UNCHANGED notices
  BY Stay, AtPump, Points DEF NativeClose

LEMMA PumpBeginStack ==
  ASSUME CloseAssumption, NestedFrom = {}, Shape, PumpBegin
  PROVE  /\ Outer = "none" /\ PumpsAt("wait") /\ UNCHANGED ghosts
         /\ UNCHANGED <<phase, alive, tasks, wake>>
  <1>1. stack = <<>> /\ stack' = Append(<<>>, Frame("wait"))
    BY DEF PumpBegin
  <1>2. 0 \in Left
    BY DEF Left, CloseAssumption
  <1>3. Frame("wait") \in Activation
    BY <1>2, Points, FrameIs DEF Frame
  <1>4. Pumping(stack', "wait", 0)
    BY <1>1, <1>3, OneFrame DEF Pumping, Frame
  <1>5. PumpsAt("wait")
    BY <1>2, <1>4, Points, ToPump
  <1>6. Outer = "none"
    BY <1>1, Where
  <1> QED
    BY <1>5, <1>6 DEF PumpBegin

LEMMA WaitEndsStack ==
  ASSUME CloseAssumption, NestedFrom = {}, Shape, WaitEnds
  PROVE  Outer = "wait" /\ Inner = "none" /\ PumpsAt("dispatch") /\ UNCHANGED ghosts
  <1>1. At("wait") /\ stack' = MoveTo("dispatch") /\ UNCHANGED ghosts
    BY DEF WaitEnds, ghosts
  <1> QED
    BY <1>1, Moves, AtPump, Points

LEMMA WaitInterruptedStack ==
  ASSUME CloseAssumption, NestedFrom = {}, Shape, WaitInterrupted
  PROVE  Outer = "wait" /\ Inner = "none" /\ PumpsAt("dispatch") /\ UNCHANGED ghosts
  <1>1. At("wait") /\ stack' = MoveTo("dispatch") /\ UNCHANGED ghosts
    BY DEF WaitInterrupted, ghosts
  <1> QED
    BY <1>1, Moves, AtPump, Points

LEMMA DispatchWakeStack ==
  ASSUME CloseAssumption, NestedFrom = {}, Shape, DispatchWake
  PROVE  Outer = "dispatch" /\ Inner = "none" /\ Stays /\ UNCHANGED ghosts
  BY Stay, AtPump, Points DEF DispatchWake

LEMMA HandlerBeginsStack ==
  ASSUME CloseAssumption, NestedFrom = {}, Shape, HandlerBegins
  PROVE  /\ Outer = "dispatch" /\ Inner = "none" /\ CallsIn("dispatch", "handler", FALSE)
         /\ UNCHANGED ghosts
  <1>1. At("dispatch") /\ stack' = Append(stack, Frame("handler")) /\ UNCHANGED ghosts
    BY DEF HandlerBegins
  <1> QED
    BY <1>1, Calls, AtPump, Points

LEMMA DispatchDoneStack ==
  ASSUME CloseAssumption, NestedFrom = {}, Shape, Queue, DispatchDone
  PROVE  Outer = "dispatch" /\ Inner = "none" /\ PumpsAt("tasks") /\ UNCHANGED ghosts
  <1> DEFINE n == IF Len(tasks) < CheckpointMax THEN Len(tasks) ELSE CheckpointMax
  <1>1. /\ At("dispatch") /\ UNCHANGED ghosts
        /\ stack' = [stack EXCEPT ![Len(stack)] = [@ EXCEPT !.at = "tasks", !.left = n]]
    BY DEF DispatchDone
  <1>2. n \in Left
    BY DEF Queue, Known, Left, CloseAssumption
  <1>3. PICK t \in Left : Pumping(stack, "dispatch", t)
    BY <1>1, AtPump, Points
  <1> HIDE DEF n
  <1>4. Pumping(stack', "tasks", n)
    BY <1>1, <1>2, <1>3, PumpFrozen, Points
  <1> QED
    BY <1>1, <1>2, <1>4, ToPump, AtPump, Points

LEMMA RunUserTaskStack ==
  ASSUME CloseAssumption, NestedFrom = {}, Shape, RunUserTask
  PROVE  /\ Outer = "tasks" /\ Inner = "none" /\ CallsIn("tasks", "task", FALSE)
         /\ UNCHANGED ghosts
  <1>1. CanRunTask /\ stack' = Append(Popped, Frame("task")) /\ UNCHANGED ghosts
    BY DEF RunUserTask
  <1>2. At("tasks")
    BY <1>1 DEF CanRunTask
  <1> QED
    BY <1>1, <1>2, Runs, AtPump, Points

LEMMA RunRequestTaskStack ==
  ASSUME CloseAssumption, NestedFrom = {}, Shape, RunRequestTask
  PROVE  /\ Outer = "tasks" /\ Inner = "none" /\ UNCHANGED notices
         /\ \/ phase = "Requesting" /\ CallsIn("tasks", "veto", FALSE) /\ asked' = asked + 1
            \/ phase # "Requesting" /\ PumpsAt("tasks") /\ UNCHANGED asked
  <1>1. /\ CanRunTask /\ UNCHANGED notices
        /\ \/ /\ phase = "Requesting" /\ stack' = Append(Popped, Frame("veto"))
              /\ asked' = asked + 1
           \/ phase # "Requesting" /\ stack' = Popped /\ UNCHANGED asked
    BY DEF RunRequestTask, AskVeto, ghosts
  <1>2. At("tasks")
    BY <1>1 DEF CanRunTask
  <1>3. Outer = "tasks" /\ Inner = "none"
    BY <1>2, AtPump, Points
  <1>4. /\ stack' = Append(Popped, Frame("veto")) => CallsIn("tasks", "veto", FALSE)
        /\ stack' = Popped => PumpsAt("tasks")
    BY <1>1, Runs, Points
  <1> QED
    BY <1>1, <1>3, <1>4

LEMMA RunCompletionTaskStack ==
  ASSUME CloseAssumption, NestedFrom = {}, Shape, RunCompletionTask
  PROVE  /\ Outer = "tasks" /\ CallsIn("tasks", "closed", FALSE)
         /\ notices' = notices + 1 /\ UNCHANGED asked
  <1>1. /\ CanRunTask /\ stack' = Append(Popped, Frame("closed"))
        /\ notices' = notices + 1 /\ UNCHANGED asked
    BY DEF RunCompletionTask, CompleteClose
  <1>2. At("tasks")
    BY <1>1 DEF CanRunTask
  <1> QED
    BY <1>1, <1>2, Runs, AtPump, Points

LEMMA TasksDoneStack ==
  ASSUME CloseAssumption, NestedFrom = {}, Shape, TasksDone
  PROVE  Outer = "tasks" /\ Inner = "none" /\ PumpsAt("controls") /\ UNCHANGED ghosts
  <1>1. At("tasks") /\ stack' = MoveTo("controls") /\ UNCHANGED ghosts
    BY DEF TasksDone
  <1> QED
    BY <1>1, Moves, AtPump, Points

LEMMA ControlsStack ==
  ASSUME CloseAssumption, NestedFrom = {}, Shape, Controls
  PROVE  /\ Outer = "controls" /\ Inner = "none" /\ UNCHANGED notices
         /\ \/ /\ alive /\ phase = "Requesting" /\ CallsIn("complete", "veto", FALSE)
               /\ asked' = asked + 1
            \/ /\ ~(alive /\ phase = "Requesting") /\ PumpsAt("complete")
               /\ UNCHANGED asked
  <1>1. /\ At("controls") /\ UNCHANGED notices
        /\ \/ /\ alive /\ phase = "Requesting" /\ asked' = asked + 1
              /\ stack' = Append(MoveTo("complete"), Frame("veto"))
           \/ /\ ~(alive /\ phase = "Requesting") /\ stack' = MoveTo("complete")
              /\ UNCHANGED asked
    BY DEF Controls, AskVeto, ghosts
  <1>2. Outer = "controls" /\ Inner = "none"
    BY <1>1, AtPump, Points
  <1>3. PICK t \in Left : Pumping(stack, "controls", t)
    BY <1>1, AtPump, Points
  <1>4. Pumping(MoveTo("complete"), "complete", t)
    BY <1>3, PumpMoved, Points
  <1>5. stack' = Append(MoveTo("complete"), Frame("veto")) => CallsIn("complete", "veto", FALSE)
    BY <1>4, Enters, Points
  <1>6. stack' = MoveTo("complete") => PumpsAt("complete")
    BY <1>4, ToPump, Points
  <1> QED
    BY <1>1, <1>2, <1>5, <1>6

LEMMA CompleteStack ==
  ASSUME CloseAssumption, NestedFrom = {}, Shape, Complete
  PROVE  /\ Outer = "complete" /\ Inner = "none" /\ UNCHANGED asked
         /\ \/ /\ alive /\ phase = "Pending" /\ CallsIn("complete", "closed", FALSE)
               /\ notices' = notices + 1 /\ phase' = "Closed"
            \/ /\ ~(alive /\ phase = "Pending") /\ Empties
               /\ UNCHANGED <<notices, phase, alive, tasks, wake>>
  <1>1. /\ At("complete") /\ UNCHANGED asked
        /\ \/ /\ alive /\ phase = "Pending" /\ notices' = notices + 1 /\ phase' = "Closed"
              /\ stack' = Append(stack, Frame("closed"))
           \/ /\ ~(alive /\ phase = "Pending") /\ stack' = Beneath
              /\ UNCHANGED <<notices, phase, alive, tasks, wake>>
    BY DEF Complete, CompleteClose, ghosts
  <1>2. Outer = "complete" /\ Inner = "none" /\ Outer # "none"
    BY <1>1, AtPump, Points
  <1>3. stack' = Append(stack, Frame("closed")) => CallsIn("complete", "closed", FALSE)
    BY <1>1, Calls, Points
  <1>4. stack' = Beneath => Empties
    BY <1>2, Unstacked
  <1> QED
    BY <1>1, <1>2, <1>3, <1>4

LEMMA VetoReturnsStack ==
  ASSUME CloseAssumption, NestedFrom = {}, Shape, VetoReturns
  PROVE  Inner = "veto" /\ Outer # "none" /\ PumpsAt(Outer) /\ UNCHANGED ghosts
  <1>1. At("veto") /\ stack' = Beneath /\ UNCHANGED ghosts
    BY DEF VetoReturns
  <1> QED
    BY <1>1, Unstacked, AtCall, Points

LEMMA CallbackReturnsStack ==
  ASSUME CloseAssumption, NestedFrom = {}, Shape, CallbackReturns
  PROVE  /\ Inner \in {"handler", "task", "closed"} /\ Outer # "none" /\ PumpsAt(Outer)
         /\ UNCHANGED ghosts
  <1>1. PICK u \in {"handler", "task", "closed"} : At(u)
    BY DEF CallbackReturns
  <1>2. stack' = Beneath /\ UNCHANGED ghosts
    BY DEF CallbackReturns
  <1>3. Inner = u /\ Inner # "none" /\ Outer # "none"
    BY <1>1, AtCall DEF UserCode
  <1> QED
    BY <1>1, <1>2, <1>3, Unstacked

LEMMA CallbackThrowsStack ==
  ASSUME CloseAssumption, NestedFrom = {}, Shape, CallbackThrows
  PROVE  UserThrows /\ Inner \in {"task", "closed"} /\ Outer # "none" /\ Empties /\ UNCHANGED ghosts
  <1>1. PICK u \in {"task", "closed"} : At(u)
    BY DEF CallbackThrows
  <1>2. stack' = SubSeq(stack, 1, Len(stack) - 2) /\ UserThrows /\ UNCHANGED ghosts
    BY DEF CallbackThrows
  <1>3. Inner = u /\ Inner # "none" /\ Outer # "none"
    BY <1>1, AtCall DEF UserCode
  <1> QED
    BY <1>1, <1>2, <1>3, Unstacked
-----------------------------------------------------------------------------
(***************************************************************************)
(* The close, when user code does not pump again.                           *)
(***************************************************************************)
\* The veto callback is asked once: it has been while it runs, and has not been before.
Asked ==
    /\ asked \in {0, 1} /\ notices \in Nat
    /\ alive /\ phase = "Requesting" => asked = IF Inner = "veto" THEN 1 ELSE 0

\* No request gets past the first half of the close-control section unasked.
Past == Outer = "complete" /\ alive => phase # "Requesting" \/ Inner = "veto"

\* No callback that requested the close is under way when it completes.
Unwound == phase = "Closed" => ~Req

\* Outside the pumps and in the native wait, close work has something that wakes.
Awake ==
    ~UserThrows /\ Outer \in {"none", "wait"} /\ alive /\ phase \in {"Requesting", "Pending"} =>
        wake \/ tasks # <<>> \/ ~AppOwned

IInv == Queue /\ Shape /\ Asked /\ Past /\ Unwound /\ Awake

LEMMA ShapeKept ==
  ASSUME CloseAssumption, NestedFrom = {}, IInv, [Next]_vars
  PROVE  Shape'
  <1>0. /\ CloseAssumption /\ NestedFrom = {} /\ IInv
        /\ Queue /\ Shape /\ Asked /\ Past /\ Unwound /\ Awake
        /\ Known /\ Posted /\ Gone
    BY DEF IInv, Queue
  <1>1. CASE RequestClose
    BY <1>1, <1>0, RequestCloseStack DEF PumpsAt, CallsIn, Empties, Stays
  <1>2. CASE Destroy
    BY <1>2, <1>0, DestroyStack DEF PumpsAt, CallsIn, Empties, Stays
  <1>3. CASE UserPost
    BY <1>3, <1>0, UserPostStack DEF PumpsAt, CallsIn, Empties, Stays
  <1>4. CASE NativeClose
    BY <1>4, <1>0, NativeCloseStack DEF PumpsAt, CallsIn, Empties, Stays
  <1>5. CASE PumpBegin
    BY <1>5, <1>0, PumpBeginStack DEF PumpsAt, CallsIn, Empties, Stays
  <1>6. CASE WaitEnds
    BY <1>6, <1>0, WaitEndsStack DEF PumpsAt, CallsIn, Empties, Stays
  <1>7. CASE WaitInterrupted
    BY <1>7, <1>0, WaitInterruptedStack DEF PumpsAt, CallsIn, Empties, Stays
  <1>8. CASE DispatchWake
    BY <1>8, <1>0, DispatchWakeStack DEF PumpsAt, CallsIn, Empties, Stays
  <1>9. CASE HandlerBegins
    BY <1>9, <1>0, HandlerBeginsStack DEF PumpsAt, CallsIn, Empties, Stays
  <1>10. CASE DispatchDone
    BY <1>10, <1>0, DispatchDoneStack DEF PumpsAt, CallsIn, Empties, Stays
  <1>11. CASE RunUserTask
    BY <1>11, <1>0, RunUserTaskStack DEF PumpsAt, CallsIn, Empties, Stays
  <1>12. CASE RunRequestTask
    BY <1>12, <1>0, RunRequestTaskStack DEF PumpsAt, CallsIn, Empties, Stays
  <1>13. CASE RunCompletionTask
    BY <1>13, <1>0, RunCompletionTaskStack DEF PumpsAt, CallsIn, Empties, Stays
  <1>14. CASE TasksDone
    BY <1>14, <1>0, TasksDoneStack DEF PumpsAt, CallsIn, Empties, Stays
  <1>15. CASE Controls
    BY <1>15, <1>0, ControlsStack DEF PumpsAt, CallsIn, Empties, Stays
  <1>16. CASE Complete
    BY <1>16, <1>0, CompleteStack DEF PumpsAt, CallsIn, Empties, Stays
  <1>17. CASE VetoReturns
    BY <1>17, <1>0, VetoReturnsStack DEF PumpsAt, CallsIn, Empties, Stays
  <1>18. CASE CallbackReturns
    BY <1>18, <1>0, CallbackReturnsStack DEF PumpsAt, CallsIn, Empties, Stays
  <1>19. CASE CallbackThrows
    BY <1>19, <1>0, CallbackThrowsStack DEF PumpsAt, CallsIn, Empties, Stays
  <1>20. CASE UNCHANGED vars
    BY <1>20, <1>0, Stay DEF vars, posts, ghosts, PumpsAt, CallsIn, Empties, Stays
  <1> QED
    BY <1>1, <1>2, <1>3, <1>4, <1>5, <1>6, <1>7, <1>8, <1>9, <1>10, <1>11, <1>12, <1>13, <1>14,
       <1>15, <1>16, <1>17, <1>18, <1>19, <1>20
       DEF Next, UserStep, PumpStep

LEMMA AskedKept ==
  ASSUME CloseAssumption, NestedFrom = {}, IInv, [Next]_vars
  PROVE  Asked'
  <1>0. /\ CloseAssumption /\ NestedFrom = {} /\ IInv
        /\ Queue /\ Shape /\ Asked /\ Past /\ Unwound /\ Awake
        /\ Known /\ Posted /\ Gone
    BY DEF IInv, Queue
  <1>1. CASE RequestClose
    BY <1>1, <1>0, RequestCloseStack, RequestCloseQueue
       DEF Asked, ghosts, Gone, PumpsAt, CallsIn, Empties, Stays
  <1>2. CASE Destroy
    BY <1>2, <1>0, DestroyStack, DestroyQueue
       DEF Asked, ghosts, Gone, PumpsAt, CallsIn, Empties, Stays
  <1>3. CASE UserPost
    BY <1>3, <1>0, UserPostStack, UserPostQueue
       DEF Asked, ghosts, Gone, PumpsAt, CallsIn, Empties, Stays
  <1>4. CASE NativeClose
    BY <1>4, <1>0, NativeCloseStack, NativeCloseQueue
       DEF Asked, ghosts, Gone, PumpsAt, CallsIn, Empties, Stays
  <1>5. CASE PumpBegin
    BY <1>5, <1>0, PumpBeginStack, PumpBeginQueue, Where
       DEF Asked, ghosts, Gone, PumpsAt, CallsIn, Empties, Stays, QuietQueue
  <1>6. CASE WaitEnds
    BY <1>6, <1>0, WaitEndsStack, WaitEndsQueue
       DEF Asked, ghosts, Gone, PumpsAt, CallsIn, Empties, Stays, QuietQueue
  <1>7. CASE WaitInterrupted
    BY <1>7, <1>0, WaitInterruptedStack, WaitInterruptedQueue
       DEF Asked, ghosts, Gone, PumpsAt, CallsIn, Empties, Stays, QuietQueue
  <1>8. CASE DispatchWake
    BY <1>8, <1>0, DispatchWakeStack, DispatchWakeQueue
       DEF Asked, ghosts, Gone, PumpsAt, CallsIn, Empties, Stays, QuietQueue
  <1>9. CASE HandlerBegins
    BY <1>9, <1>0, HandlerBeginsStack, HandlerBeginsQueue
       DEF Asked, ghosts, Gone, PumpsAt, CallsIn, Empties, Stays, QuietQueue
  <1>10. CASE DispatchDone
    BY <1>10, <1>0, DispatchDoneStack, DispatchDoneQueue
       DEF Asked, ghosts, Gone, PumpsAt, CallsIn, Empties, Stays, QuietQueue
  <1>11. CASE RunUserTask
    BY <1>11, <1>0, RunUserTaskStack, RunUserTaskQueue
       DEF Asked, ghosts, Gone, PumpsAt, CallsIn, Empties, Stays
  <1>12. CASE RunRequestTask
    BY <1>12, <1>0, RunRequestTaskStack, RunRequestTaskQueue
       DEF Asked, ghosts, Gone, PumpsAt, CallsIn, Empties, Stays
  <1>13. CASE RunCompletionTask
    BY <1>13, <1>0, RunCompletionTaskStack, RunCompletionTaskQueue
       DEF Asked, ghosts, Gone, PumpsAt, CallsIn, Empties, Stays, Completes
  <1>14. CASE TasksDone
    BY <1>14, <1>0, TasksDoneStack, TasksDoneQueue
       DEF Asked, ghosts, Gone, PumpsAt, CallsIn, Empties, Stays, QuietQueue
  <1>15. CASE Controls
    BY <1>15, <1>0, ControlsStack, ControlsQueue
       DEF Asked, ghosts, Gone, PumpsAt, CallsIn, Empties, Stays
  <1>16. CASE Complete
    BY <1>16, <1>0, CompleteStack, CompleteQueue
       DEF Asked, ghosts, Gone, PumpsAt, CallsIn, Empties, Stays, Completes
  <1>17. CASE VetoReturns
    BY <1>17, <1>0, VetoReturnsStack, VetoReturnsQueue
       DEF Asked, ghosts, Gone, PumpsAt, CallsIn, Empties, Stays
  <1>18. CASE CallbackReturns
    BY <1>18, <1>0, CallbackReturnsStack, CallbackReturnsQueue
       DEF Asked, ghosts, Gone, PumpsAt, CallsIn, Empties, Stays, QuietQueue
  <1>19. CASE CallbackThrows
    BY <1>19, <1>0, CallbackThrowsStack, CallbackThrowsQueue
       DEF Asked, ghosts, Gone, PumpsAt, CallsIn, Empties, Stays, QuietQueue
  <1>20. CASE UNCHANGED vars
    BY <1>20, <1>0, Stay DEF vars, posts, ghosts, Asked, Gone, PumpsAt, CallsIn, Empties, Stays
  <1> QED
    BY <1>1, <1>2, <1>3, <1>4, <1>5, <1>6, <1>7, <1>8, <1>9, <1>10, <1>11, <1>12, <1>13, <1>14,
       <1>15, <1>16, <1>17, <1>18, <1>19, <1>20
       DEF Next, UserStep, PumpStep

LEMMA PastKept ==
  ASSUME CloseAssumption, NestedFrom = {}, IInv, [Next]_vars
  PROVE  Past'
  <1>0. /\ CloseAssumption /\ NestedFrom = {} /\ IInv
        /\ Queue /\ Shape /\ Asked /\ Past /\ Unwound /\ Awake
        /\ Known /\ Posted /\ Gone
    BY DEF IInv, Queue
  <1>1. CASE RequestClose
    BY <1>1, <1>0, RequestCloseStack, RequestCloseQueue
       DEF Past, Gone, Phases, PumpsAt, CallsIn, Empties, Stays
  <1>2. CASE Destroy
    BY <1>2, <1>0, DestroyStack, DestroyQueue
       DEF Past, Gone, Phases, PumpsAt, CallsIn, Empties, Stays
  <1>3. CASE UserPost
    BY <1>3, <1>0, UserPostStack, UserPostQueue
       DEF Past, Gone, Phases, PumpsAt, CallsIn, Empties, Stays
  <1>4. CASE NativeClose
    BY <1>4, <1>0, NativeCloseStack, NativeCloseQueue
       DEF Past, Gone, Phases, PumpsAt, CallsIn, Empties, Stays
  <1>5. CASE PumpBegin
    BY <1>5, <1>0, PumpBeginStack, PumpBeginQueue
       DEF Past, Gone, Phases, PumpsAt, CallsIn, Empties, Stays, QuietQueue
  <1>6. CASE WaitEnds
    BY <1>6, <1>0, WaitEndsStack, WaitEndsQueue
       DEF Past, Gone, Phases, PumpsAt, CallsIn, Empties, Stays, QuietQueue
  <1>7. CASE WaitInterrupted
    BY <1>7, <1>0, WaitInterruptedStack, WaitInterruptedQueue
       DEF Past, Gone, Phases, PumpsAt, CallsIn, Empties, Stays, QuietQueue
  <1>8. CASE DispatchWake
    BY <1>8, <1>0, DispatchWakeStack, DispatchWakeQueue
       DEF Past, Gone, Phases, PumpsAt, CallsIn, Empties, Stays, QuietQueue
  <1>9. CASE HandlerBegins
    BY <1>9, <1>0, HandlerBeginsStack, HandlerBeginsQueue
       DEF Past, Gone, Phases, PumpsAt, CallsIn, Empties, Stays, QuietQueue
  <1>10. CASE DispatchDone
    BY <1>10, <1>0, DispatchDoneStack, DispatchDoneQueue
       DEF Past, Gone, Phases, PumpsAt, CallsIn, Empties, Stays, QuietQueue
  <1>11. CASE RunUserTask
    BY <1>11, <1>0, RunUserTaskStack, RunUserTaskQueue
       DEF Past, Gone, Phases, PumpsAt, CallsIn, Empties, Stays
  <1>12. CASE RunRequestTask
    BY <1>12, <1>0, RunRequestTaskStack, RunRequestTaskQueue
       DEF Past, Gone, Phases, PumpsAt, CallsIn, Empties, Stays
  <1>13. CASE RunCompletionTask
    BY <1>13, <1>0, RunCompletionTaskStack, RunCompletionTaskQueue
       DEF Past, Gone, Phases, PumpsAt, CallsIn, Empties, Stays, Completes
  <1>14. CASE TasksDone
    BY <1>14, <1>0, TasksDoneStack, TasksDoneQueue
       DEF Past, Gone, Phases, PumpsAt, CallsIn, Empties, Stays, QuietQueue
  <1>15. CASE Controls
    BY <1>15, <1>0, ControlsStack, ControlsQueue
       DEF Past, Gone, Phases, PumpsAt, CallsIn, Empties, Stays
  <1>16. CASE Complete
    BY <1>16, <1>0, CompleteStack, CompleteQueue
       DEF Past, Gone, Phases, PumpsAt, CallsIn, Empties, Stays, Completes
  <1>17. CASE VetoReturns
    BY <1>17, <1>0, VetoReturnsStack, VetoReturnsQueue
       DEF Past, Gone, Phases, PumpsAt, CallsIn, Empties, Stays
  <1>18. CASE CallbackReturns
    BY <1>18, <1>0, CallbackReturnsStack, CallbackReturnsQueue
       DEF Past, Gone, Phases, PumpsAt, CallsIn, Empties, Stays, QuietQueue
  <1>19. CASE CallbackThrows
    BY <1>19, <1>0, CallbackThrowsStack, CallbackThrowsQueue
       DEF Past, Gone, Phases, PumpsAt, CallsIn, Empties, Stays, QuietQueue
  <1>20. CASE UNCHANGED vars
    BY <1>20, <1>0, Stay
       DEF vars, posts, ghosts, Past, Gone, Phases, PumpsAt, CallsIn, Empties, Stays
  <1> QED
    BY <1>1, <1>2, <1>3, <1>4, <1>5, <1>6, <1>7, <1>8, <1>9, <1>10, <1>11, <1>12, <1>13, <1>14,
       <1>15, <1>16, <1>17, <1>18, <1>19, <1>20
       DEF Next, UserStep, PumpStep

LEMMA UnwoundKept ==
  ASSUME CloseAssumption, NestedFrom = {}, IInv, [Next]_vars
  PROVE  Unwound'
  <1>0. /\ CloseAssumption /\ NestedFrom = {} /\ IInv
        /\ Queue /\ Shape /\ Asked /\ Past /\ Unwound /\ Awake
        /\ Known /\ Posted /\ Gone
    BY DEF IInv, Queue
  <1>1. CASE RequestClose
    BY <1>1, <1>0, Where, RequestCloseStack, RequestCloseQueue
       DEF Unwound, Gone, Phases, PumpsAt, CallsIn, Empties, Stays
  <1>2. CASE Destroy
    BY <1>2, <1>0, Where, DestroyStack, DestroyQueue
       DEF Unwound, Gone, Phases, PumpsAt, CallsIn, Empties, Stays
  <1>3. CASE UserPost
    BY <1>3, <1>0, Where, UserPostStack, UserPostQueue
       DEF Unwound, Gone, Phases, PumpsAt, CallsIn, Empties, Stays
  <1>4. CASE NativeClose
    BY <1>4, <1>0, Where, NativeCloseStack, NativeCloseQueue
       DEF Unwound, Gone, Phases, PumpsAt, CallsIn, Empties, Stays
  <1>5. CASE PumpBegin
    BY <1>5, <1>0, Where, PumpBeginStack, PumpBeginQueue
       DEF Unwound, Gone, Phases, PumpsAt, CallsIn, Empties, Stays, QuietQueue
  <1>6. CASE WaitEnds
    BY <1>6, <1>0, Where, WaitEndsStack, WaitEndsQueue
       DEF Unwound, Gone, Phases, PumpsAt, CallsIn, Empties, Stays, QuietQueue
  <1>7. CASE WaitInterrupted
    BY <1>7, <1>0, Where, WaitInterruptedStack, WaitInterruptedQueue
       DEF Unwound, Gone, Phases, PumpsAt, CallsIn, Empties, Stays, QuietQueue
  <1>8. CASE DispatchWake
    BY <1>8, <1>0, Where, DispatchWakeStack, DispatchWakeQueue
       DEF Unwound, Gone, Phases, PumpsAt, CallsIn, Empties, Stays, QuietQueue
  <1>9. CASE HandlerBegins
    BY <1>9, <1>0, Where, HandlerBeginsStack, HandlerBeginsQueue
       DEF Unwound, Gone, Phases, PumpsAt, CallsIn, Empties, Stays, QuietQueue
  <1>10. CASE DispatchDone
    BY <1>10, <1>0, Where, DispatchDoneStack, DispatchDoneQueue
       DEF Unwound, Gone, Phases, PumpsAt, CallsIn, Empties, Stays, QuietQueue
  <1>11. CASE RunUserTask
    BY <1>11, <1>0, Where, RunUserTaskStack, RunUserTaskQueue
       DEF Unwound, Gone, Phases, PumpsAt, CallsIn, Empties, Stays
  <1>12. CASE RunRequestTask
    BY <1>12, <1>0, Where, RunRequestTaskStack, RunRequestTaskQueue
       DEF Unwound, Gone, Phases, PumpsAt, CallsIn, Empties, Stays
  <1>13. CASE RunCompletionTask
    BY <1>13, <1>0, Where, RunCompletionTaskStack, RunCompletionTaskQueue
       DEF Unwound, Gone, Phases, PumpsAt, CallsIn, Empties, Stays, Completes
  <1>14. CASE TasksDone
    BY <1>14, <1>0, Where, TasksDoneStack, TasksDoneQueue
       DEF Unwound, Gone, Phases, PumpsAt, CallsIn, Empties, Stays, QuietQueue
  <1>15. CASE Controls
    BY <1>15, <1>0, Where, ControlsStack, ControlsQueue
       DEF Unwound, Gone, Phases, PumpsAt, CallsIn, Empties, Stays
  <1>16. CASE Complete
    BY <1>16, <1>0, Where, CompleteStack, CompleteQueue
       DEF Unwound, Gone, Phases, PumpsAt, CallsIn, Empties, Stays, Completes
  <1>17. CASE VetoReturns
    BY <1>17, <1>0, Where, VetoReturnsStack, VetoReturnsQueue
       DEF Unwound, Gone, Phases, PumpsAt, CallsIn, Empties, Stays
  <1>18. CASE CallbackReturns
    BY <1>18, <1>0, Where, CallbackReturnsStack, CallbackReturnsQueue
       DEF Unwound, Gone, Phases, PumpsAt, CallsIn, Empties, Stays, QuietQueue
  <1>19. CASE CallbackThrows
    BY <1>19, <1>0, Where, CallbackThrowsStack, CallbackThrowsQueue
       DEF Unwound, Gone, Phases, PumpsAt, CallsIn, Empties, Stays, QuietQueue
  <1>20. CASE UNCHANGED vars
    BY <1>20, <1>0, Where, Stay
       DEF vars, posts, ghosts, Unwound, Gone, Phases, PumpsAt, CallsIn, Empties, Stays
  <1> QED
    BY <1>1, <1>2, <1>3, <1>4, <1>5, <1>6, <1>7, <1>8, <1>9, <1>10, <1>11, <1>12, <1>13, <1>14,
       <1>15, <1>16, <1>17, <1>18, <1>19, <1>20
       DEF Next, UserStep, PumpStep

LEMMA AwakeKept ==
  ASSUME CloseAssumption, NestedFrom = {}, IInv, [Next]_vars
  PROVE  Awake'
  <1>0. /\ CloseAssumption /\ NestedFrom = {} /\ IInv
        /\ Queue /\ Shape /\ Asked /\ Past /\ Unwound /\ Awake
        /\ Known /\ Posted /\ Gone
    BY DEF IInv, Queue
  <1>1. CASE RequestClose

    <2>1. wake' \/ tasks' # <<>> \/ ~RejectionWakes
      BY <1>1, <1>0, RequestCloseQueue, Scheduled
    <2> QED
      BY <2>1 DEF Awake, RejectionWakes
  <1>2. CASE Destroy
    BY <1>2, <1>0, DestroyStack, DestroyQueue
       DEF Awake, Gone, Past, PumpsAt, CallsIn, Empties, Stays
  <1>3. CASE UserPost

    <2>1. tasks' # <<>>
      BY <1>3, <1>0, UserPostQueue, Added
    <2> QED
      BY <2>1 DEF Awake
  <1>4. CASE NativeClose
    BY <1>4, <1>0, NativeCloseStack, NativeCloseQueue
       DEF Awake, Gone, Past, PumpsAt, CallsIn, Empties, Stays
  <1>5. CASE PumpBegin
    BY <1>5, <1>0, PumpBeginStack, PumpBeginQueue
       DEF Awake, Gone, Past, PumpsAt, CallsIn, Empties, Stays, QuietQueue
  <1>6. CASE WaitEnds
    BY <1>6, <1>0, WaitEndsStack, WaitEndsQueue
       DEF Awake, Gone, Past, PumpsAt, CallsIn, Empties, Stays, QuietQueue
  <1>7. CASE WaitInterrupted
    BY <1>7, <1>0, WaitInterruptedStack, WaitInterruptedQueue
       DEF Awake, Gone, Past, PumpsAt, CallsIn, Empties, Stays, QuietQueue
  <1>8. CASE DispatchWake
    BY <1>8, <1>0, DispatchWakeStack, DispatchWakeQueue
       DEF Awake, Gone, Past, PumpsAt, CallsIn, Empties, Stays, QuietQueue
  <1>9. CASE HandlerBegins
    BY <1>9, <1>0, HandlerBeginsStack, HandlerBeginsQueue
       DEF Awake, Gone, Past, PumpsAt, CallsIn, Empties, Stays, QuietQueue
  <1>10. CASE DispatchDone
    BY <1>10, <1>0, DispatchDoneStack, DispatchDoneQueue
       DEF Awake, Gone, Past, PumpsAt, CallsIn, Empties, Stays, QuietQueue
  <1>11. CASE RunUserTask
    BY <1>11, <1>0, RunUserTaskStack, RunUserTaskQueue
       DEF Awake, Gone, Past, PumpsAt, CallsIn, Empties, Stays
  <1>12. CASE RunRequestTask
    BY <1>12, <1>0, RunRequestTaskStack, RunRequestTaskQueue
       DEF Awake, Gone, Past, PumpsAt, CallsIn, Empties, Stays
  <1>13. CASE RunCompletionTask
    BY <1>13, <1>0, RunCompletionTaskStack, RunCompletionTaskQueue
       DEF Awake, Gone, Past, PumpsAt, CallsIn, Empties, Stays, Completes
  <1>14. CASE TasksDone
    BY <1>14, <1>0, TasksDoneStack, TasksDoneQueue
       DEF Awake, Gone, Past, PumpsAt, CallsIn, Empties, Stays, QuietQueue
  <1>15. CASE Controls
    BY <1>15, <1>0, ControlsStack, ControlsQueue
       DEF Awake, Gone, Past, PumpsAt, CallsIn, Empties, Stays
  <1>16. CASE Complete
    BY <1>16, <1>0, CompleteStack, CompleteQueue
       DEF Awake, Gone, Past, PumpsAt, CallsIn, Empties, Stays, Completes
  <1>17. CASE VetoReturns
    BY <1>17, <1>0, VetoReturnsStack, VetoReturnsQueue, Where
       DEF Awake, Gone, Past, PumpsAt, CallsIn, Empties, Stays
  <1>18. CASE CallbackReturns
    BY <1>18, <1>0, CallbackReturnsStack, CallbackReturnsQueue, Where
       DEF Awake, Gone, Past, PumpsAt, CallsIn, Empties, Stays, QuietQueue
  <1>19. CASE CallbackThrows
    BY <1>19, <1>0, CallbackThrowsStack, CallbackThrowsQueue
       DEF Awake, Gone, Past, PumpsAt, CallsIn, Empties, Stays, QuietQueue
  <1>20. CASE UNCHANGED vars
    BY <1>20, <1>0, Stay
       DEF vars, posts, ghosts, Awake, Gone, Past, PumpsAt, CallsIn, Empties, Stays
  <1> QED
    BY <1>1, <1>2, <1>3, <1>4, <1>5, <1>6, <1>7, <1>8, <1>9, <1>10, <1>11, <1>12, <1>13, <1>14,
       <1>15, <1>16, <1>17, <1>18, <1>19, <1>20
       DEF Next, UserStep, PumpStep

LEMMA Invariant == ASSUME CloseAssumption, NestedFrom = {} PROVE Spec => []IInv
  <1>1. Init => IInv
    <2>1. ASSUME Init PROVE IInv
      <3>1. Queue
        BY <2>1, QueueStarts
      <3>2. Shape /\ Outer = "none" /\ Inner = "none" /\ ~Req
        <4>1. stack = <<>> /\ Len(stack) = 0
          BY <2>1 DEF Init
        <4> QED
          BY <4>1 DEF Shape, Outer, Inner, Req
      <3> QED
        BY <2>1, <3>1, <3>2 DEF Init, IInv, Asked, Past, Unwound, Awake
    <2> QED
      BY <2>1
  <1>2. IInv /\ [Next]_vars => IInv'
    <2>1. ASSUME IInv, [Next]_vars PROVE IInv'
      <3>1. Queue' /\ Shape' /\ Asked'
        BY <2>1, QueueKept, ShapeKept, AskedKept DEF IInv
      <3>2. Past' /\ Unwound' /\ Awake'
        BY <2>1, PastKept, UnwoundKept, AwakeKept
      <3> QED
        BY <3>1, <3>2 DEF IInv
    <2> QED
      BY <2>1
  <1> QED
    BY <1>1, <1>2, PTL DEF Spec

\* Type correctness; in particular the veto callback is never asked twice.
THEOREM CloseTyped == ASSUME CloseAssumption, NestedFrom = {} PROVE Spec => [](TypeOK /\ AskedOnce)
  <1>1. ASSUME IInv PROVE TypeOK /\ AskedOnce
    <2>1. stack \in Seq(Activation)
      BY <1>1, Where DEF IInv
    <2>2. MaxPumps \in Nat /\ MaxPumps >= 1
      BY DEF CloseAssumption
    <2> QED
      BY <1>1, <2>1, <2>2 DEF IInv, Queue, Known, Asked, TypeOK, AskedOnce
  <1>2. IInv => TypeOK /\ AskedOnce
    BY <1>1
  <1> QED
    BY <1>2, Invariant, PTL

\* The close completes after the callback that requested it has unwound, also when
\* the posts of the completion are rejected.
THEOREM AlwaysUnwound ==
  ASSUME CloseAssumption, NestedFrom = {}
  PROVE  Spec => []CompletionUnwound
  <1>1. ASSUME IInv, phase = "Closed", NEW i \in 1 .. Len(stack), stack[i].requested
        PROVE  FALSE
    <2>1. ~Req /\ Shape
      BY <1>1 DEF IInv, Unwound
    <2>2. ASSUME NEW p \in PumpPoints, NEW t \in Left, Pumping(stack, p, t) PROVE FALSE
      <3>1. Len(stack) = 1 /\ ~stack[1].requested
        BY <2>2 DEF Pumping
      <3> QED
        BY <1>1, <3>1
    <2>3. ASSUME NEW p \in {"dispatch", "tasks", "complete"}, NEW t \in Left, NEW u \in UserCode,
                 NEW r \in BOOLEAN, Calling(stack, p, t, u, r)
          PROVE  FALSE
      <3>1. Len(stack) = 2 /\ ~stack[1].requested
        BY <2>3 DEF Calling
      <3>2. ~stack[2].requested
        BY <2>1, <3>1 DEF Req
      <3> QED
        BY <1>1, <3>1, <3>2
    <2>4. stack # <<>>
      BY <1>1
    <2> QED
      BY <2>1, <2>2, <2>3, <2>4 DEF Shape
  <1>2. IInv => CompletionUnwound
    BY <1>1 DEF CompletionUnwound
  <1> QED
    BY <1>2, Invariant, PTL

\* The loop does not fall asleep on close work when no exception takes it past the
\* close-control section.
THEOREM NeverSleepsOnClose ==
  ASSUME CloseAssumption, NestedFrom = {}, ~UserThrows
  PROVE  Spec => []NoSleepOnDurableClose
  <1>1. ASSUME IInv, Asleep, alive PROVE phase \notin {"Requesting", "Pending"}
    <2>1. Outer = "wait"
      BY <1>1, Where, Points DEF IInv, Asleep
    <2> QED
      BY <1>1, <2>1 DEF IInv, Awake, Asleep, CloseControlReady
  <1>2. IInv => NoSleepOnDurableClose
    BY <1>1 DEF NoSleepOnDurableClose
  <1> QED
    BY <1>2, Invariant, PTL

\* The status tells the phases apart.
LEMMA StatusIs ==
  ASSUME Queue
  PROVE  /\ Status \in {"destroyed", "open", "asking", "accepted", "closed"}
         /\ Status = "destroyed" <=> ~alive
         /\ Status = "open" <=> alive /\ phase = "Open"
         /\ Status = "asking" <=> alive /\ phase = "Requesting"
         /\ Status = "accepted" <=> alive /\ phase = "Pending"
         /\ Status = "closed" <=> alive /\ phase = "Closed"
  BY DEF Queue, Known, Gone, Status, Phases

LEMMA StatusBecomes ==
  ASSUME Queue'
  PROVE  /\ Status' \in {"destroyed", "open", "asking", "accepted", "closed"}
         /\ Status' = "destroyed" <=> ~alive'
         /\ Status' = "open" <=> alive' /\ phase' = "Open"
         /\ Status' = "asking" <=> alive' /\ phase' = "Requesting"
         /\ Status' = "accepted" <=> alive' /\ phase' = "Pending"
         /\ Status' = "closed" <=> alive' /\ phase' = "Closed"
  BY DEF Queue, Known, Gone, Status, Phases

LEMMA ContractBegins == ASSUME CloseAssumption, Init PROVE Contract!ContractInit
  <1>1. Queue
    BY QueueStarts
  <1> QED
    BY <1>1, StatusIs DEF Init, Contract!ContractInit

\* Every step is a step of the contract or changes nothing it sees.
LEMMA ContractStep ==
  ASSUME CloseAssumption, NestedFrom = {}, IInv, [Next]_vars
  PROVE  [Contract!ContractNext]_(Contract!contractVars)
  <1>0. /\ CloseAssumption /\ NestedFrom = {} /\ IInv
        /\ Queue /\ Shape /\ Asked /\ Past /\ Unwound /\ Awake
        /\ Known /\ Posted /\ Gone
    BY DEF IInv, Queue
  <1>s. /\ Status = "destroyed" <=> ~alive
        /\ Status = "open" <=> alive /\ phase = "Open"
        /\ Status = "asking" <=> alive /\ phase = "Requesting"
        /\ Status = "accepted" <=> alive /\ phase = "Pending"
        /\ Status = "closed" <=> alive /\ phase = "Closed"
    BY <1>0, StatusIs
  <1>t. /\ Status' = "destroyed" <=> ~alive'
        /\ Status' = "open" <=> alive' /\ phase' = "Open"
        /\ Status' = "asking" <=> alive' /\ phase' = "Requesting"
        /\ Status' = "accepted" <=> alive' /\ phase' = "Pending"
        /\ Status' = "closed" <=> alive' /\ phase' = "Closed"
        /\ Status' \in {"destroyed", "open", "asking", "accepted", "closed"}
        /\ Status \in {"destroyed", "open", "asking", "accepted", "closed"}
    BY <1>0, QueueKept, StatusIs, StatusBecomes
  <1>1. CASE RequestClose
    BY <1>1, <1>0, <1>s, <1>t, RequestCloseStack, RequestCloseQueue
       DEF Asked, Gone, ghosts, Contract!ContractNext, Contract!contractVars,
           Contract!NativeRequest, Contract!Ask, Contract!Answer, Contract!ProgrammaticRequest,
           Contract!Complete, Contract!Destroy, PumpsAt, CallsIn, Empties, Stays
  <1>2. CASE Destroy
    BY <1>2, <1>0, <1>s, <1>t, DestroyStack, DestroyQueue
       DEF Asked, Gone, ghosts, Contract!ContractNext, Contract!contractVars,
           Contract!NativeRequest, Contract!Ask, Contract!Answer, Contract!ProgrammaticRequest,
           Contract!Complete, Contract!Destroy, PumpsAt, CallsIn, Empties, Stays
  <1>3. CASE UserPost
    BY <1>3, <1>0, <1>s, <1>t, UserPostStack, UserPostQueue
       DEF Asked, Gone, ghosts, Contract!ContractNext, Contract!contractVars,
           Contract!NativeRequest, Contract!Ask, Contract!Answer, Contract!ProgrammaticRequest,
           Contract!Complete, Contract!Destroy, PumpsAt, CallsIn, Empties, Stays
  <1>4. CASE NativeClose
    BY <1>4, <1>0, <1>s, <1>t, NativeCloseStack, NativeCloseQueue
       DEF Asked, Gone, ghosts, Contract!ContractNext, Contract!contractVars,
           Contract!NativeRequest, Contract!Ask, Contract!Answer, Contract!ProgrammaticRequest,
           Contract!Complete, Contract!Destroy, PumpsAt, CallsIn, Empties, Stays
  <1>5. CASE PumpBegin
    BY <1>5, <1>0, <1>s, <1>t, PumpBeginStack, PumpBeginQueue
       DEF Asked, Gone, ghosts, Contract!ContractNext, Contract!contractVars,
           Contract!NativeRequest, Contract!Ask, Contract!Answer, Contract!ProgrammaticRequest,
           Contract!Complete, Contract!Destroy, PumpsAt, CallsIn, Empties, Stays, QuietQueue
  <1>6. CASE WaitEnds
    BY <1>6, <1>0, <1>s, <1>t, WaitEndsStack, WaitEndsQueue
       DEF Asked, Gone, ghosts, Contract!ContractNext, Contract!contractVars,
           Contract!NativeRequest, Contract!Ask, Contract!Answer, Contract!ProgrammaticRequest,
           Contract!Complete, Contract!Destroy, PumpsAt, CallsIn, Empties, Stays, QuietQueue
  <1>7. CASE WaitInterrupted
    BY <1>7, <1>0, <1>s, <1>t, WaitInterruptedStack, WaitInterruptedQueue
       DEF Asked, Gone, ghosts, Contract!ContractNext, Contract!contractVars,
           Contract!NativeRequest, Contract!Ask, Contract!Answer, Contract!ProgrammaticRequest,
           Contract!Complete, Contract!Destroy, PumpsAt, CallsIn, Empties, Stays, QuietQueue
  <1>8. CASE DispatchWake
    BY <1>8, <1>0, <1>s, <1>t, DispatchWakeStack, DispatchWakeQueue
       DEF Asked, Gone, ghosts, Contract!ContractNext, Contract!contractVars,
           Contract!NativeRequest, Contract!Ask, Contract!Answer, Contract!ProgrammaticRequest,
           Contract!Complete, Contract!Destroy, PumpsAt, CallsIn, Empties, Stays, QuietQueue
  <1>9. CASE HandlerBegins
    BY <1>9, <1>0, <1>s, <1>t, HandlerBeginsStack, HandlerBeginsQueue
       DEF Asked, Gone, ghosts, Contract!ContractNext, Contract!contractVars,
           Contract!NativeRequest, Contract!Ask, Contract!Answer, Contract!ProgrammaticRequest,
           Contract!Complete, Contract!Destroy, PumpsAt, CallsIn, Empties, Stays, QuietQueue
  <1>10. CASE DispatchDone
    BY <1>10, <1>0, <1>s, <1>t, DispatchDoneStack, DispatchDoneQueue
       DEF Asked, Gone, ghosts, Contract!ContractNext, Contract!contractVars,
           Contract!NativeRequest, Contract!Ask, Contract!Answer, Contract!ProgrammaticRequest,
           Contract!Complete, Contract!Destroy, PumpsAt, CallsIn, Empties, Stays, QuietQueue
  <1>11. CASE RunUserTask
    BY <1>11, <1>0, <1>s, <1>t, RunUserTaskStack, RunUserTaskQueue
       DEF Asked, Gone, ghosts, Contract!ContractNext, Contract!contractVars,
           Contract!NativeRequest, Contract!Ask, Contract!Answer, Contract!ProgrammaticRequest,
           Contract!Complete, Contract!Destroy, PumpsAt, CallsIn, Empties, Stays
  <1>12. CASE RunRequestTask
    BY <1>12, <1>0, <1>s, <1>t, RunRequestTaskStack, RunRequestTaskQueue
       DEF Asked, Gone, ghosts, Contract!ContractNext, Contract!contractVars,
           Contract!NativeRequest, Contract!Ask, Contract!Answer, Contract!ProgrammaticRequest,
           Contract!Complete, Contract!Destroy, PumpsAt, CallsIn, Empties, Stays
  <1>13. CASE RunCompletionTask
    BY <1>13, <1>0, <1>s, <1>t, RunCompletionTaskStack, RunCompletionTaskQueue
       DEF Asked, Gone, ghosts, Contract!ContractNext, Contract!contractVars,
           Contract!NativeRequest, Contract!Ask, Contract!Answer, Contract!ProgrammaticRequest,
           Contract!Complete, Contract!Destroy, PumpsAt, CallsIn, Empties, Stays, Completes
  <1>14. CASE TasksDone
    BY <1>14, <1>0, <1>s, <1>t, TasksDoneStack, TasksDoneQueue
       DEF Asked, Gone, ghosts, Contract!ContractNext, Contract!contractVars,
           Contract!NativeRequest, Contract!Ask, Contract!Answer, Contract!ProgrammaticRequest,
           Contract!Complete, Contract!Destroy, PumpsAt, CallsIn, Empties, Stays, QuietQueue
  <1>15. CASE Controls
    BY <1>15, <1>0, <1>s, <1>t, ControlsStack, ControlsQueue
       DEF Asked, Gone, ghosts, Contract!ContractNext, Contract!contractVars,
           Contract!NativeRequest, Contract!Ask, Contract!Answer, Contract!ProgrammaticRequest,
           Contract!Complete, Contract!Destroy, PumpsAt, CallsIn, Empties, Stays
  <1>16. CASE Complete
    BY <1>16, <1>0, <1>s, <1>t, CompleteStack, CompleteQueue, Where
       DEF Asked, Gone, ghosts, Contract!ContractNext, Contract!contractVars,
           Contract!NativeRequest, Contract!Ask, Contract!Answer, Contract!ProgrammaticRequest,
           Contract!Complete, Contract!Destroy, PumpsAt, CallsIn, Empties, Stays, Completes,
           QuietQueue
  <1>17. CASE VetoReturns
    BY <1>17, <1>0, <1>s, <1>t, VetoReturnsStack, VetoReturnsQueue
       DEF Asked, Gone, ghosts, Contract!ContractNext, Contract!contractVars,
           Contract!NativeRequest, Contract!Ask, Contract!Answer, Contract!ProgrammaticRequest,
           Contract!Complete, Contract!Destroy, PumpsAt, CallsIn, Empties, Stays
  <1>18. CASE CallbackReturns
    BY <1>18, <1>0, <1>s, <1>t, CallbackReturnsStack, CallbackReturnsQueue
       DEF Asked, Gone, ghosts, Contract!ContractNext, Contract!contractVars,
           Contract!NativeRequest, Contract!Ask, Contract!Answer, Contract!ProgrammaticRequest,
           Contract!Complete, Contract!Destroy, PumpsAt, CallsIn, Empties, Stays, QuietQueue
  <1>19. CASE CallbackThrows
    BY <1>19, <1>0, <1>s, <1>t, CallbackThrowsStack, CallbackThrowsQueue
       DEF Asked, Gone, ghosts, Contract!ContractNext, Contract!contractVars,
           Contract!NativeRequest, Contract!Ask, Contract!Answer, Contract!ProgrammaticRequest,
           Contract!Complete, Contract!Destroy, PumpsAt, CallsIn, Empties, Stays, QuietQueue
  <1>20. CASE UNCHANGED vars
    BY <1>20, <1>0, <1>s, <1>t, Stay
       DEF vars, posts, ghosts, Asked, Gone, Contract!ContractNext, Contract!contractVars,
           Contract!NativeRequest, Contract!Ask, Contract!Answer, Contract!ProgrammaticRequest,
           Contract!Complete, Contract!Destroy, PumpsAt, CallsIn, Empties, Stays
  <1> QED
    BY <1>1, <1>2, <1>3, <1>4, <1>5, <1>6, <1>7, <1>8, <1>9, <1>10, <1>11, <1>12, <1>13, <1>14,
       <1>15, <1>16, <1>17, <1>18, <1>19, <1>20
       DEF Next, UserStep, PumpStep

\* One question per native request, an accepted close that no later answer takes
\* back, one on_closed, and silence after destruction.
THEOREM CloseImplementsContract ==
  ASSUME CloseAssumption, NestedFrom = {}
  PROVE  Spec => ImplementsCloseContract
  <1>1. Init => Contract!ContractInit
    BY ContractBegins
  <1>2. IInv /\ [Next]_vars => [Contract!ContractNext]_(Contract!contractVars)
    BY ContractStep
  <1> QED
    BY <1>1, <1>2, Invariant, PTL DEF Spec, ImplementsCloseContract, Contract!ContractSpec
=============================================================================
