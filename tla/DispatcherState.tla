-------------------------- MODULE DispatcherState --------------------------
(***************************************************************************)
(* The locked sections of src/src/dispatcher.cpp as operators over one      *)
(* owner record, the DispatcherState struct.  Every operator is the effect  *)
(* of one critical section on DispatcherState::mutex; the modules that use  *)
(* them decide which thread enters which section when.                      *)
(*                                                                          *)
(* Callables are abstracted to their identity.  A queued entry keeps its    *)
(* sequence and the timer it fires for (0 for a plain post).                *)
(* next_timer_id and next_timer_sequence start at 1 and are incremented in  *)
(* the same two lines, so one counter stands for both and the id of a timer *)
(* is also its sequence.                                                    *)
(***************************************************************************)
EXTENDS Integers, Sequences, FiniteSets

CONSTANTS
    MaxPendingTasks,        \* kDispatcherMaxPendingTasks
    MaxActiveTimers,        \* kDispatcherMaxActiveTimers
    MaxTasksPerCheckpoint,  \* kDispatcherMaxTasksPerCheckpoint
    IdModulus,              \* 2^64: the counters wrap to 0 and stay there
    TimeMax                 \* DispatcherTimePoint::max()

ASSUME LimitsAssumption ==
    /\ MaxPendingTasks \in Nat \ {0}
    /\ MaxActiveTimers \in Nat \ {0}
    /\ MaxTasksPerCheckpoint \in Nat \ {0}
    /\ IdModulus \in Nat \ {0, 1}
    /\ TimeMax \in Nat

Time == 0 .. TimeMax
Ids  == 0 .. IdModulus - 1

Task  == [sequence : Ids, timer : Ids, repeating : BOOLEAN]
Timer == [id : Ids, due : Time, interval : Time, repeating : BOOLEAN]

DispatcherStates ==
    [tasks : Seq(Task), timers : SUBSET Timer,
     next_task_sequence : Ids, next_timer_id : Ids,
     closing : BOOLEAN, wake_pending : BOOLEAN]

NewDispatcherState ==
    [tasks |-> <<>>, timers |-> {}, next_task_sequence |-> 1,
     next_timer_id |-> 1, closing |-> FALSE, wake_pending |-> FALSE]

(***************************************************************************)
(* Helpers.                                                                 *)
(***************************************************************************)

\* can_add: the addition of a duration does not pass the clock's last point.
CanAdd(now, delta) == delta <= TimeMax - now

\* The counters are unsigned 64-bit; 0 after a wrap means "exhausted".  No
\* section advances a counter past the wrap.
Advance(n, k) == IF n + k = IdModulus THEN 0 ELSE n + k

\* The sequence numbers that are still unused, next_task_sequence included.
SequencesLeft(d) ==
    IF d.next_task_sequence = 0 THEN 0 ELSE IdModulus - d.next_task_sequence

CanEnqueue(d) ==
    /\ Len(d.tasks) < MaxPendingTasks
    /\ d.next_task_sequence # 0

\* enqueue_task_locked, given CanEnqueue(d).
Enqueue(d, timer, repeating) ==
    [d EXCEPT !.tasks = Append(@, [sequence  |-> d.next_task_sequence,
                                   timer     |-> timer,
                                   repeating |-> repeating]),
              !.next_task_sequence = Advance(@, 1)]

\* Set the flag that keeps later posters from signalling the loop again.
ArmWake(d) == [d EXCEPT !.wake_pending = TRUE]

(***************************************************************************)
(* Dispatcher::post, schedule_dispatcher_timer and Dispatcher::cancel.      *)
(***************************************************************************)

\* Mutant: the queue is tested for emptiness after the enqueue.
PostWakes_AfterEnqueue(d) == d.tasks # <<>> /\ ~d.wake_pending

PostWakes(d) == d.tasks = <<>> /\ ~d.wake_pending

PostLocked(d) ==
    LET queued == Enqueue(d, 0, FALSE)
    IN  IF PostWakes(d) THEN ArmWake(queued) ELSE queued

CanSchedule(d) ==
    /\ ~d.closing
    /\ Cardinality(d.timers) < MaxActiveTimers
    /\ d.next_timer_id # 0

ScheduleLocked(d, now, delay, repeating) ==
    [d EXCEPT !.timers = @ \cup {[id        |-> d.next_timer_id,
                                  due       |-> now + delay,
                                  interval  |-> IF repeating THEN delay ELSE 0,
                                  repeating |-> repeating]},
              !.next_timer_id = Advance(@, 1),
              !.wake_pending  = TRUE]

CancelLocked(d, timer) == [d EXCEPT !.timers = @ \ {timer}]

(***************************************************************************)
(* DispatcherOwner::checkpoint.                                             *)
(***************************************************************************)

DueTimers(d, now) == {t \in d.timers : t.due <= now}

Before(t, u) == t.due < u.due \/ (t.due = u.due /\ t.id < u.id)

\* The first k due timers in the order of std::sort.  Exactly one function
\* qualifies, because Before is a strict total order on timers.
FiringOrders(due, k) ==
    {f \in [1 .. k -> due] :
        /\ \A i, j \in 1 .. k : i < j => Before(f[i], f[j])
        /\ \A t \in due : \/ \E i \in 1 .. k : f[i] = t
                          \/ \A i \in 1 .. k : Before(f[i], t)}

\* Mutants: a batch ignores the room in the queue, the numbers that are left.
TransferLimit_NoPending(d, due) ==
    LET limits == {Cardinality(due), MaxTasksPerCheckpoint, SequencesLeft(d)}
    IN  CHOOSE n \in limits : \A m \in limits : n <= m

TransferLimit_NoSequences(d, due) ==
    LET limits == {Cardinality(due), MaxTasksPerCheckpoint,
                   MaxPendingTasks - Len(d.tasks)}
    IN  CHOOSE n \in limits : \A m \in limits : n <= m

\* How many due timers the transfer loop moves before it is done or blocked.
TransferLimit(d, due) ==
    LET limits == {Cardinality(due), MaxTasksPerCheckpoint,
                   MaxPendingTasks - Len(d.tasks), SequencesLeft(d)}
    IN  CHOOSE n \in limits : \A m \in limits : n <= m

\* Mutants: firings overtake the posted tasks; one-shots are not pruned.
Transfer_First(d, now, f, k) ==
    LET fired     == {f[i] : i \in 1 .. k}
        rearmed   == {t \in fired : t.repeating /\ CanAdd(now, t.interval)}
        firings   == [i \in 1 .. k |->
                        [sequence  |-> d.next_task_sequence + i - 1,
                         timer     |-> f[i].id,
                         repeating |-> f[i] \in rearmed]]
    IN  [d EXCEPT !.tasks  = firings \o @,
                  !.timers = (@ \ fired) \cup
                             {[t EXCEPT !.due = now + t.interval] : t \in rearmed},
                  !.next_task_sequence = Advance(@, k),
                  !.wake_pending = FALSE]

Transfer_KeepsOneShots(d, now, f, k) ==
    LET firings == [i \in 1 .. k |->
                      [sequence  |-> d.next_task_sequence + i - 1,
                       timer     |-> f[i].id,
                       repeating |-> f[i].repeating]]
    IN  [d EXCEPT !.tasks = @ \o firings,
                  !.next_task_sequence = Advance(@, k),
                  !.wake_pending = FALSE]

\* The queue after the firings f[1] .. f[k] were appended, the one-shots among
\* them pruned and the repeating ones moved to their next due time.  A
\* repeating timer whose next due time cannot be represented retires.
Transfer(d, now, f, k) ==
    LET fired     == {f[i] : i \in 1 .. k}
        rearmed   == {t \in fired : t.repeating /\ CanAdd(now, t.interval)}
        firings   == [i \in 1 .. k |->
                        [sequence  |-> d.next_task_sequence + i - 1,
                         timer     |-> f[i].id,
                         repeating |-> f[i] \in rearmed]]
    IN  [d EXCEPT !.tasks  = @ \o firings,
                  !.timers = (@ \ fired) \cup
                             {[t EXCEPT !.due = now + t.interval] : t \in rearmed},
                  !.next_task_sequence = Advance(@, k),
                  !.wake_pending = FALSE]

\* Mutant: the snapshot is the whole queue.
FrozenWork_NoLimit(d) == Len(d.tasks)

\* The number of callbacks a checkpoint may start, frozen when it starts.
FrozenWork(d) ==
    IF Len(d.tasks) < MaxTasksPerCheckpoint THEN Len(d.tasks)
                                            ELSE MaxTasksPerCheckpoint

\* The end of the locked section after a complete transfer.
MustRewake(d, blocked) == Len(d.tasks) > FrozenWork(d) \/ blocked

\* The catch block of the transfer section.
RecoverWake(d, now) ==
    ~d.closing /\ (d.tasks # <<>> \/ DueTimers(d, now) # {})

\* Mutant: the newest task is removed.
PopFront_PopsBack(d) == [d EXCEPT !.tasks = SubSeq(@, 1, Len(@) - 1)]

PopFront(d) == [d EXCEPT !.tasks = Tail(@)]

(***************************************************************************)
(* DispatcherOwner::shutdown and DispatcherOwner::next_delay.               *)
(***************************************************************************)

ShutdownLocked(d) ==
    [d EXCEPT !.closing = TRUE, !.tasks = <<>>, !.timers = {},
              !.wake_pending = FALSE]

\* The point in time up to which the loop may sleep; NoDeadline for nullopt.
NoDeadline == TimeMax + 1

\* Mutant: only the queue bounds the sleep.
NextDeadline_NoTimers(d, now) ==
    IF d.closing \/ d.tasks = <<>> THEN NoDeadline ELSE now

NextDeadline(d, now) ==
    CASE d.closing \/ (d.tasks = <<>> /\ d.timers = {}) -> NoDeadline
      [] ~d.closing /\ d.tasks # <<>> -> now
      [] OTHER -> LET dues == {t.due : t \in d.timers}
                      first == CHOOSE x \in dues : \A y \in dues : x <= y
                  IN  IF first <= now THEN now ELSE first
=============================================================================
