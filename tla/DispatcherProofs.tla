-------------------------- MODULE DispatcherProofs --------------------------
(***************************************************************************)
(* Proofs about Dispatcher, for every number of workers, every nesting      *)
(* depth and every value of the limits.                                     *)
(***************************************************************************)
EXTENDS Dispatcher, FiniteSetTheorems, SequenceTheorems, WellFoundedInduction,
        TLAPS

-----------------------------------------------------------------------------
(***************************************************************************)
(* The critical sections, one lemma each: what the section does to the      *)
(* owner record.                                                            *)
(***************************************************************************)

\* A set of natural numbers that is not empty has a least element.
LEMMA LeastElement ==
  ASSUME NEW S, S \subseteq Nat, S # {}
  PROVE  \E x \in S : \A y \in S : x <= y
  <1>1. \E x \in S : \A y \in S : ~(<<y, x>> \in OpToRel(<, Nat))
    BY NatLessThanWellFounded, WFMin
  <1>2. PICK x \in S : \A y \in S : ~(<<y, x>> \in OpToRel(<, Nat))
    BY <1>1
  <1>3. ASSUME NEW y \in S
        PROVE  x <= y
    <2>1. x \in Nat /\ y \in Nat
      OBVIOUS
    <2>2. ~(y < x)
      BY <1>2, <2>1 DEF OpToRel
    <2> QED
      BY <2>1, <2>2
  <1> QED
    BY <1>3

\* A fresh owner record.
LEMMA NewStateType ==
    /\ NewDispatcherState \in DispatcherStates
    /\ IsFiniteSet(NewDispatcherState.timers)
  <1>1. <<>> \in Seq(Task)
    OBVIOUS
  <1>2. 1 \in Ids /\ 1 \in Int
    BY LimitsAssumption DEF Ids
  <1>3. IsFiniteSet({})
    BY FS_EmptySet
  <1> QED
    BY <1>1, <1>2, <1>3 DEF NewDispatcherState, DispatcherStates

\* A counter stays an id when it advances by no more than what is left.
LEMMA AdvanceType ==
  ASSUME NEW n \in Ids, NEW k \in Nat, n + k <= IdModulus
  PROVE  Advance(n, k) \in Ids
  BY LimitsAssumption DEF Advance, Ids

\* post() appends one entry with the next sequence and touches nothing but the
\* queue, the counter and the wake flag, which it arms only when it was off.
LEMMA PostLockedEffect ==
  ASSUME NEW q \in DispatcherStates, CanEnqueue(q)
  PROVE  LET p == PostLocked(q) IN
         /\ p \in DispatcherStates
         /\ p.timers = q.timers
         /\ p.closing = q.closing
         /\ p.tasks = Append(q.tasks, [sequence |-> q.next_task_sequence,
                                       timer |-> 0, repeating |-> FALSE])
         /\ p.next_task_sequence = Advance(q.next_task_sequence, 1)
         /\ p.wake_pending = (q.wake_pending \/ PostWakes(q))
  <1>1. Advance(q.next_task_sequence, 1) \in Ids
    <2>1. q.next_task_sequence \in Ids
      BY DEF DispatcherStates
    <2>2. q.next_task_sequence + 1 <= IdModulus
      BY <2>1, LimitsAssumption DEF Ids
    <2> QED
      BY <2>1, <2>2, AdvanceType
  <1>2. [sequence |-> q.next_task_sequence, timer |-> 0, repeating |-> FALSE] \in Task
    BY LimitsAssumption DEF DispatcherStates, Task, Ids
  <1>3. q.tasks \in Seq(Task)
    BY DEF DispatcherStates
  <1>4. Append(q.tasks, [sequence |-> q.next_task_sequence,
                         timer |-> 0, repeating |-> FALSE]) \in Seq(Task)
    BY <1>2, <1>3, AppendProperties
  <1> QED
    BY <1>1, <1>4 DEF PostLocked, Enqueue, ArmWake, DispatcherStates, PostWakes

\* Arming the wake changes only the flag.
LEMMA ArmWakeEffect ==
  ASSUME NEW q \in DispatcherStates
  PROVE  LET p == ArmWake(q) IN
         /\ p \in DispatcherStates
         /\ p.timers = q.timers
         /\ p.closing = q.closing
         /\ p.tasks = q.tasks
         /\ p.next_task_sequence = q.next_task_sequence
         /\ p.next_timer_id = q.next_timer_id
         /\ p.wake_pending = TRUE
  BY DEF ArmWake, DispatcherStates

\* schedule adds one timer and arms the wake.
LEMMA ScheduleLockedEffect ==
  ASSUME NEW q \in DispatcherStates, IsFiniteSet(q.timers), CanSchedule(q),
         NEW time \in Time, NEW delay \in Time, NEW repeating \in BOOLEAN,
         time + delay <= TimeMax
  PROVE  LET p == ScheduleLocked(q, time, delay, repeating) IN
         /\ p \in DispatcherStates
         /\ IsFiniteSet(p.timers)
         /\ p.closing = q.closing
         /\ p.tasks = q.tasks
         /\ p.next_task_sequence = q.next_task_sequence
         /\ p.wake_pending = TRUE
  <1> DEFINE timer == [id |-> q.next_timer_id, due |-> time + delay,
                       interval |-> IF repeating THEN delay ELSE 0,
                       repeating |-> repeating]
  <1>1. timer \in Timer
    BY LimitsAssumption DEF Timer, Time, DispatcherStates
  <1>2. Advance(q.next_timer_id, 1) \in Ids
    <2>1. q.next_timer_id \in Ids
      BY DEF DispatcherStates
    <2>2. q.next_timer_id + 1 <= IdModulus
      BY <2>1, LimitsAssumption DEF Ids
    <2> QED
      BY <2>1, <2>2, AdvanceType
  <1>3. q.timers \cup {timer} \in SUBSET Timer
    BY <1>1 DEF DispatcherStates
  <1>4. IsFiniteSet(q.timers \cup {timer})
    BY FS_AddElement
  <1> HIDE DEF timer
  <1>5. ScheduleLocked(q, time, delay, repeating) =
          [q EXCEPT !.timers = @ \cup {timer},
                    !.next_timer_id = Advance(@, 1), !.wake_pending = TRUE]
    BY DEF ScheduleLocked, timer
  <1> QED
    BY <1>2, <1>3, <1>4, <1>5 DEF DispatcherStates

\* shutdown empties the owner and closes it for good.
LEMMA ShutdownLockedEffect ==
  ASSUME NEW q \in DispatcherStates
  PROVE  LET p == ShutdownLocked(q) IN
         /\ p \in DispatcherStates
         /\ IsFiniteSet(p.timers)
         /\ p.closing = TRUE
         /\ p.tasks = <<>>
         /\ p.timers = {}
         /\ p.next_task_sequence = q.next_task_sequence
         /\ p.wake_pending = FALSE
  <1>1. IsFiniteSet({})
    BY FS_EmptySet
  <1>2. <<>> \in Seq(Task)
    OBVIOUS
  <1> QED
    BY <1>1, <1>2 DEF ShutdownLocked, DispatcherStates

\* The transfer loop moves no more than there is due, than one checkpoint
\* allows, than the queue has room for and than there are sequence numbers.
LEMMA TransferLimitBounds ==
  ASSUME NEW q \in DispatcherStates, Len(q.tasks) <= MaxPendingTasks,
         NEW due, IsFiniteSet(due)
  PROVE  /\ TransferLimit(q, due) \in Nat
         /\ TransferLimit(q, due) <= Cardinality(due)
         /\ TransferLimit(q, due) <= MaxTasksPerCheckpoint
         /\ TransferLimit(q, due) <= MaxPendingTasks - Len(q.tasks)
         /\ TransferLimit(q, due) <= SequencesLeft(q)
  <1> DEFINE room == MaxPendingTasks - Len(q.tasks)
             limits == {Cardinality(due), MaxTasksPerCheckpoint, room, SequencesLeft(q)}
  <1>1. Cardinality(due) \in Nat
    BY FS_CardinalityType
  <1>2. room \in Nat
    <2>1. Len(q.tasks) \in Nat
      BY DEF DispatcherStates
    <2> QED
      BY <2>1, LimitsAssumption
  <1>3. SequencesLeft(q) \in Nat
    BY LimitsAssumption DEF SequencesLeft, DispatcherStates, Ids
  <1>4. MaxTasksPerCheckpoint \in Nat
    BY LimitsAssumption
  <1> HIDE DEF room
  <1>5. \E n \in limits : \A m \in limits : n <= m
    BY <1>1, <1>2, <1>3, <1>4
  <1>6. TransferLimit(q, due) = CHOOSE n \in limits : \A m \in limits : n <= m
    BY DEF TransferLimit, room
  <1>7. /\ TransferLimit(q, due) \in limits
        /\ \A m \in limits : TransferLimit(q, due) <= m
    BY <1>5, <1>6
  <1> QED
    BY <1>1, <1>2, <1>3, <1>4, <1>7 DEF room

\* The firings of a transfer are appended behind the queue in their order, and
\* only the queue, the timers, the task counter and the wake flag change.
LEMMA TransferEffect ==
  ASSUME NEW q \in DispatcherStates, IsFiniteSet(q.timers),
         NEW time \in Time, NEW k \in Nat, k <= SequencesLeft(q),
         NEW f \in FiringOrders(DueTimers(q, time), k)
  PROVE  LET p == Transfer(q, time, f, k) IN
         /\ p \in DispatcherStates
         /\ IsFiniteSet(p.timers)
         /\ p.closing = q.closing
         /\ p.wake_pending = FALSE
         /\ p.next_task_sequence = Advance(q.next_task_sequence, k)
         /\ Len(p.tasks) = Len(q.tasks) + k
         /\ \A i \in 1 .. Len(q.tasks) : p.tasks[i] = q.tasks[i]
         /\ \A i \in 1 .. k :
              p.tasks[Len(q.tasks) + i].sequence = q.next_task_sequence + i - 1
  <1> DEFINE fired   == {f[i] : i \in 1 .. k}
             rearmed == {t \in fired : t.repeating /\ CanAdd(time, t.interval)}
             later   == {[t EXCEPT !.due = time + t.interval] : t \in rearmed}
             firings == [i \in 1 .. k |->
                           [sequence  |-> q.next_task_sequence + i - 1,
                            timer     |-> f[i].id,
                            repeating |-> f[i] \in rearmed]]
  <1>1. f \in [1 .. k -> DueTimers(q, time)]
    BY DEF FiringOrders
  <1>2. DueTimers(q, time) \subseteq q.timers /\ q.timers \subseteq Timer
    BY DEF DueTimers, DispatcherStates
  <1>3. fired \subseteq q.timers
    BY <1>1, <1>2
  <1>4. \A i \in 1 .. k : firings[i] \in Task
    <2> SUFFICES ASSUME NEW i \in 1 .. k
                 PROVE  [sequence  |-> q.next_task_sequence + i - 1,
                         timer     |-> f[i].id,
                         repeating |-> f[i] \in rearmed] \in Task
      OBVIOUS
    <2>1. f[i].id \in Ids
      BY <1>1, <1>2 DEF Timer
    <2>2. q.next_task_sequence + i - 1 \in Ids
      BY LimitsAssumption DEF SequencesLeft, DispatcherStates, Ids
    <2>3. (f[i] \in rearmed) \in BOOLEAN
      OBVIOUS
    <2> HIDE DEF rearmed
    <2> QED
      BY <2>1, <2>2, <2>3 DEF Task
  <1>5. firings \in Seq(Task) /\ Len(firings) = k
    <2>1. firings \in [1 .. k -> Task]
      BY <1>4
    <2>2. firings \in Seq(Task)
      BY <2>1, SeqDef
    <2>3. DOMAIN firings = 1 .. k
      OBVIOUS
    <2> HIDE DEF firings
    <2> QED
      BY <2>2, <2>3, LenProperties
  <1>6. q.tasks \in Seq(Task) /\ q.next_task_sequence \in Ids /\ Len(q.tasks) \in Nat
    BY DEF DispatcherStates
  <1>7. /\ q.tasks \o firings \in Seq(Task)
        /\ Len(q.tasks \o firings) = Len(q.tasks) + k
        /\ \A i \in 1 .. Len(q.tasks) : (q.tasks \o firings)[i] = q.tasks[i]
        /\ \A i \in 1 .. k : (q.tasks \o firings)[Len(q.tasks) + i] = firings[i]
    <2> HIDE DEF firings
    <2>1. /\ q.tasks \o firings \in Seq(Task)
          /\ Len(q.tasks \o firings) = Len(q.tasks) + Len(firings)
          /\ \A i \in 1 .. Len(q.tasks) + Len(firings) : (q.tasks \o firings)[i] =
                 IF i <= Len(q.tasks) THEN q.tasks[i] ELSE firings[i - Len(q.tasks)]
      BY <1>5, <1>6, ConcatProperties
    <2>2. ASSUME NEW i \in 1 .. Len(q.tasks)
          PROVE  (q.tasks \o firings)[i] = q.tasks[i]
      BY <1>5, <1>6, <2>1
    <2>3. ASSUME NEW i \in 1 .. k
          PROVE  (q.tasks \o firings)[Len(q.tasks) + i] = firings[i]
      <3>1. Len(q.tasks) + i \in 1 .. Len(q.tasks) + Len(firings)
        BY <1>5, <1>6
      <3>2. ~(Len(q.tasks) + i <= Len(q.tasks)) /\ Len(q.tasks) + i - Len(q.tasks) = i
        BY <1>6
      <3> QED
        BY <2>1, <3>1, <3>2
    <2> QED
      BY <1>5, <2>1, <2>2, <2>3
  <1>8. later \subseteq Timer
    <2> SUFFICES ASSUME NEW t \in rearmed
                 PROVE  [t EXCEPT !.due = time + t.interval] \in Timer
      OBVIOUS
    <2>1. t \in Timer /\ t.interval <= TimeMax - time
      BY <1>2, <1>3 DEF CanAdd
    <2>2. time + t.interval \in Time
      BY <2>1, LimitsAssumption DEF Timer, Time
    <2> HIDE DEF rearmed
    <2> QED
      BY <2>1, <2>2 DEF Timer
  <1>9. IsFiniteSet(later)
    <2>1. IsFiniteSet(rearmed)
      BY <1>3, FS_Subset
    <2>2. [t \in rearmed |-> [t EXCEPT !.due = time + t.interval]]
             \in Surjection(rearmed, later)
      BY DEF Surjection
    <2> HIDE DEF later, rearmed
    <2> QED
      BY <2>1, <2>2, FS_Surjection
  <1>10. IsFiniteSet((q.timers \ fired) \cup later)
    <2> HIDE DEF later, fired
    <2> QED
      BY <1>9, FS_Difference, FS_Union
  <1>11. Advance(q.next_task_sequence, k) \in Ids
    <2>1. k = 0 \/ q.next_task_sequence + k <= IdModulus
      BY <1>6, LimitsAssumption DEF SequencesLeft, Ids
    <2>2. q.next_task_sequence + k <= IdModulus
      BY <1>6, <2>1, LimitsAssumption DEF Ids
    <2> QED
      BY <1>6, <2>2, AdvanceType
  <1>12. (q.timers \ fired) \cup later \in SUBSET Timer
    BY <1>2, <1>8
  <1>13. \A i \in 1 .. k : firings[i].sequence = q.next_task_sequence + i - 1
    OBVIOUS
  <1>14. Transfer(q, time, f, k) =
           [q EXCEPT !.tasks = @ \o firings,
                     !.timers = (@ \ fired) \cup later,
                     !.next_task_sequence = Advance(@, k),
                     !.wake_pending = FALSE]
    BY DEF Transfer
  <1> HIDE DEF fired, rearmed, later, firings
  <1> QED
    BY <1>7, <1>10, <1>11, <1>12, <1>13, <1>14 DEF DispatcherStates

\* Starting the head leaves the rest of the queue.
LEMMA PopFrontEffect ==
  ASSUME NEW q \in DispatcherStates, q.tasks # <<>>
  PROVE  LET p == PopFront(q) IN
         /\ p \in DispatcherStates
         /\ p.timers = q.timers
         /\ p.closing = q.closing
         /\ p.wake_pending = q.wake_pending
         /\ p.next_task_sequence = q.next_task_sequence
         /\ Len(p.tasks) = Len(q.tasks) - 1
         /\ \A i \in 1 .. Len(p.tasks) : p.tasks[i] = q.tasks[i + 1]
         /\ Head(q.tasks) = q.tasks[1]
         /\ Head(q.tasks) \in Task
         /\ Len(q.tasks) >= 1
  <1>1. q.tasks \in Seq(Task)
    BY DEF DispatcherStates
  <1>2. /\ Head(q.tasks) \in Task
        /\ Tail(q.tasks) \in Seq(Task)
        /\ Len(Tail(q.tasks)) = Len(q.tasks) - 1
        /\ \A i \in 1 .. Len(Tail(q.tasks)) : Tail(q.tasks)[i] = q.tasks[i + 1]
    BY <1>1, HeadTailProperties
  <1>3. Len(q.tasks) \in Nat \ {0}
    BY <1>1, EmptySeq
  <1>4. Head(q.tasks) = q.tasks[1]
    BY <1>1
  <1> DEFINE p == PopFront(q)
  <1>5. /\ p \in DispatcherStates
        /\ p.tasks = Tail(q.tasks) /\ p.timers = q.timers
        /\ p.closing = q.closing /\ p.wake_pending = q.wake_pending
        /\ p.next_task_sequence = q.next_task_sequence
    <2>1. q.tasks \in Seq(Task) /\ Tail(q.tasks) \in Seq(Task)
      BY <1>1, <1>2
    <2> QED
      BY <2>1 DEF PopFront, DispatcherStates
  <1>6. Len(q.tasks) >= 1
    BY <1>3
  <1> HIDE DEF p
  <1> QED
    BY <1>2, <1>4, <1>5, <1>6 DEF p

\* The deadline of a wait is a point in time or NoDeadline; when it lies in the
\* future, nothing is queued and no timer is due before it.
LEMMA NextDeadlineBounds ==
  ASSUME NEW q \in DispatcherStates, IsFiniteSet(q.timers), NEW time \in Time
  PROVE  /\ NextDeadline(q, time) \in 0 .. NoDeadline
         /\ \/ q.closing
            \/ NextDeadline(q, time) <= time
            \/ /\ q.tasks = <<>>
               /\ \A t \in q.timers : NextDeadline(q, time) <= t.due
  <1> DEFINE dues == {t.due : t \in q.timers}
  <1>1. dues \subseteq Time
    BY DEF DispatcherStates, Timer
  <1>2. CASE q.closing \/ (q.tasks = <<>> /\ q.timers = {})
    BY <1>2, LimitsAssumption DEF NextDeadline, NoDeadline, Time
  <1>3. CASE ~q.closing /\ q.tasks # <<>>
    BY <1>3, LimitsAssumption DEF NextDeadline, NoDeadline, Time
  <1>4. CASE ~q.closing /\ q.tasks = <<>> /\ q.timers # {}
    <2>1. dues # {}
      BY <1>4
    <2>2. \E x \in dues : \A y \in dues : x <= y
      <3>1. dues \subseteq Nat
        BY <1>1, LimitsAssumption DEF Time
      <3> HIDE DEF dues
      <3> QED
        BY <2>1, <3>1, LeastElement
    <2> DEFINE first == CHOOSE x \in dues : \A y \in dues : x <= y
    <2>3. first \in dues /\ \A y \in dues : first <= y
      BY <2>2
    <2>4. NextDeadline(q, time) = IF first <= time THEN time ELSE first
      BY <1>4 DEF NextDeadline
    <2> HIDE DEF first
    <2>5. \A t \in q.timers : first <= t.due
      BY <2>3
    <2>6. first \in Time
      BY <1>1, <2>3
    <2> HIDE DEF dues
    <2> QED
      BY <1>4, <2>4, <2>5, <2>6, LimitsAssumption DEF NoDeadline, Time
  <1> QED
    BY <1>2, <1>3, <1>4

-----------------------------------------------------------------------------
(***************************************************************************)
(* The stack of pumps.                                                      *)
(***************************************************************************)

\* A new pump becomes the top of the stack and leaves the others alone.
LEMMA PushEffect ==
  ASSUME NEW s \in Seq(Frame), NEW e \in Frame
  PROVE  LET r == Append(s, e) IN
         /\ r \in Seq(Frame)
         /\ r # <<>>
         /\ Len(r) = Len(s) + 1
         /\ Len(s) \in Nat
         /\ \A i \in 1 .. Len(s) : r[i] = s[i]
         /\ r[Len(s) + 1] = e
  <1>1. /\ Append(s, e) \in Seq(Frame)
        /\ Append(s, e) # <<>>
        /\ Len(Append(s, e)) = Len(s) + 1
        /\ \A i \in 1 .. Len(s) : Append(s, e)[i] = s[i]
        /\ Append(s, e)[Len(s) + 1] = e
    BY AppendProperties
  <1>2. Len(s) \in Nat
    OBVIOUS
  <1> QED
    BY <1>1, <1>2

\* Moving the innermost pump leaves the others alone.
LEMMA SetTopEffect ==
  ASSUME NEW s \in Seq(Frame), s # <<>>, NEW e \in Frame
  PROVE  LET r == [s EXCEPT ![Len(s)] = e] IN
         /\ r \in Seq(Frame)
         /\ r # <<>>
         /\ Len(r) = Len(s)
         /\ Len(s) \in 1 .. Len(s)
         /\ \A i \in 1 .. Len(s) - 1 : r[i] = s[i]
         /\ r[Len(s)] = e
         /\ s[Len(s)] \in Frame
  <1> DEFINE r == [s EXCEPT ![Len(s)] = e]
  <1>1. Len(s) \in Nat \ {0}
    BY EmptySeq
  <1>2. Len(s) \in 1 .. Len(s)
    BY <1>1
  <1>3. /\ r \in Seq(Frame)
        /\ Len(r) = Len(s)
        /\ \A j \in 1 .. Len(s) : r[j] = IF j = Len(s) THEN e ELSE s[j]
    BY <1>2, ExceptSeq
  <1>4. s[Len(s)] \in Frame
    BY <1>2, ElementOfSeq
  <1> HIDE DEF r
  <1>5. \A i \in 1 .. Len(s) - 1 : r[i] = s[i]
    BY <1>1, <1>3
  <1>6. r # <<>>
    BY <1>1, <1>3, EmptySeq
  <1> QED
    BY <1>2, <1>3, <1>4, <1>5, <1>6 DEF r

\* A pump that returns leaves the others alone.
LEMMA PopEffect ==
  ASSUME NEW s \in Seq(Frame), s # <<>>
  PROVE  LET r == SubSeq(s, 1, Len(s) - 1) IN
         /\ r \in Seq(Frame)
         /\ Len(r) = Len(s) - 1
         /\ Len(s) \in Nat \ {0}
         /\ \A i \in 1 .. Len(s) - 1 : r[i] = s[i]
  <1>1. Len(s) \in Nat \ {0}
    BY EmptySeq
  <1>2. \A i \in 1 .. Len(s) - 1 : s[i] \in Frame
    BY <1>1, ElementOfSeq
  <1> DEFINE n == Len(s) - 1
             r == SubSeq(s, 1, n)
  <1>3. n \in Nat
    BY <1>1
  <1> HIDE DEF n
  <1>4. /\ r \in Seq(Frame)
        /\ Len(r) = IF 1 <= n THEN n - 1 + 1 ELSE 0
        /\ \A i \in 1 .. n - 1 + 1 : r[i] = s[1 + i - 1]
    <2>1. \A i \in 1 .. n : s[i] \in Frame
      BY <1>2 DEF n
    <2>2. n \in Int /\ 1 \in Int
      BY <1>3
    <2> QED
      BY <2>1, <2>2, SubSeqProperties
  <1> HIDE DEF r
  <1>5. Len(r) = n
    BY <1>3, <1>4
  <1>6. ASSUME NEW i \in 1 .. n
        PROVE  r[i] = s[i]
    <2>1. i \in 1 .. n - 1 + 1 /\ 1 + i - 1 = i
      BY <1>3
    <2> QED
      BY <1>4, <2>1
  <1> QED
    BY <1>1, <1>4, <1>5, <1>6 DEF r, n

-----------------------------------------------------------------------------
(***************************************************************************)
(* The critical sections of a checkpoint.                                   *)
(***************************************************************************)

\* The complete transfer: the firings are appended, the flag is recomputed and
\* the pump goes on to its frozen work; the wake request is made iff the flag
\* is armed again.
LEMMA CheckpointTransferEffect ==
  ASSUME TypeOK, QueueBounded, CheckpointTransfer
  PROVE  /\ d' \in DispatcherStates
         /\ IsFiniteSet(d'.timers)
         /\ d'.closing = FALSE
         /\ d'.wake_pending => call' = [call EXCEPT ![UI] = Request]
         /\ ~d'.wake_pending => call' = [call EXCEPT ![UI] = NoCall]
         /\ \E e \in Frame : e.pc = "pop" /\ frames' = [frames EXCEPT ![Len(frames)] = e]
         /\ \E k \in Nat :
              /\ k <= SequencesLeft(d)
              /\ k <= MaxPendingTasks - Len(d.tasks)
              /\ d'.next_task_sequence = Advance(d.next_task_sequence, k)
              /\ Len(d'.tasks) = Len(d.tasks) + k
              /\ \A i \in 1 .. Len(d.tasks) : d'.tasks[i] = d.tasks[i]
              /\ \A i \in 1 .. k :
                   d'.tasks[Len(d.tasks) + i].sequence = d.next_task_sequence + i - 1
  <1> DEFINE due == DueTimers(d, Top.now)
             k   == TransferLimit(d, due)
  <1>1. PICK f \in FiringOrders(due, k) :
          LET moved  == Transfer(d, Top.now, f, k)
              rewake == MustRewake(moved, k < Cardinality(due))
          IN /\ d' = IF rewake THEN ArmWake(moved) ELSE moved
             /\ SetCall(UI, IF rewake THEN Request ELSE NoCall)
             /\ SetTop([Top EXCEPT !.pc = "pop", !.left = FrozenWork(moved),
                                   !.frozen = moved.next_task_sequence])
    BY DEF CheckpointTransfer
  <1> DEFINE moved  == Transfer(d, Top.now, f, k)
             rewake == MustRewake(moved, k < Cardinality(due))
  <1>2. d \in DispatcherStates /\ IsFiniteSet(d.timers) /\ frames \in Seq(Frame)
    BY DEF TypeOK
  <1>3. frames # <<>> /\ ~d.closing
    BY DEF CheckpointTransfer, At
  <1>4. Top \in Frame
    BY <1>2, <1>3, SetTopEffect DEF Top
  <1>5. Top.now \in Time
    BY <1>4 DEF Frame
  <1>6. IsFiniteSet(due)
    BY <1>2, FS_Subset DEF DueTimers
  <1>7. Len(d.tasks) <= MaxPendingTasks
    BY DEF QueueBounded
  <1>8. /\ k \in Nat
        /\ k <= MaxPendingTasks - Len(d.tasks)
        /\ k <= SequencesLeft(d)
    BY <1>2, <1>6, <1>7, TransferLimitBounds
  <1>9. /\ moved \in DispatcherStates
        /\ IsFiniteSet(moved.timers)
        /\ moved.closing = d.closing
        /\ moved.wake_pending = FALSE
        /\ moved.next_task_sequence = Advance(d.next_task_sequence, k)
        /\ Len(moved.tasks) = Len(d.tasks) + k
        /\ \A i \in 1 .. Len(d.tasks) : moved.tasks[i] = d.tasks[i]
        /\ \A i \in 1 .. k :
             moved.tasks[Len(d.tasks) + i].sequence = d.next_task_sequence + i - 1
    <2> HIDE DEF k
    <2> QED
      BY <1>1, <1>2, <1>5, <1>8, TransferEffect DEF due
  <1> HIDE DEF moved, k, due
  <1>10. /\ d' \in DispatcherStates
         /\ d'.timers = moved.timers
         /\ d'.closing = moved.closing
         /\ d'.tasks = moved.tasks
         /\ d'.next_task_sequence = moved.next_task_sequence
         /\ d'.wake_pending = rewake
    BY <1>1, <1>9, ArmWakeEffect DEF moved, k, due, MustRewake
  <1>11. /\ d'.wake_pending => call' = [call EXCEPT ![UI] = Request]
         /\ ~d'.wake_pending => call' = [call EXCEPT ![UI] = NoCall]
    BY <1>1, <1>10 DEF moved, k, due, SetCall
  <1>12. FrozenWork(moved) \in 0 .. MaxTasksPerCheckpoint
    BY <1>9, LimitsAssumption DEF FrozenWork, DispatcherStates
  <1>13. moved.next_task_sequence \in Ids
    BY <1>9 DEF DispatcherStates
  <1> DEFINE e == [Top EXCEPT !.pc = "pop", !.left = FrozenWork(moved),
                              !.frozen = moved.next_task_sequence]
  <1>14. e \in Frame /\ e.pc = "pop"
    BY <1>4, <1>12, <1>13 DEF Frame
  <1>15. frames' = [frames EXCEPT ![Len(frames)] = e]
    BY <1>1 DEF SetTop, moved, k, due
  <1> HIDE DEF e, rewake
  <1>16. \E x \in Frame : x.pc = "pop" /\ frames' = [frames EXCEPT ![Len(frames)] = x]
    BY <1>14, <1>15
  <1>17. /\ d'.next_task_sequence = Advance(d.next_task_sequence, k)
         /\ Len(d'.tasks) = Len(d.tasks) + k
         /\ \A i \in 1 .. Len(d.tasks) : d'.tasks[i] = d.tasks[i]
         /\ \A i \in 1 .. k :
              d'.tasks[Len(d.tasks) + i].sequence = d.next_task_sequence + i - 1
    BY <1>9, <1>10
  <1>18. IsFiniteSet(d'.timers) /\ d'.closing = FALSE
    BY <1>3, <1>9, <1>10
  <1> QED
    BY <1>8, <1>10, <1>11, <1>16, <1>17, <1>18

\* The failing transfer: some firings may have been appended, the flag is off
\* and the pump goes to its catch block.
LEMMA CheckpointFailsEffect ==
  ASSUME TypeOK, QueueBounded, CheckpointFails
  PROVE  /\ d' \in DispatcherStates
         /\ IsFiniteSet(d'.timers)
         /\ d'.closing = FALSE
         /\ d'.wake_pending = FALSE
         /\ \E e \in Frame : e.pc = "recover" /\ frames' = [frames EXCEPT ![Len(frames)] = e]
         /\ \E k \in Nat :
              /\ k <= SequencesLeft(d)
              /\ k <= MaxPendingTasks - Len(d.tasks)
              /\ d'.next_task_sequence = Advance(d.next_task_sequence, k)
              /\ Len(d'.tasks) = Len(d.tasks) + k
              /\ \A i \in 1 .. Len(d.tasks) : d'.tasks[i] = d.tasks[i]
              /\ \A i \in 1 .. k :
                   d'.tasks[Len(d.tasks) + i].sequence = d.next_task_sequence + i - 1
  <1> DEFINE due == DueTimers(d, Top.now)
  <1>1. PICK k \in 0 .. TransferLimit(d, due) :
          \E f \in FiringOrders(due, k) : d' = Transfer(d, Top.now, f, k)
    BY DEF CheckpointFails
  <1>2. PICK f \in FiringOrders(due, k) : d' = Transfer(d, Top.now, f, k)
    BY <1>1
  <1>3. d \in DispatcherStates /\ IsFiniteSet(d.timers) /\ frames \in Seq(Frame)
    BY DEF TypeOK
  <1>4. frames # <<>> /\ ~d.closing
    BY DEF CheckpointFails, At
  <1>5. Top \in Frame
    BY <1>3, <1>4, SetTopEffect DEF Top
  <1>6. Top.now \in Time
    BY <1>5 DEF Frame
  <1>7. IsFiniteSet(due)
    BY <1>3, FS_Subset DEF DueTimers
  <1>8. Len(d.tasks) <= MaxPendingTasks
    BY DEF QueueBounded
  <1>9. /\ TransferLimit(d, due) \in Nat
        /\ TransferLimit(d, due) <= MaxPendingTasks - Len(d.tasks)
        /\ TransferLimit(d, due) <= SequencesLeft(d)
    <2> HIDE DEF due
    <2> QED
      BY <1>3, <1>7, <1>8, TransferLimitBounds
  <1>10. /\ Len(d.tasks) \in Nat
         /\ SequencesLeft(d) \in Nat
    BY <1>3, LimitsAssumption DEF DispatcherStates, SequencesLeft, Ids
  <1>11. /\ k \in Nat
         /\ k <= MaxPendingTasks - Len(d.tasks)
         /\ k <= SequencesLeft(d)
    <2> HIDE DEF due
    <2> QED
      BY <1>1, <1>9, <1>10, LimitsAssumption
  <1>12. /\ d' \in DispatcherStates
         /\ IsFiniteSet(d'.timers)
         /\ d'.closing = d.closing
         /\ d'.wake_pending = FALSE
         /\ d'.next_task_sequence = Advance(d.next_task_sequence, k)
         /\ Len(d'.tasks) = Len(d.tasks) + k
         /\ \A i \in 1 .. Len(d.tasks) : d'.tasks[i] = d.tasks[i]
         /\ \A i \in 1 .. k :
              d'.tasks[Len(d.tasks) + i].sequence = d.next_task_sequence + i - 1
    BY <1>2, <1>3, <1>6, <1>11, TransferEffect
  <1> DEFINE e == [Top EXCEPT !.pc = "recover"]
  <1>13. e \in Frame /\ e.pc = "recover"
    BY <1>5 DEF Frame
  <1>14. frames' = [frames EXCEPT ![Len(frames)] = e]
    BY DEF SetTop, CheckpointFails
  <1> HIDE DEF e
  <1>15. \E x \in Frame : x.pc = "recover" /\ frames' = [frames EXCEPT ![Len(frames)] = x]
    BY <1>13, <1>14
  <1>16. \E n \in Nat :
           /\ n <= SequencesLeft(d)
           /\ n <= MaxPendingTasks - Len(d.tasks)
           /\ d'.next_task_sequence = Advance(d.next_task_sequence, n)
           /\ Len(d'.tasks) = Len(d.tasks) + n
           /\ \A i \in 1 .. Len(d.tasks) : d'.tasks[i] = d.tasks[i]
           /\ \A i \in 1 .. n :
                d'.tasks[Len(d.tasks) + i].sequence = d.next_task_sequence + i - 1
    BY <1>11, <1>12
  <1>17. d'.closing = FALSE
    BY <1>4, <1>12
  <1> QED
    BY <1>12, <1>15, <1>16, <1>17

-----------------------------------------------------------------------------
(***************************************************************************)
(* Type correctness and the bound of the queue.                             *)
(***************************************************************************)

\* Entering and leaving a call keeps the type of call.
LEMMA SetCallType ==
  ASSUME call \in [Threads -> Call], NEW t \in Threads,
         NEW c \in {NoCall, Request, Signal}
  PROVE  [call EXCEPT ![t] = c] \in [Threads -> Call]
  <1>1. c \in Call
    BY DEF Call, NoCall, Request, Signal
  <1> QED
    BY <1>1

\* Moving the innermost pump keeps the type of the stack and its depth.
LEMMA SetTopType ==
  ASSUME TypeOK, frames # <<>>, NEW e \in Frame,
         frames' = [frames EXCEPT ![Len(frames)] = e]
  PROVE  frames' \in Seq(Frame) /\ Len(frames') <= MaxDepth
  BY SetTopEffect DEF TypeOK

\* Returning from the innermost pump keeps the type of the stack and its depth.
LEMMA PopTopType ==
  ASSUME TypeOK, frames # <<>>, PopTop
  PROVE  frames' \in Seq(Frame) /\ Len(frames') <= MaxDepth
  <1>1. frames \in Seq(Frame) /\ Len(frames) <= MaxDepth /\ MaxDepth \in Nat
    BY ThreadsAssumption DEF TypeOK
  <1> QED
    BY <1>1, PopEffect DEF PopTop

\* The innermost pump is a frame.
LEMMA TopType ==
  ASSUME TypeOK, frames # <<>>
  PROVE  Top \in Frame
  BY SetTopEffect DEF TypeOK, Top

\* Every step keeps the types, given that the queue is within its limit.
LEMMA TypeStep ==
  ASSUME TypeOK, QueueBounded, [Next]_vars
  PROVE  TypeOK'
  <1> USE DEF TypeOK
  <1>1. ASSUME NEW t \in Threads, Post(t)
        PROVE  TypeOK'
    <2>1. d' \in DispatcherStates /\ d'.timers = d.timers
      BY <1>1, PostLockedEffect DEF Post
    <2>2. call' \in [Threads -> Call]
      BY <1>1, SetCallType DEF Post, SetCall
    <2> QED
      BY <1>1, <2>1, <2>2 DEF Post
  <1>2. ASSUME NEW t \in Threads, ScheduleBegin(t)
        PROVE  TypeOK'
    <2>1. PICK delay \in Time, repeating \in BOOLEAN :
            /\ CanAdd(now, delay)
            /\ SetCall(t, [op |-> "schedule", now |-> now, delay |-> delay,
                           repeating |-> repeating])
      BY <1>2 DEF ScheduleBegin
    <2>2. [op |-> "schedule", now |-> now, delay |-> delay,
           repeating |-> repeating] \in Call
      BY <2>1, LimitsAssumption DEF Call, CanAdd, Time
    <2>3. call' \in [Threads -> Call]
      BY <2>1, <2>2 DEF SetCall
    <2> QED
      BY <1>2, <2>3 DEF ScheduleBegin
  <1>3. ASSUME NEW t \in Threads, ScheduleCommit(t)
        PROVE  TypeOK'
    <2>1. CASE CanSchedule(d)
      <3>1. call[t] \in Call /\ call[t].op = "schedule"
        BY <1>3 DEF ScheduleCommit
      <3>2. /\ call[t].now \in Time /\ call[t].delay \in Time
            /\ call[t].repeating \in BOOLEAN
            /\ call[t].now + call[t].delay <= TimeMax
        BY <3>1 DEF Call
      <3>3. d' = ScheduleLocked(d, call[t].now, call[t].delay, call[t].repeating)
        BY <1>3, <2>1 DEF ScheduleCommit
      <3>4. d' \in DispatcherStates /\ IsFiniteSet(d'.timers)
        BY <2>1, <3>2, <3>3, ScheduleLockedEffect
      <3>5. call' \in [Threads -> Call]
        BY <1>3, <2>1, SetCallType DEF ScheduleCommit, SetCall
      <3> QED
        BY <1>3, <3>4, <3>5 DEF ScheduleCommit
    <2>2. CASE ~CanSchedule(d)
      <3>1. call' \in [Threads -> Call]
        BY <1>3, <2>2, SetCallType DEF ScheduleCommit, SetCall
      <3> QED
        BY <1>3, <2>2, <3>1 DEF ScheduleCommit
    <2> QED
      BY <2>1, <2>2
  <1>4. ASSUME NEW t \in Threads, Cancel(t)
        PROVE  TypeOK'
    <2>1. PICK timer \in d.timers : d' = CancelLocked(d, timer)
      BY <1>4 DEF Cancel
    <2>2. IsFiniteSet(d.timers \ {timer})
      BY FS_RemoveElement
    <2>3. d' \in DispatcherStates /\ IsFiniteSet(d'.timers)
      BY <2>1, <2>2 DEF CancelLocked, DispatcherStates
    <2> QED
      BY <1>4, <2>3 DEF Cancel
  <1>5. ASSUME NEW t \in Threads, RequestWake(t) \/ SignalBackend(t)
        PROVE  TypeOK'
    <2>1. call' \in [Threads -> Call]
      BY <1>5, SetCallType DEF RequestWake, SignalBackend, SetCall
    <2> QED
      BY <1>5, <2>1 DEF RequestWake, SignalBackend
  <1>6. CASE Shutdown
    BY <1>6, ShutdownLockedEffect DEF Shutdown
  <1>7. CASE PumpBegin
    <2> DEFINE e == [pc |-> "wait", deadline |-> NextDeadline(d, now), now |-> now,
                     left |-> 0, frozen |-> d.next_task_sequence]
    <2>1. e \in Frame
      <3>1. NextDeadline(d, now) \in 0 .. NoDeadline
        BY NextDeadlineBounds
      <3>2. d.next_task_sequence \in Ids
        BY DEF DispatcherStates
      <3> QED
        BY <3>1, <3>2, LimitsAssumption DEF Frame
    <2> HIDE DEF e
    <2>2. frames' = Append(frames, e) /\ Len(frames) < MaxDepth
      BY <1>7 DEF PumpBegin, Push, e
    <2>3. frames' \in Seq(Frame) /\ Len(frames') <= MaxDepth
      BY <2>1, <2>2, PushEffect, ThreadsAssumption
    <2> QED
      BY <1>7, <2>3 DEF PumpBegin
  <1>8. CASE WaitWoken \/ WaitTimedOut \/ WaitInterrupted
    <2>1. frames # <<>> /\ frames' = [frames EXCEPT ![Len(frames)] = [Top EXCEPT !.pc = "dispatch"]]
      BY <1>8 DEF WaitWoken, WaitTimedOut, WaitInterrupted, At, LeaveWait, SetTop
    <2>2. [Top EXCEPT !.pc = "dispatch"] \in Frame
      BY <2>1, TopType DEF Frame
    <2>3. frames' \in Seq(Frame) /\ Len(frames') <= MaxDepth
      BY <2>1, <2>2, SetTopType
    <2> QED
      BY <1>8, <2>3 DEF WaitWoken, WaitTimedOut, WaitInterrupted
  <1>9. CASE DispatchWake
    BY <1>9 DEF DispatchWake
  <1>10. CASE CheckpointBegin
    <2>1. frames # <<>> /\ frames' = [frames EXCEPT ![Len(frames)] =
                                        [Top EXCEPT !.pc = "enter", !.now = now]]
      BY <1>10 DEF CheckpointBegin, At, SetTop
    <2>2. [Top EXCEPT !.pc = "enter", !.now = now] \in Frame
      BY <2>1, TopType DEF Frame
    <2>3. frames' \in Seq(Frame) /\ Len(frames') <= MaxDepth
      BY <2>1, <2>2, SetTopType
    <2> QED
      BY <1>10, <2>3 DEF CheckpointBegin
  <1>11. CASE CheckpointClosed
    <2>1. frames' \in Seq(Frame) /\ Len(frames') <= MaxDepth
      BY <1>11, PopTopType DEF CheckpointClosed, At
    <2> QED
      BY <1>11, <2>1 DEF CheckpointClosed
  <1>12. CASE CheckpointTransfer
    <2>1. d' \in DispatcherStates /\ IsFiniteSet(d'.timers)
      BY <1>12, CheckpointTransferEffect
    <2>2. call' \in [Threads -> Call]
      <3>1. UI \in Threads
        BY DEF Threads
      <3>2. call' = [call EXCEPT ![UI] = Request] \/ call' = [call EXCEPT ![UI] = NoCall]
        BY <1>12, CheckpointTransferEffect
      <3> QED
        BY <3>1, <3>2, SetCallType
    <2>3. frames' \in Seq(Frame) /\ Len(frames') <= MaxDepth
      <3>1. frames # <<>>
        BY <1>12 DEF CheckpointTransfer, At
      <3> QED
        BY <1>12, <3>1, CheckpointTransferEffect, SetTopType
    <2> QED
      BY <1>12, <2>1, <2>2, <2>3 DEF CheckpointTransfer
  <1>13. CASE CheckpointFails
    <2>1. d' \in DispatcherStates /\ IsFiniteSet(d'.timers)
      BY <1>13, CheckpointFailsEffect
    <2>2. frames' \in Seq(Frame) /\ Len(frames') <= MaxDepth
      <3>1. frames # <<>>
        BY <1>13 DEF CheckpointFails, At
      <3> QED
        BY <1>13, <3>1, CheckpointFailsEffect, SetTopType
    <2>3. faults' \in 0 .. MaxFaults
      BY <1>13, ThreadsAssumption DEF CheckpointFails
    <2> QED
      BY <1>13, <2>1, <2>2, <2>3 DEF CheckpointFails
  <1>14. CASE CheckpointRecover \/ CheckpointUnwind \/ CheckpointFinish
    <2>1. /\ frames # <<>> /\ PopTop
          /\ d' = ArmWake(d) \/ d' = d
          /\ \/ call' = [call EXCEPT ![UI] = Request]
             \/ call' = [call EXCEPT ![UI] = NoCall]
          /\ UNCHANGED <<now, native_wake, started, faults>>
      BY <1>14 DEF CheckpointRecover, CheckpointUnwind, CheckpointFinish, At, SetCall
    <2>2. frames' \in Seq(Frame) /\ Len(frames') <= MaxDepth
      BY <2>1, PopTopType
    <2>3. call' \in [Threads -> Call]
      BY <2>1, SetCallType DEF Threads
    <2>4. d' \in DispatcherStates /\ d'.timers = d.timers
      BY <2>1, ArmWakeEffect
    <2> QED
      BY <2>1, <2>2, <2>3, <2>4
  <1>15. CASE StartTask
    <2>1. frames # <<>> /\ d.tasks # <<>> /\ Top.left > 0
      BY <1>15 DEF StartTask, At
    <2>2. [Top EXCEPT !.pc = "run", !.left = @ - 1] \in Frame
      <3>1. Top \in Frame
        BY <2>1, TopType
      <3>2. Top.left - 1 \in 0 .. MaxTasksPerCheckpoint
        BY <2>1, <3>1, LimitsAssumption DEF Frame
      <3> QED
        BY <3>1, <3>2 DEF Frame
    <2>3. frames' \in Seq(Frame) /\ Len(frames') <= MaxDepth
      BY <1>15, <2>1, <2>2, SetTopType DEF StartTask, SetTop
    <2>4. /\ d' \in DispatcherStates /\ d'.timers = d.timers
          /\ Head(d.tasks) \in Task
      BY <1>15, <2>1, PopFrontEffect DEF StartTask
    <2>5. started' \in Ids
      BY <1>15, <2>4 DEF StartTask, Task
    <2> QED
      BY <1>15, <2>3, <2>4, <2>5 DEF StartTask
  <1>16. CASE TasksDone \/ CallbackEnds
    <2>1. PICK pc \in {"finish", "pop", "unwind"} :
            frames # <<>> /\ frames' = [frames EXCEPT ![Len(frames)] = [Top EXCEPT !.pc = pc]]
      BY <1>16 DEF TasksDone, CallbackEnds, At, SetTop
    <2>2. [Top EXCEPT !.pc = pc] \in Frame
      BY <2>1, TopType DEF Frame
    <2>3. frames' \in Seq(Frame) /\ Len(frames') <= MaxDepth
      BY <2>1, <2>2, SetTopType
    <2> QED
      BY <1>16, <2>3 DEF TasksDone, CallbackEnds
  <1>17. CASE Tick
    BY <1>17, LimitsAssumption DEF Tick, Time
  <1>18. CASE UNCHANGED vars
    BY <1>18 DEF vars
  <1> QED
    BY <1>1, <1>2, <1>3, <1>4, <1>5, <1>6, <1>7, <1>8, <1>9, <1>10, <1>11, <1>12,
       <1>13, <1>14, <1>15, <1>16, <1>17, <1>18 DEF Next, ThreadStep, PumpStep

\* Every step keeps the queue within its limit.
LEMMA QueueBoundedStep ==
  ASSUME TypeOK, QueueBounded, [Next]_vars
  PROVE  QueueBounded'
  <1> DEFINE n == Len(d.tasks)
  <1>1. n \in Nat /\ n <= MaxPendingTasks /\ MaxPendingTasks \in Nat
    BY LimitsAssumption DEF QueueBounded, TypeOK, DispatcherStates
  <1>2. ASSUME NEW t \in Threads, Post(t)
        PROVE  QueueBounded'
    <2>1. Len(d'.tasks) = n + 1
      <3>1. d \in DispatcherStates /\ d.tasks \in Seq(Task)
        BY DEF TypeOK, DispatcherStates
      <3>2. \E e : d'.tasks = Append(d.tasks, e)
        BY <1>2, <3>1, PostLockedEffect DEF Post
      <3> QED
        BY <3>1, <3>2
    <2>2. n < MaxPendingTasks
      BY <1>2 DEF Post, CanEnqueue
    <2> QED
      BY <1>1, <2>1, <2>2 DEF QueueBounded
  <1>3. CASE CheckpointTransfer \/ CheckpointFails
    <2>1. \E k \in Nat : k <= MaxPendingTasks - n /\ Len(d'.tasks) = n + k
      BY <1>3, CheckpointTransferEffect, CheckpointFailsEffect
    <2> QED
      BY <1>1, <2>1 DEF QueueBounded
  <1>4. CASE StartTask
    <2>1. Len(d'.tasks) = n - 1
      BY <1>4, PopFrontEffect DEF StartTask, TypeOK
    <2> QED
      BY <1>1, <2>1 DEF QueueBounded
  <1>5. CASE Shutdown
    <2>1. d'.tasks = <<>>
      BY <1>5, ShutdownLockedEffect DEF Shutdown, TypeOK
    <2> QED
      BY <1>1, <2>1 DEF QueueBounded
  <1>6. ASSUME d'.tasks = d.tasks
        PROVE  QueueBounded'
    BY <1>1, <1>6 DEF QueueBounded
  <1>7. ASSUME NEW t \in Threads, ScheduleCommit(t) \/ Cancel(t)
        PROVE  d'.tasks = d.tasks
    BY <1>7 DEF ScheduleCommit, Cancel, ScheduleLocked, CancelLocked, TypeOK, DispatcherStates
  <1>8. CASE CheckpointRecover \/ CheckpointUnwind \/ CheckpointFinish
    <2>1. d'.tasks = d.tasks
      BY <1>8, ArmWakeEffect
         DEF CheckpointRecover, CheckpointUnwind, CheckpointFinish, TypeOK
    <2> QED
      BY <1>6, <2>1
  <1>9. CASE UNCHANGED d
    BY <1>6, <1>9
  <1> HIDE DEF n
  <1> QED
    BY <1>2, <1>3, <1>4, <1>5, <1>6, <1>7, <1>8, <1>9
       DEF Next, ThreadStep, PumpStep, vars, ScheduleBegin, RequestWake, SignalBackend,
           PumpBegin, WaitWoken, WaitTimedOut, WaitInterrupted, DispatchWake,
           CheckpointBegin, CheckpointClosed, TasksDone, CallbackEnds, Tick

\* The initial state has the types and an empty queue.
LEMMA TypeInit == Init => TypeOK /\ QueueBounded
  <1> SUFFICES ASSUME Init
               PROVE  TypeOK /\ QueueBounded
    OBVIOUS
  <1>1. d \in DispatcherStates /\ IsFiniteSet(d.timers) /\ Len(d.tasks) = 0
    BY NewStateType DEF Init, NewDispatcherState
  <1>2. /\ now \in Time /\ started \in Ids /\ faults \in 0 .. MaxFaults
        /\ frames \in Seq(Frame) /\ Len(frames) <= MaxDepth
    BY LimitsAssumption, ThreadsAssumption DEF Init, Time, Ids
  <1>3. call \in [Threads -> Call]
    BY DEF Init, NoCall, Call
  <1>4. native_wake \in BOOLEAN
    BY DEF Init
  <1>5. QueueBounded
    BY <1>1, LimitsAssumption DEF QueueBounded
  <1> QED
    BY <1>1, <1>2, <1>3, <1>4, <1>5 DEF TypeOK

\* Type correctness of the dispatcher and its loop.
THEOREM TypeCorrect == Spec => []TypeOK
  <1>1. TypeOK /\ QueueBounded /\ [Next]_vars => TypeOK' /\ QueueBounded'
    BY TypeStep, QueueBoundedStep
  <1> QED
    BY TypeInit, <1>1, PTL DEF Spec

\* The queue never exceeds kDispatcherMaxPendingTasks: not by concurrent posts,
\* not by a batch of timer firings on top of them, not by a failed checkpoint.
THEOREM QueueAlwaysBounded == Spec => []QueueBounded
  <1>1. TypeOK /\ QueueBounded /\ [Next]_vars => TypeOK' /\ QueueBounded'
    BY TypeStep, QueueBoundedStep
  <1> QED
    BY TypeInit, <1>1, PTL DEF Spec

-----------------------------------------------------------------------------
(***************************************************************************)
(* The wake protocol.  WakeInv is inductive together with the types: the    *)
(* flag is armed whenever tasks are queued and no checkpoint is under way,   *)
(* an armed flag has a wake on its way, and a wait either has something     *)
(* that ends it or was computed from everything there is.                   *)
(***************************************************************************)

CheckpointPcs == {"recover", "pop", "run", "unwind", "finish"}
TakenPcs      == {"dispatch", "enter"}

Checkpointing == \E i \in 1 .. Len(frames) : frames[i].pc \in CheckpointPcs
WakeTaken     == \E i \in 1 .. Len(frames) : frames[i].pc \in TakenPcs

\* Moving the innermost pump keeps OnlyTopWaits, and a witness of NoStrandedTask
\* or WakeInFlight below the top; the new top is no waiting pump.
LEMMA SetTopKeeps ==
  ASSUME TypeOK, OnlyTopWaits, frames # <<>>, NEW e \in Frame, e.pc # "wait",
         frames' = [frames EXCEPT ![Len(frames)] = e]
  PROVE  /\ OnlyTopWaits'
         /\ frames' # <<>> /\ Top' = e
         /\ Len(frames) \in 1 .. Len(frames') /\ frames'[Len(frames)] = e
         /\ Checkpointing => Top.pc \in CheckpointPcs \/ Checkpointing'
         /\ WakeTaken => Top.pc \in TakenPcs \/ WakeTaken'
  <1>1. /\ frames \in Seq(Frame)
        /\ frames' # <<>>
        /\ Len(frames') = Len(frames)
        /\ Len(frames) \in 1 .. Len(frames)
        /\ \A i \in 1 .. Len(frames) - 1 : frames'[i] = frames[i]
        /\ frames'[Len(frames)] = e
    BY SetTopEffect DEF TypeOK
  <1>2. OnlyTopWaits'
    BY <1>1 DEF OnlyTopWaits
  <1>3. Top' = e
    BY <1>1 DEF Top
  <1>4. ASSUME NEW P, NEW i \in 1 .. Len(frames), frames[i].pc \in P
        PROVE  Top.pc \in P \/ \E j \in 1 .. Len(frames') : frames'[j].pc \in P
    <2>1. i = Len(frames) \/ i \in 1 .. Len(frames) - 1
      <3>1. Len(frames) \in Nat
        BY <1>1, LenProperties
      <3> QED
        BY <3>1
    <2> QED
      BY <1>1, <1>4, <2>1 DEF Top
  <1>5. Checkpointing => Top.pc \in CheckpointPcs \/ Checkpointing'
    BY <1>4 DEF Checkpointing
  <1>6. WakeTaken => Top.pc \in TakenPcs \/ WakeTaken'
    BY <1>4 DEF WakeTaken
  <1> QED
    BY <1>1, <1>2, <1>3, <1>5, <1>6

\* The same for the innermost pump's return: the new top runs user code.
LEMMA PopTopKeeps ==
  ASSUME TypeOK, OnlyTopWaits, frames # <<>>, PopTop
  PROVE  /\ OnlyTopWaits'
         /\ frames' # <<>> => Top'.pc \in UserCode
         /\ Checkpointing => Top.pc \in CheckpointPcs \/ Checkpointing'
         /\ WakeTaken => Top.pc \in TakenPcs \/ WakeTaken'
  <1>1. /\ frames' \in Seq(Frame)
        /\ Len(frames') = Len(frames) - 1
        /\ Len(frames) \in Nat \ {0}
        /\ \A i \in 1 .. Len(frames) - 1 : frames'[i] = frames[i]
    BY PopEffect DEF TypeOK, PopTop
  <1>2. OnlyTopWaits'
    BY <1>1 DEF OnlyTopWaits
  <1>3. ASSUME frames' # <<>>
        PROVE  Top'.pc \in UserCode
    <2>1. Len(frames') \in Nat \ {0}
      BY <1>1, <1>3, EmptySeq
    <2>2. Len(frames) - 1 \in 1 .. Len(frames) - 1
      BY <1>1, <2>1
    <2>3. Top' = frames[Len(frames) - 1]
      BY <1>1, <2>2 DEF Top
    <2> QED
      BY <2>2, <2>3, ThreadsAssumption DEF OnlyTopWaits
  <1>4. ASSUME NEW P, NEW i \in 1 .. Len(frames), frames[i].pc \in P
        PROVE  Top.pc \in P \/ \E j \in 1 .. Len(frames') : frames'[j].pc \in P
    <2>1. i = Len(frames) \/ i \in 1 .. Len(frames')
      BY <1>1
    <2> QED
      BY <1>1, <1>4, <2>1 DEF Top
  <1>5. Checkpointing => Top.pc \in CheckpointPcs \/ Checkpointing'
    BY <1>4 DEF Checkpointing
  <1>6. WakeTaken => Top.pc \in TakenPcs \/ WakeTaken'
    BY <1>4 DEF WakeTaken
  <1> QED
    BY <1>2, <1>3, <1>5, <1>6

\* The initial state satisfies the wake protocol.
LEMMA WakeInit == Init => WakeInv
  BY DEF Init, NewDispatcherState, WakeInv, NoStrandedTask, WakeInFlight,
         OnlyTopWaits, ClosedIsEmpty, WaitIsCovered

\* A call into the Dispatcher keeps the wake protocol.
LEMMA WakeThreadStep ==
  ASSUME TypeOK, WakeInv, NEW t \in Threads, ThreadStep(t)
  PROVE  WakeInv'
  <1> USE DEF WakeInv
  <1>0. UNCHANGED <<frames, now>> /\ OnlyTopWaits'
    BY DEF ThreadStep, Post, ScheduleBegin, ScheduleCommit, Cancel, RequestWake,
           SignalBackend, OnlyTopWaits
  <1>1. call \in [Threads -> Call] /\ d \in DispatcherStates /\ IsFiniteSet(d.timers)
    BY DEF TypeOK
  <1>2. CASE Post(t)
    <2>1. /\ ~d.closing /\ ~d'.closing
          /\ d'.timers = d.timers
          /\ d'.wake_pending = (d.wake_pending \/ PostWakes(d))
          /\ call[t].op = "none"
          /\ call' = [call EXCEPT ![t] = IF PostWakes(d) THEN Request ELSE NoCall]
          /\ UNCHANGED native_wake
      BY <1>1, <1>2, PostLockedEffect DEF Post, CanCall, SetCall
    <2>2. ASSUME NEW u \in Threads, call[u].op \in {"request", "signal"}
          PROVE  call'[u] = call[u]
      BY <1>1, <2>1, <2>2
    <2>3. CASE PostWakes(d)
      <3>1. d'.wake_pending /\ call'[t].op = "request"
        BY <1>1, <2>1, <2>3 DEF Request
      <3> QED
        BY <1>0, <2>1, <3>1 DEF NoStrandedTask, WakeInFlight, ClosedIsEmpty, WaitIsCovered
    <2>4. CASE ~PostWakes(d)
      <3>1. d.wake_pending \/ d.tasks # <<>>
        BY <2>4 DEF PostWakes
      <3>2. NoStrandedTask'
        BY <1>0, <2>1, <2>4, <3>1 DEF NoStrandedTask
      <3>3. WakeInFlight'
        BY <1>0, <2>1, <2>2, <2>4 DEF WakeInFlight
      <3>4. WaitIsCovered'
        BY <1>0, <2>1, <2>2, <2>4, <3>1 DEF WaitIsCovered, Top
      <3> QED
        BY <1>0, <2>1, <3>2, <3>3, <3>4 DEF ClosedIsEmpty
    <2> QED
      BY <2>3, <2>4
  <1>3. CASE ScheduleBegin(t)
    <2>1. /\ UNCHANGED <<d, native_wake>>
          /\ \A u \in Threads : call[u].op \in {"request", "signal"} => call'[u] = call[u]
      BY <1>1, <1>3 DEF ScheduleBegin, CanCall, SetCall
    <2> QED
      BY <1>0, <2>1 DEF NoStrandedTask, WakeInFlight, ClosedIsEmpty, WaitIsCovered, Top
  <1>4. CASE ScheduleCommit(t)
    <2>1. /\ call[t].op = "schedule"
          /\ UNCHANGED native_wake
      BY <1>4 DEF ScheduleCommit
    <2>2. \A u \in Threads : call[u].op \in {"request", "signal"} => call'[u] = call[u]
      BY <1>1, <1>4 DEF ScheduleCommit, SetCall
    <2>3. CASE CanSchedule(d)
      <3>1. call[t] \in Call
        BY <1>1
      <3>2. /\ call[t].now \in Time /\ call[t].delay \in Time
            /\ call[t].repeating \in BOOLEAN
            /\ call[t].now + call[t].delay <= TimeMax
        BY <2>1, <3>1 DEF Call
      <3>3. /\ d' = ScheduleLocked(d, call[t].now, call[t].delay, call[t].repeating)
            /\ call' = [call EXCEPT ![t] = IF d.wake_pending THEN NoCall ELSE Request]
            /\ ~d.closing
        BY <1>4, <2>3 DEF ScheduleCommit, SetCall, CanSchedule
      <3>4. ~d'.closing /\ d'.wake_pending
        <4>1. d \in DispatcherStates /\ IsFiniteSet(d.timers)
          BY <1>1
        <4>2. LET p == ScheduleLocked(d, call[t].now, call[t].delay, call[t].repeating)
              IN  p.closing = d.closing /\ p.wake_pending = TRUE
          BY <4>1 DEF ScheduleLocked, DispatcherStates
        <4> QED
          BY <3>3, <4>2
      <3>5. WakeInFlight'
        <4>1. CASE d.wake_pending
          BY <1>0, <2>1, <2>2, <4>1 DEF WakeInFlight
        <4>2. CASE ~d.wake_pending
          <5>1. call'[t].op = "request"
            BY <1>1, <3>3, <4>2 DEF Request
          <5> QED
            BY <5>1 DEF WakeInFlight
        <4> QED
          BY <4>1, <4>2
      <3> QED
        BY <1>0, <3>4, <3>5 DEF NoStrandedTask, ClosedIsEmpty, WaitIsCovered
    <2>4. CASE ~CanSchedule(d)
      <3>1. UNCHANGED d
        BY <1>4, <2>4 DEF ScheduleCommit
      <3> QED
        BY <1>0, <2>1, <2>2, <3>1
           DEF NoStrandedTask, WakeInFlight, ClosedIsEmpty, WaitIsCovered, Top
    <2> QED
      BY <2>3, <2>4
  <1>5. CASE Cancel(t)
    <2>1. PICK timer \in d.timers : d' = CancelLocked(d, timer)
      BY <1>5 DEF Cancel
    <2>2. /\ d'.tasks = d.tasks /\ d'.timers \subseteq d.timers
          /\ d'.closing = d.closing /\ d'.wake_pending = d.wake_pending
          /\ ~d.closing /\ UNCHANGED <<native_wake, call>>
      BY <1>1, <1>5, <2>1 DEF Cancel, CancelLocked, DispatcherStates
    <2> QED
      BY <1>0, <2>2 DEF NoStrandedTask, WakeInFlight, ClosedIsEmpty, WaitIsCovered, Top
  <1>6. CASE RequestWake(t)
    <2>1. /\ call[t].op = "request"
          /\ UNCHANGED <<d, native_wake>>
          /\ call' = [call EXCEPT ![t] = IF d.closing \/ ~d.wake_pending
                                          THEN NoCall ELSE Signal]
      BY <1>6 DEF RequestWake, SetCall
    <2>2. d.wake_pending => call'[t].op = "signal"
      BY <1>1, <2>1 DEF Signal, ClosedIsEmpty
    <2>3. \A u \in Threads : call[u].op = "signal" => call'[u] = call[u]
      BY <1>1, <2>1
    <2>4. WakeInFlight'
      BY <2>1, <2>2 DEF WakeInFlight
    <2>5. WaitIsCovered'
      BY <1>0, <2>1, <2>3 DEF WaitIsCovered, Top
    <2> QED
      BY <1>0, <2>1, <2>4, <2>5 DEF NoStrandedTask, ClosedIsEmpty
  <1>7. CASE SignalBackend(t)
    <2>1. UNCHANGED d /\ native_wake'
      BY <1>7 DEF SignalBackend
    <2> QED
      BY <1>0, <2>1 DEF NoStrandedTask, WakeInFlight, ClosedIsEmpty, WaitIsCovered
  <1> QED
    BY <1>2, <1>3, <1>4, <1>5, <1>6, <1>7 DEF ThreadStep

\* A step of the loop keeps the wake protocol.
LEMMA WakePumpStep ==
  ASSUME TypeOK, QueueBounded, WakeInv, PumpStep
  PROVE  WakeInv'
  <1> USE DEF WakeInv
  <1>0. /\ call \in [Threads -> Call] /\ UI \in Threads
        /\ d \in DispatcherStates /\ IsFiniteSet(d.timers)
        /\ now \in Time /\ frames \in Seq(Frame)
    BY DEF TypeOK, Threads
  <1>1. CASE PumpBegin
    <2> DEFINE e == [pc |-> "wait", deadline |-> NextDeadline(d, now), now |-> now,
                     left |-> 0, frozen |-> d.next_task_sequence]
    <2>1. /\ frames # <<>> => Top.pc \in NestedFrom
          /\ frames' = Append(frames, e)
          /\ UNCHANGED <<d, now, native_wake, call>>
      BY <1>1 DEF PumpBegin, Push
    <2>2. e \in Frame
      <3>1. NextDeadline(d, now) \in 0 .. NoDeadline
        BY <1>0, NextDeadlineBounds
      <3>2. d.next_task_sequence \in Ids
        BY <1>0 DEF DispatcherStates
      <3> QED
        BY <1>0, <3>1, <3>2, LimitsAssumption DEF Frame
    <2>3. e.pc = "wait" /\ e.deadline = NextDeadline(d, now)
      OBVIOUS
    <2> HIDE DEF e
    <2>4. /\ Len(frames) \in Nat
          /\ Len(frames') = Len(frames) + 1
          /\ \A i \in 1 .. Len(frames) : frames'[i] = frames[i]
          /\ frames'[Len(frames) + 1] = e
      BY <1>0, <2>1, <2>2, PushEffect
    <2>5. \A i \in 1 .. Len(frames) : i \in 1 .. Len(frames')
      BY <2>4
    <2>6. OnlyTopWaits'
      <3> SUFFICES ASSUME NEW i \in 1 .. Len(frames') - 1
                   PROVE  frames'[i].pc \in NestedFrom
        BY DEF OnlyTopWaits
      <3>1. i \in 1 .. Len(frames) /\ frames'[i] = frames[i] /\ frames # <<>>
        BY <2>4
      <3>2. CASE i = Len(frames)
        BY <2>1, <3>1, <3>2 DEF Top
      <3>3. CASE i \in 1 .. Len(frames) - 1
        BY <3>1, <3>3 DEF OnlyTopWaits
      <3> QED
        BY <2>4, <3>1, <3>2, <3>3
    <2>7. NoStrandedTask' /\ WakeInFlight' /\ ClosedIsEmpty'
      BY <2>1, <2>4, <2>5 DEF NoStrandedTask, WakeInFlight, ClosedIsEmpty
    <2>8. WaitIsCovered'
      <3>1. Top'.deadline = NextDeadline(d, now)
        BY <2>3, <2>4 DEF Top
      <3>2. \/ d.closing
            \/ NextDeadline(d, now) <= now
            \/ d.tasks = <<>> /\ \A timer \in d.timers : NextDeadline(d, now) <= timer.due
        BY <1>0, NextDeadlineBounds
      <3> QED
        BY <2>1, <3>1, <3>2 DEF WaitIsCovered
    <2> QED
      BY <2>6, <2>7, <2>8
  <1>2. CASE WaitWoken \/ WaitTimedOut \/ WaitInterrupted
    <2> DEFINE e == [Top EXCEPT !.pc = "dispatch"]
    <2>1. /\ frames # <<>> /\ Top.pc = "wait"
          /\ frames' = [frames EXCEPT ![Len(frames)] = e]
          /\ UNCHANGED <<d, call>>
      BY <1>2 DEF WaitWoken, WaitTimedOut, WaitInterrupted, At, LeaveWait, SetTop
    <2>2. e \in Frame /\ e.pc = "dispatch"
      BY <2>1, TopType DEF Frame
    <2> HIDE DEF e
    <2>3. /\ OnlyTopWaits' /\ Top' = e
          /\ Len(frames) \in 1 .. Len(frames') /\ frames'[Len(frames)] = e
          /\ Checkpointing => Top.pc \in CheckpointPcs \/ Checkpointing'
      BY <2>1, <2>2, SetTopKeeps
    <2>4. NoStrandedTask'
      BY <2>1, <2>3 DEF NoStrandedTask, CheckpointPcs, Checkpointing
    <2>5. WakeInFlight'
      BY <2>2, <2>3 DEF WakeInFlight
    <2> QED
      BY <2>1, <2>2, <2>3, <2>4, <2>5 DEF ClosedIsEmpty, WaitIsCovered
  <1>3. CASE DispatchWake
    <2>1. frames # <<>> /\ Top.pc = "dispatch" /\ UNCHANGED <<d, call, frames>>
      BY <1>3 DEF DispatchWake, At
    <2>2. Len(frames) \in 1 .. Len(frames)
      BY <1>0, <2>1, SetTopEffect
    <2>3. WakeInFlight'
      BY <2>1, <2>2 DEF WakeInFlight, Top
    <2> QED
      BY <2>1, <2>3 DEF NoStrandedTask, OnlyTopWaits, ClosedIsEmpty, WaitIsCovered, Top
  <1>4. CASE CheckpointBegin
    <2> DEFINE e == [Top EXCEPT !.pc = "enter", !.now = now]
    <2>1. /\ frames # <<>> /\ Top.pc = "dispatch"
          /\ frames' = [frames EXCEPT ![Len(frames)] = e]
          /\ UNCHANGED <<d, call>>
      BY <1>4 DEF CheckpointBegin, At, SetTop
    <2>2. e \in Frame /\ e.pc = "enter"
      BY <1>0, <2>1, TopType DEF Frame
    <2> HIDE DEF e
    <2>3. /\ OnlyTopWaits' /\ Top' = e
          /\ Len(frames) \in 1 .. Len(frames') /\ frames'[Len(frames)] = e
          /\ Checkpointing => Top.pc \in CheckpointPcs \/ Checkpointing'
      BY <2>1, <2>2, SetTopKeeps
    <2>4. NoStrandedTask'
      BY <2>1, <2>3 DEF NoStrandedTask, CheckpointPcs, Checkpointing
    <2>5. WakeInFlight'
      BY <2>2, <2>3 DEF WakeInFlight
    <2> QED
      BY <2>1, <2>2, <2>3, <2>4, <2>5 DEF ClosedIsEmpty, WaitIsCovered
  <1>5. CASE CheckpointClosed
    <2>1. d.closing /\ frames # <<>> /\ PopTop /\ UNCHANGED d
      BY <1>5 DEF CheckpointClosed, At
    <2>2. OnlyTopWaits'
      BY <2>1, PopTopKeeps
    <2> QED
      BY <2>1, <2>2 DEF NoStrandedTask, WakeInFlight, ClosedIsEmpty, WaitIsCovered
  <1>6. CASE CheckpointTransfer \/ CheckpointFails
    <2>1. frames # <<>>
      BY <1>6 DEF CheckpointTransfer, CheckpointFails, At
    <2>2. PICK e \in Frame : /\ e.pc \in {"pop", "recover"}
                             /\ frames' = [frames EXCEPT ![Len(frames)] = e]
      BY <1>6, CheckpointTransferEffect, CheckpointFailsEffect
    <2>3. /\ OnlyTopWaits' /\ Top' = e
          /\ Len(frames) \in 1 .. Len(frames') /\ frames'[Len(frames)] = e
      BY <2>1, <2>2, SetTopKeeps
    <2>4. d'.wake_pending => call'[UI].op = "request"
      <3>1. d'.wake_pending => call' = [call EXCEPT ![UI] = Request]
        BY <1>6, CheckpointTransferEffect, CheckpointFailsEffect
      <3> QED
        BY <1>0, <3>1 DEF Request
    <2>5. d'.closing = FALSE
      BY <1>6, CheckpointTransferEffect, CheckpointFailsEffect
    <2>6. NoStrandedTask'
      BY <2>2, <2>3 DEF NoStrandedTask
    <2>7. WakeInFlight'
      BY <1>0, <2>4 DEF WakeInFlight
    <2> QED
      BY <2>2, <2>3, <2>5, <2>6, <2>7 DEF ClosedIsEmpty, WaitIsCovered
  <1>7. CASE CheckpointRecover \/ CheckpointUnwind \/ CheckpointFinish
    <2>1. PICK rewake \in BOOLEAN :
            /\ d' = IF rewake THEN ArmWake(d) ELSE d
            /\ call' = [call EXCEPT ![UI] = IF rewake THEN Request ELSE NoCall]
            /\ rewake => ~d.closing
            /\ ~d.closing /\ d.tasks # <<>> => rewake \/ d.wake_pending
      BY <1>7 DEF CheckpointRecover, CheckpointUnwind, CheckpointFinish, SetCall, RecoverWake
    <2>2. /\ frames # <<>> /\ PopTop /\ call[UI].op = "none"
          /\ Top.pc \in {"recover", "unwind", "finish"}
          /\ UNCHANGED native_wake
      BY <1>7 DEF CheckpointRecover, CheckpointUnwind, CheckpointFinish, At
    <2>3. /\ OnlyTopWaits'
          /\ frames' # <<>> => Top'.pc \in UserCode
          /\ WakeTaken => Top.pc \in TakenPcs \/ WakeTaken'
      BY <2>2, PopTopKeeps
    <2>4. /\ d'.closing = d.closing /\ d'.tasks = d.tasks /\ d'.timers = d.timers
          /\ d'.wake_pending = (rewake \/ d.wake_pending)
      BY <1>0, <2>1, ArmWakeEffect DEF DispatcherStates
    <2>5. NoStrandedTask'
      BY <2>1, <2>4 DEF NoStrandedTask
    <2>6. WakeInFlight'
      <3>1. CASE rewake
        BY <1>0, <2>1, <3>1 DEF WakeInFlight, Request
      <3>2. CASE ~rewake
        <4>1. \A u \in Threads : call[u].op \in {"request", "signal"} => call'[u] = call[u]
          BY <1>0, <2>1, <2>2
        <4> QED
          BY <2>2, <2>3, <2>4, <3>2, <4>1 DEF WakeInFlight, WakeTaken, TakenPcs
      <3> QED
        BY <3>1, <3>2
    <2>7. WaitIsCovered'
      BY <2>3 DEF WaitIsCovered, UserCode
    <2>8. ClosedIsEmpty'
      BY <2>1, <2>4 DEF ClosedIsEmpty
    <2> QED
      BY <2>3, <2>5, <2>6, <2>7, <2>8
  <1>8. CASE StartTask
    <2> DEFINE e == [Top EXCEPT !.pc = "run", !.left = @ - 1]
    <2>1. /\ frames # <<>> /\ Top.pc = "pop" /\ Top.left > 0
          /\ frames' = [frames EXCEPT ![Len(frames)] = e]
          /\ d' = PopFront(d) /\ d.tasks # <<>> /\ ~d.closing
          /\ UNCHANGED <<call, native_wake>>
      BY <1>8 DEF StartTask, At, SetTop
    <2>2. e \in Frame /\ e.pc = "run"
      <3>1. Top \in Frame
        BY <2>1, TopType
      <3>2. Top.left - 1 \in 0 .. MaxTasksPerCheckpoint
        BY <2>1, <3>1, LimitsAssumption DEF Frame
      <3> QED
        BY <3>1, <3>2 DEF Frame
    <2> HIDE DEF e
    <2>3. /\ OnlyTopWaits' /\ Top' = e
          /\ Len(frames) \in 1 .. Len(frames') /\ frames'[Len(frames)] = e
          /\ WakeTaken => Top.pc \in TakenPcs \/ WakeTaken'
      BY <2>1, <2>2, SetTopKeeps
    <2>4. d'.closing = d.closing /\ d'.wake_pending = d.wake_pending
      BY <1>0, <2>1, PopFrontEffect
    <2>5. NoStrandedTask'
      BY <2>2, <2>3 DEF NoStrandedTask
    <2>6. WakeInFlight'
      BY <2>1, <2>3, <2>4 DEF WakeInFlight, WakeTaken, TakenPcs
    <2> QED
      BY <2>1, <2>2, <2>3, <2>4, <2>5, <2>6 DEF ClosedIsEmpty, WaitIsCovered
  <1>9. CASE TasksDone \/ CallbackEnds
    <2>1. PICK pc \in {"finish", "pop", "unwind"} :
            frames # <<>> /\ frames' = [frames EXCEPT ![Len(frames)] = [Top EXCEPT !.pc = pc]]
      BY <1>9 DEF TasksDone, CallbackEnds, At, SetTop
    <2> DEFINE e == [Top EXCEPT !.pc = pc]
    <2>2. e \in Frame /\ e.pc = pc
      BY <2>1, TopType DEF Frame
    <2>3. Top.pc \in {"pop", "run"} /\ UNCHANGED <<d, call, native_wake>>
      BY <1>9 DEF TasksDone, CallbackEnds, At
    <2> HIDE DEF e
    <2>4. /\ OnlyTopWaits' /\ Top' = e
          /\ Len(frames) \in 1 .. Len(frames') /\ frames'[Len(frames)] = e
          /\ WakeTaken => Top.pc \in TakenPcs \/ WakeTaken'
      BY <2>1, <2>2, SetTopKeeps DEF e
    <2>5. NoStrandedTask'
      BY <2>2, <2>4 DEF NoStrandedTask
    <2>6. WakeInFlight'
      BY <2>3, <2>4 DEF WakeInFlight, WakeTaken, TakenPcs
    <2> QED
      BY <2>2, <2>3, <2>4, <2>5, <2>6 DEF ClosedIsEmpty, WaitIsCovered
  <1> QED
    BY <1>1, <1>2, <1>3, <1>4, <1>5, <1>6, <1>7, <1>8, <1>9 DEF PumpStep

\* Every step keeps the wake protocol.
LEMMA WakeStep ==
  ASSUME TypeOK, QueueBounded, WakeInv, [Next]_vars
  PROVE  WakeInv'
  <1> USE DEF WakeInv
  <1>1. CASE Shutdown
    <2>1. d'.closing /\ d'.tasks = <<>> /\ d'.timers = {} /\ ~d'.wake_pending
      BY <1>1, ShutdownLockedEffect DEF Shutdown, TypeOK
    <2>2. UNCHANGED frames
      BY <1>1 DEF Shutdown
    <2> QED
      BY <2>1, <2>2
         DEF NoStrandedTask, WakeInFlight, OnlyTopWaits, ClosedIsEmpty, WaitIsCovered
  <1>2. CASE Tick
    <2>1. now' = now + 1 /\ now \in Int /\ UNCHANGED <<d, native_wake, call, frames>>
      BY <1>2, LimitsAssumption DEF Tick, TypeOK, Time
    <2>2. WaitIsCovered'
      <3>1. frames # <<>> => Top.deadline \in Int
        BY TopType, LimitsAssumption DEF Frame, NoDeadline
      <3> QED
        BY <2>1, <3>1 DEF WaitIsCovered, Top
    <2> QED
      BY <2>1, <2>2 DEF NoStrandedTask, WakeInFlight, OnlyTopWaits, ClosedIsEmpty
  <1>3. CASE UNCHANGED vars
    BY <1>3 DEF vars, NoStrandedTask, WakeInFlight, OnlyTopWaits, ClosedIsEmpty,
                WaitIsCovered, Top
  <1> QED
    BY <1>1, <1>2, <1>3, WakeThreadStep, WakePumpStep DEF Next

\* The wake protocol is kept.
THEOREM WakeAlwaysKept == Spec => [](TypeOK /\ WakeInv)
  <1>1. Init => TypeOK /\ QueueBounded /\ WakeInv
    BY TypeInit, WakeInit
  <1>2. /\ TypeOK /\ QueueBounded /\ WakeInv /\ [Next]_vars
        => TypeOK' /\ QueueBounded' /\ WakeInv'
    BY TypeStep, QueueBoundedStep, WakeStep
  <1> QED
    BY <1>1, <1>2, PTL DEF Spec

\* An accepted task is never stranded in the queue without a wake or a
\* checkpoint under way (posts to a queue that is not empty send no wake).
THEOREM TasksNeverStranded == Spec => []NoStrandedTask
  <1>1. WakeInv => NoStrandedTask
    BY DEF WakeInv
  <1> QED
    BY <1>1, WakeAlwaysKept, PTL

\* The armed flag always has a wake on its way: wake_pending, which silences
\* later posters, never outlives the wake it stands for.
THEOREM WakeAlwaysInFlight == Spec => []WakeInFlight
  <1>1. WakeInv => WakeInFlight
    BY DEF WakeInv
  <1> QED
    BY <1>1, WakeAlwaysKept, PTL

\* If only dispatcher callbacks re-enter the pump, an armed flag and a sleeping
\* loop exclude each other, so the deadline of the wait covers all work.
LEMMA WakeInvMeansAwake ==
  ASSUME NestedFrom \subseteq {"run"}, TypeOK, WakeInv
  PROVE  NoOversleep
  <1> SUFFICES ASSUME Asleep, ~d.closing
               PROVE  /\ d.tasks = <<>>
                      /\ \A timer \in d.timers : Top.deadline <= timer.due
    BY DEF NoOversleep
  <1>1. frames # <<>> /\ Top.pc = "wait" /\ now < Top.deadline /\ ~native_wake
    BY DEF Asleep, At
  <1>2. \A t \in Threads : call[t].op \notin {"request", "signal"}
    BY DEF Asleep
  <1>3. ~d.wake_pending
    <2> SUFFICES ASSUME NEW i \in 1 .. Len(frames), frames[i].pc \in {"dispatch", "enter"}
                 PROVE  FALSE
      BY <1>1, <1>2 DEF WakeInv, WakeInFlight
    <2>1. CASE i = Len(frames)
      BY <1>1, <2>1 DEF Top
    <2>2. CASE i # Len(frames)
      <3>1. Len(frames) \in Nat
        BY DEF TypeOK
      <3>2. i \in 1 .. Len(frames) - 1
        BY <2>2, <3>1
      <3> QED
        BY <3>2 DEF WakeInv, OnlyTopWaits
    <2> QED
      BY <2>1, <2>2
  <1>4. ~(Top.deadline <= now)
    <2>1. Top.deadline \in Int /\ now \in Int
      BY <1>1, TopType, LimitsAssumption DEF Frame, NoDeadline, TypeOK, Time
    <2> QED
      BY <1>1, <2>1
  <1> QED
    BY <1>1, <1>2, <1>3, <1>4 DEF WakeInv, WaitIsCovered

\* The loop never sleeps past accepted work, for any number of posting threads,
\* as long as native event handlers do not pump the loop again.
THEOREM NeverOversleeps ==
  ASSUME NestedFrom \subseteq {"run"}
  PROVE  Spec => []NoOversleep
  <1>1. TypeOK /\ WakeInv => NoOversleep
    BY WakeInvMeansAwake
  <1> QED
    BY <1>1, WakeAlwaysKept, PTL

-----------------------------------------------------------------------------
(***************************************************************************)
(* The order of execution, and the abstract queue.                          *)
(***************************************************************************)

\* The sequences of the queue stay the unstarted suffix when k firings are
\* appended, for a complete transfer and for a failed one.
LEMMA TransferKeepsSuffix ==
  ASSUME TypeOK, QueueIsUnstartedSuffix, ~d.closing, d' \in DispatcherStates,
         NEW k \in Nat, k <= SequencesLeft(d),
         d'.next_task_sequence = Advance(d.next_task_sequence, k),
         Len(d'.tasks) = Len(d.tasks) + k,
         \A i \in 1 .. Len(d.tasks) : d'.tasks[i] = d.tasks[i],
         \A i \in 1 .. k :
            d'.tasks[Len(d.tasks) + i].sequence = d.next_task_sequence + i - 1,
         started' = started
  PROVE  QueueIsUnstartedSuffix' /\ LastAccepted' = LastAccepted + k
  <1> DEFINE n == Len(d.tasks)
  <1>1. /\ n \in Nat /\ d.next_task_sequence \in Ids /\ started \in Int
        /\ IdModulus \in Nat \ {0, 1}
    BY LimitsAssumption DEF TypeOK, DispatcherStates, Ids
  <1>2. /\ \A i \in 1 .. n : d.tasks[i].sequence = started + i
        /\ LastAccepted = started + n
    BY DEF QueueIsUnstartedSuffix
  <1>3. Len(d'.tasks) = n + k
    OBVIOUS
  <1> HIDE DEF n
  <1>4. k = 0 \/ (d.next_task_sequence # 0 /\ d.next_task_sequence + k <= IdModulus)
    BY <1>1 DEF SequencesLeft, Ids
  <1>5. LastAccepted' = LastAccepted + k
    BY <1>1, <1>4 DEF LastAccepted, Advance, Ids
  <1>6. ASSUME NEW i \in 1 .. n + k
        PROVE  d'.tasks[i].sequence = started + i
    <2>1. CASE i \in 1 .. n
      BY <1>2, <2>1 DEF n
    <2>2. CASE i \notin 1 .. n
      <3>1. \E j \in 1 .. k : i = n + j
        <4>1. i - n \in 1 .. k /\ i = n + (i - n)
          BY <1>1, <2>2
        <4> QED
          BY <4>1
      <3>2. PICK j \in 1 .. k : i = n + j
        BY <3>1
      <3>3. d'.tasks[i].sequence = d.next_task_sequence + j - 1
        BY <3>2 DEF n
      <3>4. d.next_task_sequence - 1 = started + n
        BY <1>1, <1>2, <1>4, <3>2 DEF LastAccepted
      <3>5. d.next_task_sequence \in Int /\ j \in Int
        BY <1>1 DEF Ids
      <3>6. d.next_task_sequence + j - 1 = started + (n + j)
        <4>1. n \in Int /\ started \in Int
          BY <1>1
        <4> DEFINE a == d.next_task_sequence
        <4>2. a \in Int /\ a - 1 = started + n
          BY <3>4, <3>5
        <4> HIDE DEF a, n
        <4>3. a + j - 1 = started + (n + j)
          BY <3>5, <4>1, <4>2
        <4> QED
          BY <4>3 DEF a
      <3> QED
        BY <3>2, <3>3, <3>6
    <2> QED
      BY <2>1, <2>2
  <1>7. LastAccepted' = started' + Len(d'.tasks)
    <2>1. LastAccepted' = (started + n) + k
      BY <1>2, <1>5
    <2>2. started' + Len(d'.tasks) = started + (n + k)
      BY <1>3
    <2> QED
      BY <1>1, <2>1, <2>2
  <1> QED
    BY <1>3, <1>5, <1>6, <1>7 DEF QueueIsUnstartedSuffix

\* Starting the head advances the suffix by one.
LEMMA StartKeepsSuffix ==
  ASSUME TypeOK, QueueIsUnstartedSuffix, StartTask
  PROVE  /\ QueueIsUnstartedSuffix' /\ LastAccepted' = LastAccepted
         /\ started' = started + 1 /\ started < LastAccepted
  <1> DEFINE n == Len(d.tasks)
  <1>1. /\ d'.closing = d.closing
        /\ d'.next_task_sequence = d.next_task_sequence
        /\ Len(d'.tasks) = n - 1
        /\ \A i \in 1 .. Len(d'.tasks) : d'.tasks[i] = d.tasks[i + 1]
        /\ started' = d.tasks[1].sequence
        /\ n >= 1
    BY PopFrontEffect DEF StartTask, TypeOK
  <1>2. n \in Nat /\ started \in Int /\ d.next_task_sequence \in Int /\ IdModulus \in Int
    BY LimitsAssumption DEF TypeOK, DispatcherStates, Ids
  <1>3. /\ \A i \in 1 .. n : d.tasks[i].sequence = started + i
        /\ LastAccepted = started + n
    BY DEF QueueIsUnstartedSuffix, StartTask
  <1> HIDE DEF n
  <1>4. started' = started + 1
    BY <1>1, <1>2, <1>3
  <1>5. LastAccepted' = LastAccepted
    BY <1>1 DEF LastAccepted
  <1>6. ASSUME NEW i \in 1 .. Len(d'.tasks)
        PROVE  d'.tasks[i].sequence = started' + i
    <2>1. i + 1 \in 1 .. n /\ d'.tasks[i] = d.tasks[i + 1]
      BY <1>1, <1>2
    <2>2. d.tasks[i + 1].sequence = started + (i + 1)
      BY <1>3, <2>1
    <2> QED
      BY <1>2, <1>4, <2>1, <2>2
  <1>7. LastAccepted' = started' + Len(d'.tasks)
    BY <1>1, <1>2, <1>3, <1>4, <1>5
  <1>8. started < LastAccepted
    BY <1>1, <1>2, <1>3
  <1> QED
    BY <1>4, <1>5, <1>6, <1>7, <1>8 DEF QueueIsUnstartedSuffix

\* post() extends the suffix by one.
LEMMA PostKeepsSuffix ==
  ASSUME TypeOK, QueueIsUnstartedSuffix, NEW t \in Threads, Post(t)
  PROVE  QueueIsUnstartedSuffix' /\ LastAccepted' = LastAccepted + 1
  <1> DEFINE e == [sequence |-> d.next_task_sequence, timer |-> 0, repeating |-> FALSE]
  <1>1. /\ d \in DispatcherStates /\ d.tasks \in Seq(Task)
        /\ d.next_task_sequence # 0 /\ ~d.closing
    BY DEF TypeOK, DispatcherStates, Post, CanEnqueue
  <1>2. /\ d' \in DispatcherStates
        /\ d'.tasks = Append(d.tasks, e)
        /\ d'.next_task_sequence = Advance(d.next_task_sequence, 1)
        /\ UNCHANGED started
    BY <1>1, PostLockedEffect DEF Post
  <1>3. d.next_task_sequence \in Ids
    BY <1>1 DEF DispatcherStates
  <1>4. 1 <= SequencesLeft(d)
    BY <1>1, <1>3, LimitsAssumption DEF SequencesLeft, Ids
  <1>5. e \in Task
    BY <1>3, LimitsAssumption DEF Task, Ids
  <1>6. e.sequence = d.next_task_sequence
    OBVIOUS
  <1> HIDE DEF e
  <1>7. /\ Len(d'.tasks) = Len(d.tasks) + 1
        /\ \A i \in 1 .. Len(d.tasks) : d'.tasks[i] = d.tasks[i]
        /\ d'.tasks[Len(d.tasks) + 1] = e
    BY <1>1, <1>2, <1>5, AppendProperties
  <1>8. \A i \in 1 .. 1 : d'.tasks[Len(d.tasks) + i].sequence = d.next_task_sequence + i - 1
    <2>1. d.next_task_sequence + 1 - 1 = d.next_task_sequence
      BY <1>3, LimitsAssumption DEF Ids
    <2>2. \A i \in 1 .. 1 : i = 1
      OBVIOUS
    <2> QED
      BY <1>6, <1>7, <2>1, <2>2
  <1> QED
    BY <1>1, <1>2, <1>4, <1>7, <1>8, TransferKeepsSuffix

\* The other steps change neither the queue nor the counters.
LEMMA QuietSteps ==
  ASSUME TypeOK, [Next]_vars
  PROVE  \/ \E t \in Threads : Post(t)
         \/ CheckpointTransfer \/ CheckpointFails \/ StartTask \/ Shutdown
         \/ /\ d'.tasks = d.tasks /\ d'.next_task_sequence = d.next_task_sequence
            /\ d'.closing = d.closing /\ UNCHANGED started
  <1> DEFINE Quiet == /\ d'.tasks = d.tasks
                      /\ d'.next_task_sequence = d.next_task_sequence
                      /\ d'.closing = d.closing /\ UNCHANGED started
  <1>1. d \in DispatcherStates
    BY DEF TypeOK
  <1>2. ASSUME NEW t \in Threads, ScheduleCommit(t) \/ Cancel(t)
        PROVE  Quiet
    BY <1>1, <1>2 DEF ScheduleCommit, Cancel, ScheduleLocked, CancelLocked, DispatcherStates
  <1>3. ASSUME CheckpointRecover \/ CheckpointUnwind \/ CheckpointFinish
        PROVE  Quiet
    <2>1. (d' = ArmWake(d) \/ d' = d) /\ UNCHANGED started
      BY <1>3 DEF CheckpointRecover, CheckpointUnwind, CheckpointFinish
    <2> QED
      BY <1>1, <2>1, ArmWakeEffect
  <1>4. ASSUME UNCHANGED d, UNCHANGED started
        PROVE  Quiet
    BY <1>4
  <1> HIDE DEF Quiet
  <1>5. ASSUME NEW t \in Threads, ThreadStep(t)
        PROVE  Post(t) \/ Quiet
    <2>1. CASE ScheduleBegin(t) \/ RequestWake(t) \/ SignalBackend(t)
      BY <1>4, <2>1 DEF ScheduleBegin, RequestWake, SignalBackend
    <2> QED
      BY <1>2, <1>5, <2>1 DEF ThreadStep
  <1>6. ASSUME PumpStep
        PROVE  CheckpointTransfer \/ CheckpointFails \/ StartTask \/ Quiet
    <2>1. CASE PumpBegin \/ WaitWoken \/ WaitTimedOut \/ WaitInterrupted \/ DispatchWake
      BY <1>4, <2>1 DEF PumpBegin, WaitWoken, WaitTimedOut, WaitInterrupted, DispatchWake
    <2>2. CASE CheckpointBegin \/ CheckpointClosed \/ TasksDone \/ CallbackEnds
      BY <1>4, <2>2 DEF CheckpointBegin, CheckpointClosed, TasksDone, CallbackEnds
    <2> QED
      BY <1>3, <1>6, <2>1, <2>2 DEF PumpStep
  <1>7. ASSUME Tick \/ UNCHANGED vars
        PROVE  Quiet
    BY <1>4, <1>7 DEF Tick, vars
  <1>8. \/ \E t \in Threads : Post(t)
        \/ CheckpointTransfer \/ CheckpointFails \/ StartTask \/ Shutdown
        \/ Quiet
    BY <1>5, <1>6, <1>7 DEF Next
  <1> QED
    BY <1>8 DEF Quiet

\* A step either leaves the suffix alone or is a step of the abstract queue.
LEMMA SuffixStep ==
  ASSUME TypeOK, QueueBounded, ClosedIsEmpty, QueueIsUnstartedSuffix, [Next]_vars
  PROVE  QueueIsUnstartedSuffix' /\ [Queue!QueueNext]_(Queue!queueVars)
  <1> DEFINE n == Len(d.tasks)
  <1>0. /\ d \in DispatcherStates /\ n \in Nat /\ n <= MaxPendingTasks
        /\ started \in Int /\ d.next_task_sequence \in Ids
        /\ IdModulus \in Nat /\ MaxPendingTasks \in Nat
    BY LimitsAssumption DEF TypeOK, DispatcherStates, QueueBounded, Ids
  <1>a. ASSUME NEW k \in Nat, k <= MaxPendingTasks - n, LastAccepted' = LastAccepted + k,
               ~d.closing, d'.closing = d.closing, UNCHANGED started,
               d' \in DispatcherStates
        PROVE  [Queue!QueueNext]_(Queue!queueVars)
    <2>1. LastAccepted = started + n
      BY <1>a DEF QueueIsUnstartedSuffix
    <2>2. LastAccepted' <= IdModulus - 1
      <3>1. d'.next_task_sequence \in Ids
        BY <1>a DEF DispatcherStates
      <3> QED
        BY <3>1, <1>0, LimitsAssumption DEF LastAccepted, Ids
    <2>3. CASE k = 0
      BY <1>0, <1>a, <2>1, <2>3 DEF Queue!queueVars
    <2>4. CASE k # 0
      <3>1. k \in 1 .. MaxPendingTasks /\ LastAccepted + k - started <= MaxPendingTasks
        BY <1>0, <1>a, <2>1, <2>4
      <3>2. Queue!Accept
        BY <1>a, <2>2, <3>1 DEF Queue!Accept
      <3> QED
        BY <3>2 DEF Queue!QueueNext
    <2> QED
      BY <2>3, <2>4
  <1>1. ASSUME NEW t \in Threads, Post(t)
        PROVE  QueueIsUnstartedSuffix' /\ [Queue!QueueNext]_(Queue!queueVars)
    <2>1. QueueIsUnstartedSuffix' /\ LastAccepted' = LastAccepted + 1
      BY <1>1, PostKeepsSuffix
    <2>2. ~d.closing /\ n < MaxPendingTasks /\ UNCHANGED started
      BY <1>1 DEF Post, CanEnqueue
    <2>3. d' \in DispatcherStates /\ d'.closing = d.closing
      BY <1>0, <1>1, PostLockedEffect DEF Post
    <2>4. 1 \in Nat /\ 1 <= MaxPendingTasks - n
      BY <1>0, <2>2
    <2> QED
      BY <1>a, <2>1, <2>2, <2>3, <2>4
  <1>2. CASE CheckpointTransfer \/ CheckpointFails
    <2>1. ~d.closing /\ UNCHANGED started
      BY <1>2 DEF CheckpointTransfer, CheckpointFails
    <2>2. d' \in DispatcherStates /\ d'.closing = d.closing
      <3>1. d.closing = FALSE
        BY <1>0, <2>1 DEF DispatcherStates
      <3> QED
        BY <1>2, <3>1, CheckpointTransferEffect, CheckpointFailsEffect
    <2>3. PICK k \in Nat :
            /\ k <= SequencesLeft(d)
            /\ k <= MaxPendingTasks - Len(d.tasks)
            /\ d'.next_task_sequence = Advance(d.next_task_sequence, k)
            /\ Len(d'.tasks) = Len(d.tasks) + k
            /\ \A i \in 1 .. Len(d.tasks) : d'.tasks[i] = d.tasks[i]
            /\ \A i \in 1 .. k :
                 d'.tasks[Len(d.tasks) + i].sequence = d.next_task_sequence + i - 1
      BY <1>2, CheckpointTransferEffect, CheckpointFailsEffect
    <2>4. QueueIsUnstartedSuffix' /\ LastAccepted' = LastAccepted + k
      BY <2>1, <2>2, <2>3, TransferKeepsSuffix
    <2> QED
      BY <1>a, <2>1, <2>2, <2>3, <2>4
  <1>3. CASE StartTask
    <2>1. /\ QueueIsUnstartedSuffix' /\ LastAccepted' = LastAccepted
          /\ started' = started + 1 /\ started < LastAccepted
      BY <1>3, StartKeepsSuffix
    <2>2. ~d.closing /\ d'.closing = d.closing
      BY <1>0, <1>3, PopFrontEffect DEF StartTask
    <2>3. Queue!StartNext
      BY <2>1, <2>2 DEF Queue!StartNext
    <2> QED
      BY <2>1, <2>3 DEF Queue!QueueNext
  <1>4. CASE Shutdown
    <2>1. /\ d'.closing = TRUE /\ d'.tasks = <<>> /\ UNCHANGED started
          /\ d'.next_task_sequence = d.next_task_sequence
      BY <1>0, <1>4, ShutdownLockedEffect DEF Shutdown
    <2>2. LastAccepted' = LastAccepted
      BY <2>1 DEF LastAccepted
    <2>3. Queue!Close
      BY <2>1, <2>2 DEF Queue!Close
    <2>4. QueueIsUnstartedSuffix'
      BY <2>1 DEF QueueIsUnstartedSuffix
    <2> QED
      BY <2>3, <2>4 DEF Queue!QueueNext
  <1>5. ASSUME d'.tasks = d.tasks, d'.next_task_sequence = d.next_task_sequence,
               d'.closing = d.closing, UNCHANGED started
        PROVE  QueueIsUnstartedSuffix' /\ [Queue!QueueNext]_(Queue!queueVars)
    <2>1. LastAccepted' = LastAccepted
      BY <1>5 DEF LastAccepted
    <2>2. QueueIsUnstartedSuffix'
      BY <1>5, <2>1 DEF QueueIsUnstartedSuffix
    <2> QED
      BY <1>5, <2>1, <2>2 DEF Queue!queueVars
  <1> HIDE DEF n
  <1> QED
    BY <1>1, <1>2, <1>3, <1>4, <1>5, QuietSteps

\* The initial state is the initial state of the abstract queue.
LEMMA SuffixInit == Init => QueueIsUnstartedSuffix /\ Queue!QueueInit
  BY LimitsAssumption
     DEF Init, NewDispatcherState, QueueIsUnstartedSuffix, LastAccepted, Queue!QueueInit

\* The queue holds exactly the accepted tasks that were not started, in the
\* order they were accepted: nothing is lost, duplicated or reordered.
THEOREM TasksRunInOrder == Spec => []QueueIsUnstartedSuffix
  <1>1. Init => TypeOK /\ QueueBounded /\ WakeInv /\ QueueIsUnstartedSuffix
    BY TypeInit, WakeInit, SuffixInit
  <1>2. /\ TypeOK /\ QueueBounded /\ WakeInv /\ QueueIsUnstartedSuffix /\ [Next]_vars
        => TypeOK' /\ QueueBounded' /\ WakeInv' /\ QueueIsUnstartedSuffix'
    BY TypeStep, QueueBoundedStep, WakeStep, SuffixStep DEF WakeInv
  <1> QED
    BY <1>1, <1>2, PTL DEF Spec

\* The dispatcher with all its threads, wakes and checkpoints implements the
\* bounded at-most-once FIFO executor.
THEOREM DispatcherImplementsTaskQueue == Spec => ImplementsTaskQueue
  <1>1. Init => /\ TypeOK /\ QueueBounded /\ WakeInv /\ QueueIsUnstartedSuffix
                /\ Queue!QueueInit
    BY TypeInit, WakeInit, SuffixInit
  <1>2. /\ TypeOK /\ QueueBounded /\ WakeInv /\ QueueIsUnstartedSuffix /\ [Next]_vars
        => /\ TypeOK' /\ QueueBounded' /\ WakeInv' /\ QueueIsUnstartedSuffix'
           /\ [Queue!QueueNext]_(Queue!queueVars)
    BY TypeStep, QueueBoundedStep, WakeStep, SuffixStep DEF WakeInv
  <1> QED
    BY <1>1, <1>2, PTL DEF Spec, ImplementsTaskQueue, Queue!QueueSpec

-----------------------------------------------------------------------------
(***************************************************************************)
(* The snapshot of a checkpoint.                                            *)
(***************************************************************************)

\* What a checkpoint may still start was accepted before it froze its work.
Snapshot == frames # <<>> /\ Top.pc \in {"pop", "run"} =>
                Top.frozen = 0 \/ started + Top.left < Top.frozen

\* A checkpoint freezes no more than there is in the queue.
LEMMA CheckpointFreezes ==
  ASSUME TypeOK, QueueBounded, CheckpointTransfer
  PROVE  /\ frames' # <<>>
         /\ Top'.frozen = d'.next_task_sequence
         /\ Top'.left \in Nat /\ Top'.left <= Len(d'.tasks)
  <1> DEFINE due == DueTimers(d, Top.now)
             k   == TransferLimit(d, due)
  <1>1. PICK f \in FiringOrders(due, k) :
          LET moved  == Transfer(d, Top.now, f, k)
              rewake == MustRewake(moved, k < Cardinality(due))
          IN /\ d' = IF rewake THEN ArmWake(moved) ELSE moved
             /\ SetCall(UI, IF rewake THEN Request ELSE NoCall)
             /\ SetTop([Top EXCEPT !.pc = "pop", !.left = FrozenWork(moved),
                                   !.frozen = moved.next_task_sequence])
    BY DEF CheckpointTransfer
  <1> DEFINE moved  == Transfer(d, Top.now, f, k)
  <1>2. d \in DispatcherStates /\ IsFiniteSet(d.timers) /\ frames \in Seq(Frame)
    BY DEF TypeOK
  <1>3. frames # <<>>
    BY DEF CheckpointTransfer, At
  <1>4. Top \in Frame
    BY <1>2, <1>3, SetTopEffect DEF Top
  <1>5. Top.now \in Time
    BY <1>4 DEF Frame
  <1>6. IsFiniteSet(due)
    BY <1>2, FS_Subset DEF DueTimers
  <1>7. k \in Nat /\ k <= SequencesLeft(d)
    BY <1>2, <1>6, TransferLimitBounds DEF QueueBounded
  <1>8. moved \in DispatcherStates
    <2> HIDE DEF k
    <2> QED
      BY <1>1, <1>2, <1>5, <1>7, TransferEffect DEF due
  <1> HIDE DEF moved, k, due
  <1>9. d'.tasks = moved.tasks /\ d'.next_task_sequence = moved.next_task_sequence
    BY <1>1, <1>8, ArmWakeEffect DEF moved, k, due
  <1>10. FrozenWork(moved) \in 0 .. MaxTasksPerCheckpoint /\ FrozenWork(moved) <= Len(moved.tasks)
    BY <1>8, LimitsAssumption DEF FrozenWork, DispatcherStates
  <1>11. moved.next_task_sequence \in Ids
    BY <1>8 DEF DispatcherStates
  <1> DEFINE e == [Top EXCEPT !.pc = "pop", !.left = FrozenWork(moved),
                              !.frozen = moved.next_task_sequence]
  <1>12. e \in Frame /\ e.left = FrozenWork(moved) /\ e.frozen = moved.next_task_sequence
    BY <1>4, <1>10, <1>11 DEF Frame
  <1>13. frames' = [frames EXCEPT ![Len(frames)] = e]
    BY <1>1 DEF SetTop, moved, k, due
  <1> HIDE DEF e
  <1>14. frames' # <<>> /\ Top' = e
    BY <1>2, <1>3, <1>12, <1>13, SetTopEffect DEF Top
  <1>15. FrozenWork(moved) \in Nat
    BY <1>10, LimitsAssumption
  <1> QED
    BY <1>9, <1>10, <1>12, <1>14, <1>15

\* The frame that a nested pump returns to runs user code of the permitted kind.
LEMMA ReturnsToNested ==
  ASSUME TypeOK, OnlyTopWaits, frames # <<>>, PopTop, frames' # <<>>
  PROVE  Top'.pc \in NestedFrom
  <1>1. /\ frames' \in Seq(Frame)
        /\ Len(frames') = Len(frames) - 1
        /\ Len(frames) \in Nat \ {0}
        /\ \A i \in 1 .. Len(frames) - 1 : frames'[i] = frames[i]
    BY PopEffect DEF TypeOK, PopTop
  <1>2. Len(frames') \in Nat \ {0}
    BY <1>1, EmptySeq
  <1>3. Len(frames) - 1 \in 1 .. Len(frames) - 1
    BY <1>1, <1>2
  <1>4. Top' = frames[Len(frames) - 1]
    BY <1>1, <1>3 DEF Top
  <1> QED
    BY <1>3, <1>4 DEF OnlyTopWaits

\* Every step keeps the snapshot and starts only what is in it.
LEMMA SnapshotStep ==
  ASSUME TypeOK, QueueBounded, OnlyTopWaits, ClosedIsEmpty, QueueIsUnstartedSuffix, Snapshot,
         NestedFrom \subseteq {"dispatch"}, [Next]_vars
  PROVE  /\ Snapshot'
         /\ started' # started => Top.frozen = 0 \/ started' < Top.frozen
  <1> DEFINE Kept == Snapshot' /\ (started' # started => Top.frozen = 0 \/ started' < Top.frozen)
  <1>a. ASSUME UNCHANGED <<frames, started>>
        PROVE  Kept
    BY <1>a DEF Snapshot, Top
  <1>b. ASSUME frames # <<>>, NEW e \in Frame, frames' = [frames EXCEPT ![Len(frames)] = e],
               UNCHANGED started,
               e.pc \in {"pop", "run"} =>
                  Top.pc \in {"pop", "run"} /\ e.frozen = Top.frozen /\ e.left = Top.left
        PROVE  Kept
    <2>1. Top' = e
      BY <1>b, SetTopEffect DEF TypeOK, Top
    <2> QED
      BY <1>b, <2>1 DEF Snapshot
  <1>c. ASSUME frames # <<>>, PopTop, UNCHANGED started
        PROVE  Kept
    <2>1. frames' # <<>> => Top'.pc = "dispatch"
      BY <1>c, ReturnsToNested
    <2> QED
      BY <1>c, <2>1 DEF Snapshot
  <1>1. ASSUME NEW t \in Threads, ThreadStep(t)
        PROVE  Kept
    BY <1>a, <1>1
       DEF ThreadStep, Post, ScheduleBegin, ScheduleCommit, Cancel, RequestWake, SignalBackend
  <1>2. CASE Shutdown \/ DispatchWake \/ Tick \/ UNCHANGED vars
    BY <1>a, <1>2 DEF Shutdown, DispatchWake, Tick, vars
  <1>3. CASE PumpBegin
    <2> DEFINE e == [pc |-> "wait", deadline |-> NextDeadline(d, now), now |-> now,
                     left |-> 0, frozen |-> d.next_task_sequence]
    <2>1. e \in Frame
      <3>1. NextDeadline(d, now) \in 0 .. NoDeadline
        BY NextDeadlineBounds DEF TypeOK
      <3>2. d.next_task_sequence \in Ids /\ now \in Time
        BY DEF DispatcherStates, TypeOK
      <3> QED
        BY <3>1, <3>2, LimitsAssumption DEF Frame
    <2>2. e.pc = "wait"
      OBVIOUS
    <2> HIDE DEF e
    <2>3. frames' = Append(frames, e) /\ UNCHANGED started
      BY <1>3 DEF PumpBegin, Push, e
    <2>4. Top' = e
      BY <2>1, <2>3, PushEffect DEF TypeOK, Top
    <2> QED
      BY <2>2, <2>3, <2>4 DEF Snapshot
  <1>4. CASE WaitWoken \/ WaitTimedOut \/ WaitInterrupted
    <2>1. /\ frames # <<>> /\ UNCHANGED started
          /\ frames' = [frames EXCEPT ![Len(frames)] = [Top EXCEPT !.pc = "dispatch"]]
      BY <1>4 DEF WaitWoken, WaitTimedOut, WaitInterrupted, At, LeaveWait, SetTop
    <2> DEFINE e == [Top EXCEPT !.pc = "dispatch"]
    <2>2. e \in Frame /\ e.pc = "dispatch"
      BY <2>1, TopType DEF Frame
    <2> HIDE DEF e
    <2> QED
      BY <1>b, <2>1, <2>2 DEF e
  <1>5. CASE CheckpointBegin
    <2> DEFINE e == [Top EXCEPT !.pc = "enter", !.now = now]
    <2>1. frames # <<>> /\ UNCHANGED started /\ frames' = [frames EXCEPT ![Len(frames)] = e]
      BY <1>5 DEF CheckpointBegin, At, SetTop
    <2>2. e \in Frame /\ e.pc = "enter"
      BY <2>1, TopType DEF Frame, TypeOK
    <2> HIDE DEF e
    <2> QED
      BY <1>b, <2>1, <2>2
  <1>6. CASE CheckpointClosed \/ CheckpointRecover \/ CheckpointUnwind \/ CheckpointFinish
    <2>1. frames # <<>> /\ PopTop /\ UNCHANGED started
      BY <1>6 DEF CheckpointClosed, CheckpointRecover, CheckpointUnwind, CheckpointFinish, At
    <2> QED
      BY <1>c, <2>1
  <1>7. CASE CheckpointTransfer
    <2>1. /\ frames' # <<>> /\ Top'.frozen = d'.next_task_sequence
          /\ Top'.left \in Nat /\ Top'.left <= Len(d'.tasks)
      BY <1>7, CheckpointFreezes
    <2>2. UNCHANGED started /\ ~d'.closing /\ d' \in DispatcherStates
      BY <1>7, CheckpointTransferEffect DEF CheckpointTransfer
    <2>3. QueueIsUnstartedSuffix'
      BY SuffixStep
    <2>4. LastAccepted' = started + Len(d'.tasks)
      BY <2>2, <2>3 DEF QueueIsUnstartedSuffix
    <2>5. d'.next_task_sequence # 0 => LastAccepted' = d'.next_task_sequence - 1
      BY DEF LastAccepted
    <2>6. d'.next_task_sequence \in Nat /\ Len(d'.tasks) \in Nat /\ started \in Nat
      BY <2>2, LimitsAssumption DEF DispatcherStates, Ids, TypeOK
    <2>7. Top'.frozen = 0 \/ started + Top'.left < Top'.frozen
      BY <2>1, <2>4, <2>5, <2>6
    <2> QED
      BY <2>2, <2>7 DEF Snapshot
  <1>8. CASE CheckpointFails
    <2> DEFINE e == [Top EXCEPT !.pc = "recover"]
    <2>1. frames # <<>> /\ UNCHANGED started /\ frames' = [frames EXCEPT ![Len(frames)] = e]
      BY <1>8 DEF CheckpointFails, At, SetTop
    <2>2. e \in Frame /\ e.pc = "recover"
      BY <2>1, TopType DEF Frame
    <2> HIDE DEF e
    <2> QED
      BY <1>b, <2>1, <2>2
  <1>9. CASE StartTask
    <2> DEFINE e == [Top EXCEPT !.pc = "run", !.left = @ - 1]
    <2>1. /\ frames # <<>> /\ Top.pc = "pop" /\ Top.left > 0
          /\ frames' = [frames EXCEPT ![Len(frames)] = e]
      BY <1>9 DEF StartTask, At, SetTop
    <2>2. Top \in Frame /\ Top.left \in Nat /\ Top.frozen \in Nat
      BY <2>1, TopType, LimitsAssumption DEF Frame, Ids
    <2>3. Top.left - 1 \in 0 .. MaxTasksPerCheckpoint
      BY <2>1, <2>2, LimitsAssumption DEF Frame
    <2>4. e \in Frame /\ e.pc = "run" /\ e.left = Top.left - 1 /\ e.frozen = Top.frozen
      BY <2>2, <2>3 DEF Frame
    <2> HIDE DEF e
    <2>5. Top' = e
      BY <2>1, <2>4, SetTopEffect DEF TypeOK, Top
    <2>6. started' = started + 1
      BY <1>9, StartKeepsSuffix
    <2>7. Top.frozen = 0 \/ started + Top.left < Top.frozen
      BY <2>1 DEF Snapshot
    <2>8. started \in Nat
      BY LimitsAssumption DEF TypeOK, Ids
    <2>9. e.frozen = 0 \/ started' + e.left < e.frozen
      BY <2>2, <2>4, <2>6, <2>7, <2>8
    <2>10. Top.frozen = 0 \/ started' < Top.frozen
      BY <2>1, <2>2, <2>6, <2>7, <2>8
    <2> QED
      BY <2>5, <2>9, <2>10 DEF Snapshot
  <1>10. CASE TasksDone \/ CallbackEnds
    <2>1. PICK pc \in {"finish", "pop", "unwind"} :
            /\ frames # <<>> /\ UNCHANGED started
            /\ frames' = [frames EXCEPT ![Len(frames)] = [Top EXCEPT !.pc = pc]]
            /\ pc = "pop" => Top.pc = "run"
      BY <1>10 DEF TasksDone, CallbackEnds, At, SetTop
    <2> DEFINE e == [Top EXCEPT !.pc = pc]
    <2>2. e \in Frame /\ e.pc = pc /\ e.left = Top.left /\ e.frozen = Top.frozen
      BY <2>1, TopType DEF Frame
    <2> HIDE DEF e
    <2> QED
      BY <1>b, <2>1, <2>2 DEF e
  <1>11. CASE PumpStep
    BY <1>2, <1>3, <1>4, <1>5, <1>6, <1>7, <1>8, <1>9, <1>10, <1>11 DEF PumpStep
  <1>12. CASE \E t \in Threads : ThreadStep(t)
    BY <1>1, <1>12
  <1> QED
    BY <1>2, <1>11, <1>12 DEF Next

\* A checkpoint starts only work that was accepted before it froze its snapshot,
\* so that callbacks that post cannot keep it running; callbacks themselves do not
\* pump again (a nested checkpoint takes tasks out of the outer one's snapshot).
THEOREM SnapshotsStayFixed ==
  ASSUME NestedFrom \subseteq {"dispatch"}
  PROVE  Spec => FixedSnapshot
  <1>1. Init => /\ TypeOK /\ QueueBounded /\ WakeInv /\ QueueIsUnstartedSuffix
                /\ Snapshot
    BY TypeInit, WakeInit, SuffixInit DEF Init, Snapshot
  <1>2. /\ TypeOK /\ QueueBounded /\ WakeInv /\ QueueIsUnstartedSuffix /\ Snapshot /\ [Next]_vars
        => /\ TypeOK' /\ QueueBounded' /\ WakeInv' /\ QueueIsUnstartedSuffix' /\ Snapshot'
           /\ [started' # started => Top.frozen = 0 \/ started' < Top.frozen]_vars
    BY TypeStep, QueueBoundedStep, WakeStep, SuffixStep, SnapshotStep DEF WakeInv
  <1> QED
    BY <1>1, <1>2, PTL DEF Spec, FixedSnapshot

-----------------------------------------------------------------------------
(***************************************************************************)
(* The timers.  FinalFiringIsFinal needs to know what the ids are: no two   *)
(* active timers share one, and no timer to come can have the id of a       *)
(* firing that is still queued, because the counter is past it.             *)
(***************************************************************************)

\* The id was handed out before; 0 stands for a plain post.
Used(q, id) == q.next_timer_id = 0 \/ id < q.next_timer_id

IdsAreUnique(q) ==
    /\ \A t, u \in q.timers : t.id = u.id => t = u
    /\ \A t \in q.timers : Used(q, t.id)
    /\ \A i \in 1 .. Len(q.tasks) : Used(q, q.tasks[i].timer)

FinalsAreFinal(q) ==
    \A i \in 1 .. Len(q.tasks) :
        q.tasks[i].timer # 0 /\ ~q.tasks[i].repeating =>
            /\ \A timer \in q.timers : timer.id # q.tasks[i].timer
            /\ \A j \in i + 1 .. Len(q.tasks) : q.tasks[j].timer # q.tasks[i].timer

TimersBounded(q) == IsFiniteSet(q.timers) /\ Cardinality(q.timers) <= MaxActiveTimers

Timely(q) == IdsAreUnique(q) /\ FinalsAreFinal(q) /\ TimersBounded(q)

\* Only the queue, the timers and the timer counter matter.
LEMMA TimelyFrame ==
  ASSUME NEW q, NEW p, Timely(q),
         p.tasks = q.tasks, p.timers = q.timers, p.next_timer_id = q.next_timer_id
  PROVE  Timely(p)
  BY DEF Timely, IdsAreUnique, FinalsAreFinal, TimersBounded, Used

\* A post is a task of no timer.
LEMMA PostKeepsTimely ==
  ASSUME NEW q \in DispatcherStates, CanEnqueue(q), Timely(q)
  PROVE  Timely(PostLocked(q))
  <1> DEFINE p == PostLocked(q)
             n == Len(q.tasks)
             task == [sequence |-> q.next_task_sequence, timer |-> 0, repeating |-> FALSE]
  <1>1. p.timers = q.timers /\ p.tasks = Append(q.tasks, task)
    BY PostLockedEffect
  <1>2. p.next_timer_id = q.next_timer_id
    BY DEF PostLocked, Enqueue, ArmWake, DispatcherStates
  <1>3. q.tasks \in Seq(Task) /\ task \in Task /\ n \in Nat /\ q.next_timer_id \in Ids
    BY LimitsAssumption DEF DispatcherStates, Task, Ids
  <1>4. task.timer = 0
    OBVIOUS
  <1> HIDE DEF p, task
  <1>5. /\ Len(p.tasks) = n + 1
        /\ \A i \in 1 .. n : p.tasks[i] = q.tasks[i]
        /\ p.tasks[n + 1] = task
    BY <1>1, <1>3, AppendProperties
  <1> HIDE DEF n
  <1>6. IdsAreUnique(p)
    <2>1. Used(p, 0)
      BY <1>2, <1>3, LimitsAssumption DEF Used, Ids
    <2>2. \A i \in 1 .. n + 1 : i \in 1 .. n \/ i = n + 1
      BY <1>3
    <2>3. \A i \in 1 .. Len(p.tasks) : Used(p, p.tasks[i].timer)
      BY <1>2, <1>4, <1>5, <2>1, <2>2 DEF Timely, IdsAreUnique, Used, n
    <2> QED
      BY <1>1, <1>2, <2>3 DEF Timely, IdsAreUnique, Used
  <1>7. FinalsAreFinal(p)
    <2> SUFFICES ASSUME NEW i \in 1 .. n + 1,
                        p.tasks[i].timer # 0, ~p.tasks[i].repeating
                 PROVE  /\ \A timer \in p.timers : timer.id # p.tasks[i].timer
                        /\ \A j \in i + 1 .. n + 1 : p.tasks[j].timer # p.tasks[i].timer
      BY <1>5 DEF FinalsAreFinal
    <2>1. i \in 1 .. n
      BY <1>3, <1>4, <1>5
    <2>2. /\ \A timer \in q.timers : timer.id # q.tasks[i].timer
          /\ \A j \in i + 1 .. n : q.tasks[j].timer # q.tasks[i].timer
      BY <1>5, <2>1 DEF Timely, FinalsAreFinal, n
    <2>3. ASSUME NEW j \in i + 1 .. n + 1
          PROVE  p.tasks[j].timer # p.tasks[i].timer
      <3>1. j \in i + 1 .. n \/ j = n + 1
        BY <1>3, <2>1
      <3>2. j \in i + 1 .. n => j \in 1 .. n
        BY <1>3, <2>1
      <3> QED
        BY <1>4, <1>5, <2>1, <2>2, <3>1, <3>2
    <2> QED
      BY <1>1, <1>5, <2>1, <2>2, <2>3
  <1> QED
    BY <1>1, <1>6, <1>7 DEF Timely, TimersBounded, p

\* A new timer has an id nothing was given before.
LEMMA ScheduleKeepsTimely ==
  ASSUME NEW q \in DispatcherStates, CanSchedule(q), Timely(q),
         NEW time \in Time, NEW delay \in Time, NEW repeating \in BOOLEAN
  PROVE  Timely(ScheduleLocked(q, time, delay, repeating))
  <1> DEFINE p == ScheduleLocked(q, time, delay, repeating)
             timer == [id |-> q.next_timer_id, due |-> time + delay,
                       interval |-> IF repeating THEN delay ELSE 0,
                       repeating |-> repeating]
  <1>1. /\ p.tasks = q.tasks /\ p.timers = q.timers \cup {timer}
        /\ p.next_timer_id = Advance(q.next_timer_id, 1)
    BY DEF ScheduleLocked, DispatcherStates
  <1>2. timer.id = q.next_timer_id /\ q.next_timer_id # 0
    BY DEF CanSchedule
  <1>3. /\ q.next_timer_id \in Nat /\ \A t \in q.timers : t.id \in Nat
        /\ \A i \in 1 .. Len(q.tasks) : q.tasks[i].timer \in Nat
        /\ Len(q.tasks) \in Nat
    <2>1. /\ q.tasks \in Seq(Task) /\ q.timers \subseteq Timer /\ q.next_timer_id \in Ids
          /\ Ids \subseteq Nat
      BY LimitsAssumption DEF DispatcherStates, Ids
    <2>2. \A t \in q.timers : t.id \in Nat
      BY <2>1 DEF Timer
    <2>3. ASSUME NEW i \in 1 .. Len(q.tasks)
          PROVE  q.tasks[i].timer \in Nat
      <3>1. q.tasks[i] \in Task
        BY <2>1, ElementOfSeq
      <3> QED
        BY <2>1, <3>1 DEF Task
    <2>4. Len(q.tasks) \in Nat
      BY <2>1, LenProperties
    <2>5. q.next_timer_id \in Nat
      BY <2>1
    <2> QED
      BY <2>2, <2>3, <2>4, <2>5
  <1> HIDE DEF p, timer
  <1>4. \A t \in q.timers : t.id < q.next_timer_id
    BY <1>2 DEF Timely, IdsAreUnique, Used
  <1>5. \A i \in 1 .. Len(q.tasks) : q.tasks[i].timer < q.next_timer_id
    BY <1>2 DEF Timely, IdsAreUnique, Used
  <1>6. \A id \in Nat : id <= q.next_timer_id => Used(p, id)
    BY <1>1, <1>3, LimitsAssumption DEF Used, Advance
  <1>7. IdsAreUnique(p)
    <2>1. \A t, u \in p.timers : t.id = u.id => t = u
      BY <1>1, <1>2, <1>3, <1>4 DEF Timely, IdsAreUnique
    <2>2. \A t \in p.timers : Used(p, t.id)
      BY <1>1, <1>2, <1>3, <1>4, <1>6
    <2>3. \A i \in 1 .. Len(p.tasks) : Used(p, p.tasks[i].timer)
      BY <1>1, <1>3, <1>5, <1>6
    <2> QED
      BY <2>1, <2>2, <2>3 DEF IdsAreUnique
  <1>8. FinalsAreFinal(p)
    <2>1. \A i \in 1 .. Len(q.tasks) : timer.id # q.tasks[i].timer
      BY <1>2, <1>3, <1>5
    <2> QED
      BY <1>1, <2>1 DEF Timely, FinalsAreFinal
  <1>9. TimersBounded(p)
    <2>1. IsFiniteSet(q.timers) /\ Cardinality(q.timers) < MaxActiveTimers
      BY DEF Timely, TimersBounded, CanSchedule
    <2>2. /\ IsFiniteSet(q.timers \cup {timer})
          /\ \/ Cardinality(q.timers \cup {timer}) = Cardinality(q.timers)
             \/ Cardinality(q.timers \cup {timer}) = Cardinality(q.timers) + 1
      BY <2>1, FS_AddElement
    <2>3. Cardinality(q.timers) \in Nat /\ MaxActiveTimers \in Nat
      BY <2>1, FS_CardinalityType, LimitsAssumption
    <2> QED
      BY <1>1, <2>1, <2>2, <2>3 DEF TimersBounded
  <1> QED
    BY <1>7, <1>8, <1>9 DEF Timely, p

\* Cancelling removes a timer, starting a task its entry, closing both.
LEMMA RemovalKeepsTimely ==
  ASSUME NEW q \in DispatcherStates, Timely(q)
  PROVE  /\ \A timer \in q.timers : Timely(CancelLocked(q, timer))
         /\ q.tasks # <<>> => Timely(PopFront(q))
         /\ Timely(ShutdownLocked(q))
  <1>1. ASSUME NEW timer \in q.timers
        PROVE  Timely(CancelLocked(q, timer))
    <2> DEFINE p == CancelLocked(q, timer)
    <2>1. /\ p.tasks = q.tasks /\ p.timers = q.timers \ {timer}
          /\ p.next_timer_id = q.next_timer_id
      BY DEF CancelLocked, DispatcherStates
    <2> HIDE DEF p
    <2>2. IdsAreUnique(p)
      BY <2>1 DEF Timely, IdsAreUnique, Used
    <2>3. FinalsAreFinal(p)
      BY <2>1 DEF Timely, FinalsAreFinal
    <2>4. TimersBounded(p)
      <3>1. IsFiniteSet(q.timers) /\ Cardinality(q.timers) <= MaxActiveTimers
        BY DEF Timely, TimersBounded
      <3>2. /\ IsFiniteSet(q.timers \ {timer})
            /\ Cardinality(q.timers \ {timer}) <= Cardinality(q.timers)
        BY <3>1, FS_Subset
      <3>3. /\ Cardinality(q.timers) \in Nat /\ Cardinality(q.timers \ {timer}) \in Nat
            /\ MaxActiveTimers \in Nat
        BY <3>1, <3>2, FS_CardinalityType, LimitsAssumption
      <3> QED
        BY <2>1, <3>1, <3>2, <3>3 DEF TimersBounded
    <2> QED
      BY <2>2, <2>3, <2>4 DEF Timely, p
  <1>2. ASSUME q.tasks # <<>>
        PROVE  Timely(PopFront(q))
    <2> DEFINE p == PopFront(q)
               n == Len(p.tasks)
    <2>1. /\ p.timers = q.timers /\ n = Len(q.tasks) - 1
          /\ \A i \in 1 .. n : p.tasks[i] = q.tasks[i + 1]
      BY <1>2, PopFrontEffect
    <2>2. p.next_timer_id = q.next_timer_id
      BY DEF PopFront, DispatcherStates
    <2>3. Len(q.tasks) \in Nat /\ n \in Int
      BY <2>1 DEF DispatcherStates
    <2> HIDE DEF p
    <2>4. IdsAreUnique(p)
      <3>1. \A i \in 1 .. n : i + 1 \in 1 .. Len(q.tasks)
        BY <2>1, <2>3
      <3>2. \A i \in 1 .. n : Used(p, p.tasks[i].timer)
        BY <2>1, <2>2, <3>1 DEF Timely, IdsAreUnique, Used
      <3> QED
        BY <2>1, <2>2, <3>2 DEF Timely, IdsAreUnique, Used
    <2>5. FinalsAreFinal(p)
      <3> SUFFICES ASSUME NEW i \in 1 .. n, p.tasks[i].timer # 0, ~p.tasks[i].repeating
                   PROVE  /\ \A timer \in p.timers : timer.id # p.tasks[i].timer
                          /\ \A j \in i + 1 .. n : p.tasks[j].timer # p.tasks[i].timer
        BY DEF FinalsAreFinal
      <3>1. i + 1 \in 1 .. Len(q.tasks)
        BY <2>1, <2>3
      <3>2. /\ \A timer \in q.timers : timer.id # q.tasks[i + 1].timer
            /\ \A j \in (i + 1) + 1 .. Len(q.tasks) : q.tasks[j].timer # q.tasks[i + 1].timer
        BY <2>1, <3>1 DEF Timely, FinalsAreFinal
      <3>3. ASSUME NEW j \in i + 1 .. n
            PROVE  j \in 1 .. n /\ j + 1 \in (i + 1) + 1 .. Len(q.tasks)
        BY <2>1, <2>3
      <3> QED
        BY <2>1, <3>2, <3>3
    <2> QED
      BY <2>1, <2>4, <2>5 DEF Timely, TimersBounded, p
  <1>3. Timely(ShutdownLocked(q))
    <2>1. ShutdownLocked(q).tasks = <<>> /\ ShutdownLocked(q).timers = {}
      BY ShutdownLockedEffect
    <2>2. IsFiniteSet({}) /\ Cardinality({}) = 0
      BY FS_EmptySet
    <2>3. MaxActiveTimers \in Nat
      BY LimitsAssumption
    <2> QED
      BY <2>1, <2>2, <2>3 DEF Timely, IdsAreUnique, FinalsAreFinal, TimersBounded
  <1> QED
    BY <1>1, <1>2, <1>3

\* A batch of firings: every timer that moved is either gone, and then no other
\* firing carries its id, or it is back with its id and its next due time.
LEMMA TransferKeepsTimely ==
  ASSUME NEW q \in DispatcherStates, Timely(q),
         NEW time \in Time, NEW k \in Nat, k <= SequencesLeft(q),
         NEW f \in FiringOrders(DueTimers(q, time), k)
  PROVE  Timely(Transfer(q, time, f, k))
  <1> DEFINE p       == Transfer(q, time, f, k)
             n       == Len(q.tasks)
             fired   == {f[i] : i \in 1 .. k}
             rearmed == {t \in fired : t.repeating /\ CanAdd(time, t.interval)}
             Moved(t) == [t EXCEPT !.due = time + t.interval]
             later   == {Moved(t) : t \in rearmed}
             firings == [i \in 1 .. k |->
                           [sequence  |-> q.next_task_sequence + i - 1,
                            timer     |-> f[i].id,
                            repeating |-> f[i] \in rearmed]]
  <1>1. /\ p.tasks = q.tasks \o firings
        /\ p.timers = (q.timers \ fired) \cup later
        /\ p.next_timer_id = q.next_timer_id
    BY DEF Transfer, DispatcherStates
  <1>2. /\ f \in [1 .. k -> q.timers] /\ q.timers \subseteq Timer
        /\ \A i, j \in 1 .. k : i < j => Before(f[i], f[j])
    BY DEF FiringOrders, DueTimers, DispatcherStates
  <1>3. IsFiniteSet(q.timers) /\ Cardinality(q.timers) <= MaxActiveTimers
    BY DEF Timely, TimersBounded
  <1>4. fired \subseteq q.timers /\ rearmed \subseteq fired
    BY <1>2
  <1>5. \A i \in 1 .. k : f[i] \in fired
    OBVIOUS
  <1>6. \A t \in q.timers : Moved(t).id = t.id
    BY <1>2 DEF Timer
  <1>7. /\ n \in Nat /\ Len(p.tasks) = n + k
        /\ \A i \in 1 .. n : p.tasks[i] = q.tasks[i]
    <2>1. q.tasks \in Seq(Task)
      BY DEF DispatcherStates
    <2>2. n \in Nat
      BY <2>1, LenProperties
    <2> HIDE DEF n, p
    <2>3. /\ Len(p.tasks) = Len(q.tasks) + k
          /\ \A i \in 1 .. Len(q.tasks) : p.tasks[i] = q.tasks[i]
      BY <1>3, TransferEffect DEF p
    <2> QED
      BY <2>2, <2>3 DEF n
  <1>8. \A i \in 1 .. k : /\ p.tasks[n + i].timer = f[i].id
                          /\ p.tasks[n + i].repeating = (f[i] \in rearmed)
    <2>1. firings \in Seq(Task) /\ Len(firings) = k /\ q.tasks \in Seq(Task)
      <3>1. \A i \in 1 .. k : firings[i] \in Task
        <4> SUFFICES ASSUME NEW i \in 1 .. k
                     PROVE  [sequence  |-> q.next_task_sequence + i - 1,
                             timer     |-> f[i].id,
                             repeating |-> f[i] \in rearmed] \in Task
          OBVIOUS
        <4>1. f[i].id \in Ids
          BY <1>2 DEF Timer
        <4>2. q.next_task_sequence + i - 1 \in Ids
          BY LimitsAssumption DEF SequencesLeft, DispatcherStates, Ids
        <4>3. (f[i] \in rearmed) \in BOOLEAN
          OBVIOUS
        <4> HIDE DEF rearmed
        <4> QED
          BY <4>1, <4>2, <4>3 DEF Task
      <3>2. firings \in [1 .. k -> Task]
        BY <3>1
      <3>3. firings \in Seq(Task)
        BY <3>2, SeqDef
      <3>4. DOMAIN firings = 1 .. k
        OBVIOUS
      <3>5. q.tasks \in Seq(Task)
        BY DEF DispatcherStates
      <3> HIDE DEF firings
      <3> QED
        BY <3>3, <3>4, <3>5, LenProperties
    <2>2. \A i \in 1 .. k : /\ firings[i].timer = f[i].id
                            /\ firings[i].repeating = (f[i] \in rearmed)
      <3> HIDE DEF rearmed
      <3> QED
        OBVIOUS
    <2> HIDE DEF firings, n, p
    <2>3. \A i \in 1 .. n + k : p.tasks[i] = IF i <= n THEN q.tasks[i] ELSE firings[i - n]
      BY <1>1, <2>1, ConcatProperties DEF n
    <2>4. \A i \in 1 .. k : /\ n + i \in 1 .. n + k
                            /\ ~(n + i <= n) /\ n + i - n = i
      BY <1>7
    <2>5. \A i \in 1 .. k : p.tasks[n + i] = firings[i]
      <3> SUFFICES ASSUME NEW i \in 1 .. k
                   PROVE  p.tasks[n + i] = firings[i]
        OBVIOUS
      <3>1. n + i \in 1 .. n + k /\ ~(n + i <= n) /\ n + i - n = i
        BY <2>4
      <3>2. p.tasks[n + i] = firings[n + i - n]
        BY <1>7, <2>3, <3>1
      <3> QED
        BY <3>1, <3>2
    <2> QED
      BY <2>2, <2>5
  <1>9. ASSUME NEW i \in 1 .. n + k, i \notin 1 .. n
        PROVE  i - n \in 1 .. k /\ i = n + (i - n)
    BY <1>7, <1>9
  <1>10. \A i, j \in 1 .. k : i # j => f[i].id # f[j].id
    <2>1. \A i, j \in 1 .. k : i < j => f[i] # f[j]
      <3> SUFFICES ASSUME NEW i \in 1 .. k, NEW j \in 1 .. k, i < j, f[i] = f[j]
                   PROVE  FALSE
        OBVIOUS
      <3>1. Before(f[i], f[i])
        BY <1>2
      <3>2. f[i].due \in Int /\ f[i].id \in Int
        BY <1>2, LimitsAssumption DEF Timer, Time, Ids
      <3> QED
        BY <3>1, <3>2 DEF Before
    <2>2. \A i, j \in 1 .. k : i < j => f[i].id # f[j].id
      BY <1>2, <2>1 DEF Timely, IdsAreUnique
    <2>3. \A i, j \in 1 .. k : i # j => i < j \/ j < i
      OBVIOUS
    <2> QED
      BY <2>2, <2>3
  <1> HIDE DEF p, n, later, firings
  <1>11. \A t \in p.timers : \/ t \in q.timers /\ t \notin fired
                            \/ \E u \in rearmed : t = Moved(u) /\ u \in q.timers
    BY <1>1, <1>4 DEF later
  <1> HIDE DEF fired, rearmed, Moved
  <1>12. \A t \in p.timers : \E u \in q.timers :
           t.id = u.id /\ ((u \notin fired /\ t = u) \/ (u \in rearmed /\ t = Moved(u)))
    <2> SUFFICES ASSUME NEW t \in p.timers
                 PROVE  \E u \in q.timers :
                          t.id = u.id /\ ((u \notin fired /\ t = u) \/ (u \in rearmed /\ t = Moved(u)))
      OBVIOUS
    <2>1. CASE t \in q.timers /\ t \notin fired
      BY <2>1
    <2>2. CASE \E u \in rearmed : t = Moved(u) /\ u \in q.timers
      <3>1. PICK u \in rearmed : t = Moved(u) /\ u \in q.timers
        BY <2>2
      <3>2. t.id = u.id
        BY <1>6, <3>1
      <3> QED
        BY <3>1, <3>2
    <2> QED
      BY <1>11, <2>1, <2>2
  <1>13. IdsAreUnique(p)
    <2>1. \A t, u \in p.timers : t.id = u.id => t = u
      BY <1>4, <1>12 DEF Timely, IdsAreUnique
    <2>2. \A t \in p.timers : Used(p, t.id)
      BY <1>1, <1>12 DEF Timely, IdsAreUnique, Used
    <2>3. ASSUME NEW i \in 1 .. n + k
          PROVE  Used(p, p.tasks[i].timer)
      <3>1. CASE i \in 1 .. n
        BY <1>1, <1>7, <3>1 DEF Timely, IdsAreUnique, Used, n
      <3>2. CASE i \notin 1 .. n
        <4>1. PICK j \in 1 .. k : p.tasks[i].timer = f[j].id
          BY <1>8, <1>9, <3>2
        <4> QED
          BY <1>1, <1>2, <4>1 DEF Timely, IdsAreUnique, Used
      <3> QED
        BY <3>1, <3>2
    <2> QED
      BY <1>7, <2>1, <2>2, <2>3 DEF IdsAreUnique
  <1>14. FinalsAreFinal(p)
    <2> SUFFICES ASSUME NEW i \in 1 .. n + k,
                        p.tasks[i].timer # 0, ~p.tasks[i].repeating
                 PROVE  /\ \A timer \in p.timers : timer.id # p.tasks[i].timer
                        /\ \A j \in i + 1 .. n + k : p.tasks[j].timer # p.tasks[i].timer
      BY <1>7 DEF FinalsAreFinal
    <2>a. \A j \in i + 1 .. n + k : j \in 1 .. n + k /\ j > i
      BY <1>7
    <2>1. CASE i \in 1 .. n
      <3>1. /\ \A timer \in q.timers : timer.id # p.tasks[i].timer
            /\ \A j \in i + 1 .. n : q.tasks[j].timer # p.tasks[i].timer
        BY <1>7, <2>1 DEF Timely, FinalsAreFinal, n
      <3>2. \A timer \in p.timers : timer.id # p.tasks[i].timer
        BY <1>12, <3>1
      <3>3. ASSUME NEW j \in i + 1 .. n + k
            PROVE  p.tasks[j].timer # p.tasks[i].timer
        <4>1. CASE j \in 1 .. n
          <5>1. j \in i + 1 .. n
            BY <1>7, <2>1, <4>1
          <5> QED
            BY <1>7, <3>1, <4>1, <5>1
        <4>2. CASE j \notin 1 .. n
          <5>1. PICK m \in 1 .. k : p.tasks[j].timer = f[m].id
            BY <1>8, <1>9, <2>a, <4>2
          <5> QED
            BY <1>2, <3>1, <5>1
        <4> QED
          BY <4>1, <4>2
      <3> QED
        BY <3>2, <3>3
    <2>2. CASE i \notin 1 .. n
      <3>1. i - n \in 1 .. k /\ i = n + (i - n)
        BY <1>9, <2>2
      <3>2. PICK m \in 1 .. k : i = n + m
        BY <3>1
      <3>3. p.tasks[i].timer = f[m].id /\ f[m] \notin rearmed
        BY <1>8, <3>2
      <3>4. f[m] \in q.timers /\ f[m] \in fired
        BY <1>2, <1>5
      <3>5. ASSUME NEW timer \in p.timers
            PROVE  timer.id # f[m].id
        <4>1. PICK u \in q.timers : /\ timer.id = u.id
                                    /\ u \notin fired \/ u \in rearmed
          BY <1>12
        <4> QED
          BY <3>3, <3>4, <4>1 DEF Timely, IdsAreUnique
      <3>6. ASSUME NEW j \in i + 1 .. n + k
            PROVE  p.tasks[j].timer # f[m].id
        <4>1. j \in 1 .. n + k /\ j \notin 1 .. n /\ j # n + m
          BY <1>7, <2>a, <3>2
        <4>2. j - n \in 1 .. k /\ j = n + (j - n)
          BY <1>9, <4>1
        <4>3. PICK l \in 1 .. k : j = n + l
          BY <4>2
        <4>4. l # m
          BY <4>1, <4>3
        <4> QED
          BY <1>8, <1>10, <4>3, <4>4
      <3> QED
        BY <3>3, <3>5, <3>6
    <2> QED
      BY <2>1, <2>2
  <1>15. TimersBounded(p)
    <2>1. /\ IsFiniteSet(fired) /\ IsFiniteSet(rearmed) /\ IsFiniteSet(q.timers \ fired)
          /\ Cardinality(rearmed) <= Cardinality(fired)
      BY <1>3, <1>4, FS_Subset
    <2>2. IsFiniteSet(later) /\ Cardinality(later) <= Cardinality(rearmed)
      <3>1. [t \in rearmed |-> Moved(t)] \in Surjection(rearmed, later)
        BY DEF Surjection, later
      <3> QED
        BY <2>1, <3>1, FS_Surjection
    <2>3. Cardinality(q.timers \ fired) = Cardinality(q.timers) - Cardinality(fired)
      <3>1. q.timers \cap fired = fired
        BY <1>4
      <3> QED
        BY <1>3, <3>1, FS_Difference
    <2>4. /\ IsFiniteSet(p.timers)
          /\ Cardinality(p.timers) =
                Cardinality(q.timers \ fired) + Cardinality(later)
                - Cardinality((q.timers \ fired) \cap later)
      BY <1>1, <2>1, <2>2, FS_Union
    <2>5. IsFiniteSet((q.timers \ fired) \cap later)
      BY <2>1, FS_Intersection
    <2>6. /\ Cardinality(q.timers) \in Nat /\ Cardinality(fired) \in Nat
          /\ Cardinality(rearmed) \in Nat /\ Cardinality(later) \in Nat
          /\ Cardinality(q.timers \ fired) \in Nat
          /\ Cardinality((q.timers \ fired) \cap later) \in Nat
          /\ MaxActiveTimers \in Nat
      BY <1>3, <2>1, <2>2, <2>5, FS_CardinalityType, LimitsAssumption
    <2> QED
      BY <1>3, <2>1, <2>2, <2>3, <2>4, <2>6 DEF TimersBounded
  <1> QED
    BY <1>13, <1>14, <1>15 DEF Timely, p

\* What a checkpoint leaves is what the transfer loop left, armed or not.
LEMMA CheckpointMoves ==
  ASSUME TypeOK, QueueBounded, CheckpointTransfer \/ CheckpointFails
  PROVE  \E k \in Nat : /\ k <= SequencesLeft(d)
                        /\ \E f \in FiringOrders(DueTimers(d, Top.now), k) :
                             \/ d' = Transfer(d, Top.now, f, k)
                             \/ d' = ArmWake(Transfer(d, Top.now, f, k))
  <1> DEFINE due == DueTimers(d, Top.now)
             most == TransferLimit(d, due)
  <1>1. IsFiniteSet(due)
    BY FS_Subset DEF TypeOK, DueTimers
  <1>2. most \in Nat /\ most <= SequencesLeft(d)
    BY <1>1, TransferLimitBounds DEF TypeOK, QueueBounded
  <1>3. SequencesLeft(d) \in Nat
    BY LimitsAssumption DEF TypeOK, DispatcherStates, SequencesLeft, Ids
  <1> HIDE DEF due
  <1>4. CASE CheckpointTransfer
    <2>1. PICK f \in FiringOrders(due, most) :
            \/ d' = Transfer(d, Top.now, f, most)
            \/ d' = ArmWake(Transfer(d, Top.now, f, most))
      BY <1>4 DEF CheckpointTransfer, due
    <2> HIDE DEF most
    <2> QED
      BY <1>2, <2>1 DEF due
  <1>5. CASE CheckpointFails
    <2>1. PICK k \in 0 .. most :
            \E f \in FiringOrders(due, k) : d' = Transfer(d, Top.now, f, k)
      BY <1>5 DEF CheckpointFails, due
    <2> HIDE DEF most
    <2>2. k \in Nat /\ k <= SequencesLeft(d)
      BY <1>2, <1>3
    <2> QED
      BY <2>1, <2>2 DEF due
  <1> QED
    BY <1>4, <1>5

\* No step of a thread or of the loop breaks the ledger of timers.
LEMMA TimelyStep ==
  ASSUME TypeOK, QueueBounded, Timely(d), [Next]_vars
  PROVE  Timely(d')
  <1>0. d \in DispatcherStates
    BY DEF TypeOK
  <1>1. ASSUME NEW t \in Threads, Post(t)
        PROVE  Timely(d')
    BY <1>0, <1>1, PostKeepsTimely DEF Post
  <1>2. ASSUME NEW t \in Threads, ScheduleCommit(t)
        PROVE  Timely(d')
    <2>1. CASE CanSchedule(d)
      <3>1. call[t] \in Call /\ call[t].op = "schedule"
        BY <1>2 DEF ScheduleCommit, TypeOK
      <3>2. /\ call[t].now \in Time /\ call[t].delay \in Time
            /\ call[t].repeating \in BOOLEAN
        BY <3>1 DEF Call
      <3>3. d' = ScheduleLocked(d, call[t].now, call[t].delay, call[t].repeating)
        BY <1>2, <2>1 DEF ScheduleCommit
      <3> QED
        BY <1>0, <2>1, <3>2, <3>3, ScheduleKeepsTimely
    <2>2. CASE ~CanSchedule(d)
      BY <1>2, <2>2 DEF ScheduleCommit
    <2> QED
      BY <2>1, <2>2
  <1>3. ASSUME NEW t \in Threads, Cancel(t)
        PROVE  Timely(d')
    BY <1>0, <1>3, RemovalKeepsTimely DEF Cancel
  <1>4. CASE Shutdown
    BY <1>0, <1>4, RemovalKeepsTimely DEF Shutdown
  <1>5. CASE StartTask
    BY <1>0, <1>5, RemovalKeepsTimely DEF StartTask
  <1>6. ASSUME NEW q \in DispatcherStates, Timely(q)
        PROVE  Timely(ArmWake(q))
    BY <1>6, ArmWakeEffect, TimelyFrame
  <1>7. CASE CheckpointTransfer \/ CheckpointFails
    <2>1. PICK k \in Nat : /\ k <= SequencesLeft(d)
                          /\ \E f \in FiringOrders(DueTimers(d, Top.now), k) :
                               \/ d' = Transfer(d, Top.now, f, k)
                               \/ d' = ArmWake(Transfer(d, Top.now, f, k))
      BY <1>7, CheckpointMoves
    <2>2. PICK f \in FiringOrders(DueTimers(d, Top.now), k) :
            \/ d' = Transfer(d, Top.now, f, k)
            \/ d' = ArmWake(Transfer(d, Top.now, f, k))
      BY <2>1
    <2>3. Top.now \in Time
      <3>1. frames # <<>>
        BY <1>7 DEF CheckpointTransfer, CheckpointFails, At
      <3> QED
        BY <3>1, TopType DEF Frame
    <2> DEFINE p == Transfer(d, Top.now, f, k)
    <2>4. p \in DispatcherStates
      BY <1>0, <2>1, <2>3, TransferEffect DEF TypeOK
    <2>5. Timely(p)
      BY <1>0, <2>1, <2>3, TransferKeepsTimely
    <2> HIDE DEF p
    <2>6. d' = p \/ d' = ArmWake(p)
      BY <2>2 DEF p
    <2> QED
      BY <1>6, <2>4, <2>5, <2>6
  <1>8. CASE CheckpointRecover \/ CheckpointUnwind \/ CheckpointFinish
    <2>1. d' = d \/ d' = ArmWake(d)
      BY <1>8 DEF CheckpointRecover, CheckpointUnwind, CheckpointFinish
    <2> QED
      BY <1>0, <1>6, <2>1
  <1>9. CASE UNCHANGED d
    BY <1>9
  <1>10. ASSUME NEW t \in Threads, ThreadStep(t)
         PROVE  Timely(d')
    BY <1>1, <1>2, <1>3, <1>9, <1>10 DEF ThreadStep, ScheduleBegin, RequestWake, SignalBackend
  <1>11. CASE PumpStep
    BY <1>5, <1>7, <1>8, <1>9, <1>11
       DEF PumpStep, PumpBegin, WaitWoken, WaitTimedOut, WaitInterrupted, DispatchWake,
           CheckpointBegin, CheckpointClosed, TasksDone, CallbackEnds
  <1>12. CASE Tick \/ UNCHANGED vars
    BY <1>9, <1>12 DEF Tick, vars
  <1> QED
    BY <1>4, <1>10, <1>11, <1>12 DEF Next

\* There are no timers and no tasks to begin with.
LEMMA TimelyInit == Init => Timely(d)
  <1>1. IsFiniteSet({}) /\ Cardinality({}) = 0
    BY FS_EmptySet
  <1>2. MaxActiveTimers \in Nat
    BY LimitsAssumption
  <1>3. Init => Len(d.tasks) = 0 /\ d.timers = {}
    BY DEF Init, NewDispatcherState
  <1> SUFFICES ASSUME Len(d.tasks) = 0, d.timers = {}
               PROVE  Timely(d)
    BY <1>3
  <1>4. IdsAreUnique(d) /\ FinalsAreFinal(d)
    BY DEF IdsAreUnique, FinalsAreFinal
  <1> QED
    BY <1>1, <1>2, <1>4 DEF Timely, TimersBounded

\* The last firing of a timer is never followed by another one: a checkpoint that
\* fails after some transfers does not replay them, and no later timer takes over
\* an id that is still in the queue.
THEOREM FinalFiringsAreFinal == Spec => []FinalFiringIsFinal
  <1>1. Init => TypeOK /\ QueueBounded /\ Timely(d)
    BY TypeInit, TimelyInit
  <1>2. TypeOK /\ QueueBounded /\ Timely(d) /\ [Next]_vars
        => TypeOK' /\ QueueBounded' /\ Timely(d)'
    BY TypeStep, QueueBoundedStep, TimelyStep
  <1>3. Timely(d) => FinalFiringIsFinal
    BY DEF Timely, FinalsAreFinal, FinalFiringIsFinal
  <1> QED
    BY <1>1, <1>2, <1>3, PTL DEF Spec

\* The limits hold in every state: the queue of tasks also after a batch of timer
\* firings on top of posted tasks, the timers also when they are scheduled from
\* several threads and when a batch puts the repeating ones back.
THEOREM LimitsAlwaysHold == Spec => []LimitsHold
  <1>1. Init => TypeOK /\ QueueBounded /\ Timely(d)
    BY TypeInit, TimelyInit
  <1>2. TypeOK /\ QueueBounded /\ Timely(d) /\ [Next]_vars
        => TypeOK' /\ QueueBounded' /\ Timely(d)'
    BY TypeStep, QueueBoundedStep, TimelyStep
  <1>3. QueueBounded /\ Timely(d) => LimitsHold
    BY DEF Timely, TimersBounded, LimitsHold
  <1> QED
    BY <1>1, <1>2, <1>3, PTL DEF Spec
=============================================================================
