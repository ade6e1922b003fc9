------------------------------- MODULE Toasts -------------------------------
(***************************************************************************)
(* The messages of one Toast controller (src/toast.cpp): entries with a     *)
(* timer of the Dispatcher each, one overlay that shows them, and a queue   *)
(* of actions that were pressed and not started.                            *)
(*                                                                          *)
(* Publishing an overlay, notifying the structure and closing the overlay   *)
(* end in the application's invalidation callback; this and the actions are *)
(* application code, which may call the controller, pump the Dispatcher,    *)
(* render, deactivate the UI, destroy the controller, and throw.  `stack`   *)
(* holds the controller's operations that wait for such code.               *)
(***************************************************************************)
EXTENDS Naturals, SequencesExt, FiniteSets

CONSTANTS
    Ids,          \* the entries, 1..n, in the order of their creation
    Capacity,     \* entries and actions at a time, 32 in the code
    Duration,     \* of each entry, in ticks
    MaxStack,     \* bound: operations in progress
    MaxFaults,    \* bound: exceptions, and calls that the Dispatcher refuses
    MaxFlips      \* bound: changes of hover and focus

ToastAssumption ==
    /\ Ids \subseteq Nat \ {0} /\ Capacity \in Nat \ {0} /\ Duration \in Nat
    /\ {MaxStack, MaxFaults, MaxFlips} \subseteq Nat

VARIABLES
    s,            \* the fields of Toast::Impl, its entries and their timers
    ui,           \* the UI: "active", "transition" or "inactive"
    stack,        \* operations in progress, innermost last
    faults, flips,
    started,      \* history: entries whose action was called
    expired,      \* history: entries that were retired by time
    lived         \* history: ticks each entry was there and not paused

bounds  == <<faults, flips>>
history == <<started, expired, lived>>
vars    == <<s, ui, stack, bounds, history>>

Top == stack[Len(stack)]
Calling == {"publish", "notify", "closing", "calling"}   \* application code runs
UserCode == IF stack = <<>> THEN TRUE ELSE Top.pc \in Calling
Room == UserCode /\ Len(stack) < MaxStack

Frame(op, pc, id) ==
    [op |-> op, pc |-> pc, id |-> id, candidate |-> <<>>, then |-> "drain",
     drains |-> FALSE, was |-> FALSE]

Push(f)   == stack' = Append(stack, f)
Goto(pc)  == stack' = [stack EXCEPT ![Len(stack)].pc = pc]
Pop       == stack' = Front(stack)

Init ==
    /\ s = [entries |-> <<>>, actions |-> <<>>, overlay |-> FALSE,
            phase |-> [i \in Ids |-> "unused"], timer |-> {}, late |-> {},
            epoch |-> [i \in Ids |-> 0], remaining |-> [i \in Ids |-> Duration],
            hovered |-> {}, focused |-> {},
            busy |-> FALSE, draining |-> FALSE, task_pending |-> FALSE,
            view_active |-> FALSE, shutting_down |-> FALSE,
            left |-> [i \in {} |-> 0], fired |-> {}, tasks |-> 0]
    /\ ui = "active" /\ stack = <<>>
    /\ faults = 0 /\ flips = 0
    /\ started = {} /\ expired = {} /\ lived = [i \in Ids |-> 0]

TypeOK ==
    /\ ToSet(s.entries) \cup ToSet(s.actions) \cup s.timer \cup s.late \subseteq Ids
    /\ s.phase \in [Ids -> {"unused", "preparing", "active", "retired"}]
    /\ Len(s.entries) + Len(s.actions) <= Capacity
    /\ s.tasks \in 0..2 /\ DOMAIN s.left \subseteq Ids /\ s.remaining \in [Ids -> 0..Duration]
    /\ {s.overlay, s.busy, s.draining, s.task_pending, s.view_active, s.shutting_down} \subseteq BOOLEAN
    /\ ui \in {"active", "transition", "inactive"}
-----------------------------------------------------------------------------
(* The controller's parts, as functions of its state.                       *)

Paused(c, i) == i \in c.hovered \cup c.focused
Available    == ui = "active"
AliveIn(c)   == ~c.shutting_down /\ c.view_active /\ ui # "inactive"
Entry(c, i)  == c.phase[i] = "active" /\ i \in ToSet(c.entries)

\* Mutant: a firing that is queued already stays the entry's.
CancelTimer_KeepsEpoch(c, i) ==
    [c EXCEPT !.timer = @ \ {i}, !.left = [j \in DOMAIN @ \ {i} |-> @[j]]]

CancelTimer(c, i) ==
    [c EXCEPT !.timer = @ \ {i}, !.epoch[i] = @ + 1,
              !.left = [j \in DOMAIN @ \ {i} |-> @[j]]]

CancelTimers(c, gone) ==
    [c EXCEPT !.timer = @ \ gone, !.left = [j \in DOMAIN @ \ gone |-> @[j]],
              !.epoch = [j \in Ids |-> IF j \in gone THEN @[j] + 1 ELSE @[j]]]

MayArm(c, i) == AliveIn(c) /\ c.phase[i] # "retired" /\ ~Paused(c, i)

Arm(c, i) ==
    [c EXCEPT !.epoch[i] = @ + 1, !.late = @ \ {i}, !.timer = @ \cup {i},
              !.left = [j \in DOMAIN @ \cup {i} |-> IF j = i THEN c.remaining[i] ELSE @[j]]]

\* The Dispatcher refused the timer, or threw.
ArmFails(c, i) == [c EXCEPT !.epoch[i] = @ + 1, !.late = @ \ {i}]

\* Mutant: the timers are left to run out.
Abandon_KeepsTimers(c) ==
    [c EXCEPT !.view_active = FALSE, !.entries = <<>>, !.actions = <<>>,
              !.phase = [i \in Ids |-> IF i \in ToSet(c.entries) THEN "retired" ELSE @[i]],
              !.task_pending = FALSE, !.overlay = FALSE]

Abandon(c) ==
    CancelTimers([c EXCEPT
        !.view_active = FALSE, !.entries = <<>>, !.actions = <<>>,
        !.phase = [i \in Ids |-> IF i \in ToSet(c.entries) THEN "retired" ELSE @[i]],
        !.task_pending = FALSE, !.overlay = FALSE], ToSet(c.entries))

\* One task at a time calls the actions; the Dispatcher may refuse it.
Posts(c) == c.actions # <<>> /\ ~c.task_pending /\ ~c.shutting_down

\* Mutant: a refused task is taken for one that is under way.
ScheduleActions_StaysPending(c, accepted) ==
    IF Posts(c) THEN [c EXCEPT !.task_pending = TRUE, !.tasks = IF accepted THEN @ + 1 ELSE @] ELSE c

ScheduleActions(c, accepted) ==
    IF Posts(c) /\ accepted THEN [c EXCEPT !.task_pending = TRUE, !.tasks = @ + 1] ELSE c

Accepts(c, accepted) ==
    /\ IF Posts(c) THEN accepted \/ faults < MaxFaults ELSE accepted
    /\ faults' = IF accepted THEN faults ELSE faults + 1

\* retire, up to the notification.
Retirable(c, i) == Entry(c, i) /\ ~c.busy /\ ~c.shutting_down

Retire(c, i, act) ==
    CancelTimer([c EXCEPT
        !.entries = SelectSeq(@, LAMBDA j : j # i),
        !.actions = IF act THEN Append(@, i) ELSE @,
        !.phase[i] = "retired"], i)

RetireBegins(c, i, act) ==
    IF Retirable(c, i) THEN s' = Retire(c, i, act) /\ Push(Frame("retire", "notify", i))
                       ELSE s' = c /\ UNCHANGED stack
-----------------------------------------------------------------------------
(* show.                                                                    *)

NextId == Cardinality({i \in Ids : s.phase[i] # "unused"}) + 1

\* dup is the entry with the same message, 0 if there is none.
Show(dup) ==
    /\ Room /\ NextId \in Ids
    /\ ~s.shutting_down /\ ~s.busy /\ Available
    /\ dup \in ToSet(s.entries) \cup {0}
    /\ dup = 0 => Len(s.entries) + Len(s.actions) < Capacity
    /\ LET i == NextId
           c == [s EXCEPT !.view_active = TRUE, !.phase[i] = "preparing"]
       IN  \/ /\ s' = [Arm(c, i) EXCEPT !.busy = TRUE]
              /\ Push([Frame("show", IF s.overlay THEN "commit" ELSE "publish", dup) EXCEPT
                        !.candidate = Append(SelectSeq(s.entries, LAMBDA j : j # dup), i)])
              /\ UNCHANGED faults
           \/ /\ faults < MaxFaults /\ faults' = faults + 1
              /\ s' = [ArmFails(c, i) EXCEPT !.phase[i] = "retired"]
              /\ UNCHANGED stack
    /\ UNCHANGED <<ui, flips, history>>

New(f) == Last(f.candidate)

\* The entry is given up before it was committed.
Undo(c, i) ==
    LET d == CancelTimer([c EXCEPT !.phase[i] = "retired", !.busy = FALSE], i)
    IN  IF d.entries = <<>> THEN [d EXCEPT !.overlay = FALSE] ELSE d

\* The overlay was published; it is the controller's if the UI is still there.
Published ==
    /\ stack # <<>> /\ Top.pc = "publish"
    /\ IF s.shutting_down \/ ~Available
       THEN s' = Undo(s, New(Top)) /\ Pop
       ELSE s' = [s EXCEPT !.overlay = TRUE] /\ Goto("commit")
    /\ UNCHANGED <<ui, bounds, history>>

Commit ==
    /\ stack # <<>> /\ Top.pc = "commit"
    /\ LET i == New(Top) IN
       IF s.shutting_down \/ ~Available \/ i \in s.late
       THEN s' = Undo(s, i) /\ Pop
       ELSE LET c == [s EXCEPT !.entries = Top.candidate, !.phase[i] = "active"]
            IN  /\ s' = IF Top.id = 0 THEN c
                        ELSE CancelTimer([c EXCEPT !.phase[Top.id] = "retired"], Top.id)
                /\ Goto("notify")
    /\ UNCHANGED <<ui, bounds, history>>
-----------------------------------------------------------------------------
(* What follows a notification: the empty overlay is closed, the actions    *)
(* are called, and the overlay is closed again if it is still empty.        *)

Notified ==
    /\ stack # <<>> /\ Top.pc = "notify"
    /\ IF Top.op = "show" THEN s' = [s EXCEPT !.busy = FALSE] /\ Pop
                          ELSE UNCHANGED s /\ Goto("close")
    /\ UNCHANGED <<ui, bounds, history>>

\* close_empty, or what follows it.
Next_(f, c) == IF f.then = "drain" THEN s' = c /\ Goto("drain")
               ELSE s' = [c EXCEPT !.draining = IF f.drains THEN FALSE ELSE @] /\ Pop

\* Mutant: the overlay is closed whether or not it shows something.
CloseEmpty_Always ==
    /\ stack # <<>> /\ Top.pc = "close"
    /\ IF s.overlay
       THEN /\ s' = [s EXCEPT !.busy = TRUE]
            /\ stack' = [stack EXCEPT ![Len(stack)].pc = "closing", ![Len(stack)].was = s.busy]
       ELSE Next_(Top, s)
    /\ UNCHANGED <<ui, bounds, history>>

CloseEmpty ==
    /\ stack # <<>> /\ Top.pc = "close"
    /\ IF s.entries = <<>> /\ s.actions = <<>> /\ s.overlay
       THEN /\ s' = [s EXCEPT !.busy = TRUE]
            /\ stack' = [stack EXCEPT ![Len(stack)].pc = "closing", ![Len(stack)].was = s.busy]
       ELSE Next_(Top, s)
    /\ UNCHANGED <<ui, bounds, history>>

Closed ==
    /\ stack # <<>> /\ Top.pc = "closing"
    /\ Next_(Top, [s EXCEPT !.overlay = FALSE, !.busy = Top.was])
    /\ UNCHANGED <<ui, bounds, history>>

DrainBegins(accepted) ==
    /\ stack # <<>> /\ Top.pc = "drain"
    /\ CASE s.draining \/ s.actions = <<>> -> UNCHANGED <<s, faults>> /\ Pop
         [] ~AliveIn(s) -> s' = Abandon(s) /\ Pop /\ UNCHANGED faults
         [] ~Available  -> Accepts(s, accepted) /\ s' = ScheduleActions(s, accepted) /\ Pop
         [] OTHER -> /\ s' = [s EXCEPT !.draining = TRUE] /\ UNCHANGED faults
                     /\ stack' = [stack EXCEPT ![Len(stack)].pc = "loop",
                                               ![Len(stack)].drains = TRUE,
                                               ![Len(stack)].then = "end"]
    /\ UNCHANGED <<ui, flips, history>>

\* Mutant: the action is taken off the queue after it returned.
Drain_PopsLate ==
    /\ stack # <<>> /\ Top.pc = "loop"
    /\ IF s.actions # <<>> /\ AliveIn(s)
       THEN IF Head(s.actions) = Top.id /\ Top.id \in started
            THEN s' = [s EXCEPT !.actions = Tail(@)] /\ UNCHANGED <<stack, started>>
            ELSE /\ stack' = [stack EXCEPT ![Len(stack)].pc = "calling",
                                           ![Len(stack)].id = Head(s.actions)]
                 /\ started' = started \cup {Head(s.actions)} /\ UNCHANGED s
       ELSE UNCHANGED <<s, started>> /\ Goto("close")
    /\ UNCHANGED <<ui, bounds, expired, lived>>

\* An action is terminal before it is called.
Drain ==
    /\ stack # <<>> /\ Top.pc = "loop"
    /\ IF s.actions # <<>> /\ AliveIn(s)
       THEN /\ s' = [s EXCEPT !.actions = Tail(@)]
            /\ stack' = [stack EXCEPT ![Len(stack)].pc = "calling",
                                      ![Len(stack)].id = Head(s.actions)]
            /\ started' = started \cup {Head(s.actions)}
       ELSE UNCHANGED <<s, started>> /\ Goto("close")
    /\ UNCHANGED <<ui, bounds, expired, lived>>

Called ==
    /\ stack # <<>> /\ Top.pc = "calling"
    /\ Goto("loop")
    /\ UNCHANGED <<s, ui, bounds, history>>
-----------------------------------------------------------------------------
(* The other operations.                                                    *)

\* The action's button, and dismiss.
Press(i) ==
    /\ Room /\ AliveIn(s) /\ Retirable(s, i)
    /\ RetireBegins(s, i, TRUE)
    /\ UNCHANGED <<ui, bounds, history>>

Dismiss(i) ==
    /\ Room /\ Retirable(s, i)
    /\ RetireBegins(s, i, FALSE)
    /\ UNCHANGED <<ui, bounds, history>>

\* Hover or focus of the entry's row changes.
Flip(c, i, hover) ==
    IF hover THEN [c EXCEPT !.hovered = IF i \in @ THEN @ \ {i} ELSE @ \cup {i}]
             ELSE [c EXCEPT !.focused = IF i \in @ THEN @ \ {i} ELSE @ \cup {i}]

Freeze(c, i) ==
    CancelTimer([c EXCEPT !.remaining[i] = IF i \in DOMAIN c.left THEN c.left[i] ELSE
                                           IF i \in c.timer THEN 0 ELSE @], i)

Pause(i, hover) ==
    /\ Room /\ Entry(s, i) /\ flips < MaxFlips /\ flips' = flips + 1
    /\ LET c == Flip(s, i, hover) IN
       CASE ~AliveIn(s) -> s' = Abandon(s) /\ UNCHANGED <<stack, faults>>
         [] AliveIn(s) /\ Paused(s, i) = Paused(c, i) -> s' = c /\ UNCHANGED <<stack, faults>>
         [] AliveIn(s) /\ ~Paused(s, i) /\ Paused(c, i) ->
                s' = Freeze(c, i) /\ UNCHANGED <<stack, faults>>
         [] OTHER ->
                \/ s' = Arm(c, i) /\ UNCHANGED <<stack, faults>>
                \/ /\ faults < MaxFaults /\ faults' = faults + 1
                   /\ RetireBegins(ArmFails(c, i), i, FALSE)
    /\ UNCHANGED <<ui, history>>

\* The Dispatcher turns a due timer into a task, and runs the task.
Due(i) ==
    /\ UserCode /\ i \in DOMAIN s.left /\ s.left[i] = 0
    /\ s' = [s EXCEPT !.left = [j \in DOMAIN @ \ {i} |-> @[j]],
                      !.fired = @ \cup {<<i, s.epoch[i]>>}]
    /\ UNCHANGED <<ui, stack, bounds, history>>

Fire(i, epoch) ==
    /\ Room /\ <<i, epoch>> \in s.fired
    /\ LET c == [s EXCEPT !.fired = @ \ {<<i, epoch>>}]
           t == [c EXCEPT !.timer = @ \ {i}, !.remaining[i] = 0, !.late = @ \cup {i}]
       IN  CASE epoch # s.epoch[i] \/ s.phase[i] = "retired" -> s' = c /\ UNCHANGED <<stack, expired>>
             [] epoch = s.epoch[i] /\ s.phase[i] = "preparing" -> s' = t /\ UNCHANGED <<stack, expired>>
             [] OTHER -> IF AliveIn(s)
                         THEN /\ RetireBegins(t, i, FALSE)
                              /\ expired' = IF Retirable(t, i) THEN expired \cup {i} ELSE expired
                         ELSE s' = Abandon(t) /\ UNCHANGED <<stack, expired>>
    /\ UNCHANGED <<ui, bounds, started, lived>>

RunTask ==
    /\ Room /\ s.tasks > 0
    /\ s' = [s EXCEPT !.tasks = @ - 1, !.task_pending = FALSE]
    /\ Push(Frame("task", "close", 0))
    /\ UNCHANGED <<ui, bounds, history>>

\* The retained checkpoint of the mounted stack.
Sync ==
    /\ Room /\ Available /\ s.overlay /\ ~s.busy
    /\ IF AliveIn(s)
       THEN UNCHANGED s /\ Push([Frame("sync", "each", 0) EXCEPT
                                   !.candidate = s.entries, !.then = "end"])
       ELSE s' = Abandon(s) /\ UNCHANGED stack
    /\ UNCHANGED <<ui, bounds, history>>

Rest(f) == [f EXCEPT !.candidate = Tail(@)]
Replace(f) == stack' = [stack EXCEPT ![Len(stack)] = f]

\* Mutant: an entry that was not retired when its time came is forgotten.
Each_NoRetry(accepted) ==
    /\ stack # <<>> /\ Top.pc = "each"
    /\ IF Top.candidate = <<>>
       THEN Accepts(s, accepted) /\ s' = ScheduleActions(s, accepted) /\ Goto("close") /\ UNCHANGED expired
       ELSE UNCHANGED <<s, faults, expired>> /\ Replace(Rest(Top))
    /\ UNCHANGED <<ui, flips, started, lived>>

\* An entry without a timer gets one, or is retired.
Each(accepted) ==
    /\ stack # <<>> /\ Top.pc = "each"
    /\ IF Top.candidate = <<>>
       THEN Accepts(s, accepted) /\ s' = ScheduleActions(s, accepted) /\ Goto("close") /\ UNCHANGED expired
       ELSE LET i == Head(Top.candidate) IN
            CASE s.phase[i] # "active" \/ Paused(s, i) \/ i \in s.timer ->
                    UNCHANGED <<s, faults, expired>> /\ Replace(Rest(Top))
              [] s.phase[i] = "active" /\ ~Paused(s, i) /\ i \notin s.timer ->
                    \/ /\ i \notin s.late /\ MayArm(s, i) /\ s' = Arm(s, i)
                       /\ Replace(Rest(Top)) /\ UNCHANGED <<faults, expired>>
                    \/ /\ IF i \in s.late \/ ~MayArm(s, i) THEN UNCHANGED faults
                          ELSE faults < MaxFaults /\ faults' = faults + 1
                       /\ IF Retirable(s, i)
                          THEN /\ s' = Retire(IF i \in s.late THEN s ELSE ArmFails(s, i), i, FALSE)
                               /\ stack' = Append([stack EXCEPT ![Len(stack)] = Rest(Top)],
                                                  Frame("retire", "notify", i))
                               /\ expired' = IF i \in s.late THEN expired \cup {i} ELSE expired
                          ELSE UNCHANGED <<s, expired>> /\ Replace(Rest(Top))
    /\ UNCHANGED <<ui, flips, started, lived>>
-----------------------------------------------------------------------------
(* Exceptions.                                                              *)

\* The frames that an exception out of the top one ends with it: sync calls
\* retire itself, everything else is called by application code.
Unwound ==
    IF Len(stack) > 1 /\ stack[Len(stack) - 1].pc = "each" THEN Front(Front(stack)) ELSE Front(stack)

Throws(accepted) ==
    /\ stack # <<>> /\ Top.pc \in Calling /\ faults < MaxFaults
    /\ faults' = faults + 1
    /\ s' = LET c == [s EXCEPT !.busy = IF Top.op = "show" THEN FALSE
                                        ELSE IF Top.pc = "closing" THEN Top.was ELSE @,
                               !.draining = IF Top.drains THEN FALSE ELSE @]
            IN  CASE Top.op = "show" -> IF Top.pc = "publish" THEN Undo(c, New(Top)) ELSE c
                  [] Top.op = "sync" -> c
                  [] OTHER -> ScheduleActions(c, accepted)
    /\ stack' = Unwound
    /\ UNCHANGED <<ui, flips, history>>

(* The world.                                                               *)

Deactivate ==
    /\ UserCode /\ ui = "active"
    /\ s.task_pending => s.tasks < 2   \* bound
    /\ s' = Abandon(s) /\ ui' = "inactive"
    /\ UNCHANGED <<stack, bounds, history>>

Activate ==
    /\ UserCode /\ ui = "inactive" /\ ui' = "active"
    /\ UNCHANGED <<s, stack, bounds, history>>

\* A lifecycle operation of the Tree, during which nothing can be shown.
Transition ==
    /\ stack = <<>> /\ ui # "inactive"
    /\ ui' = IF ui = "active" THEN "transition" ELSE "active"
    /\ UNCHANGED <<s, stack, bounds, history>>

\* The controller or the UI is destroyed.
Shutdown ==
    /\ UserCode /\ ~s.shutting_down
    /\ s' = [Abandon(s) EXCEPT !.shutting_down = TRUE]
    /\ UNCHANGED <<ui, stack, bounds, history>>

Tick ==
    /\ UserCode
    /\ s' = [s EXCEPT !.left = [i \in DOMAIN @ |-> IF @[i] = 0 THEN 0 ELSE @[i] - 1]]
    /\ lived' = [i \in Ids |-> IF s.phase[i] \in {"preparing", "active"} /\ ~Paused(s, i)
                                  /\ lived[i] < Duration
                               THEN lived[i] + 1 ELSE lived[i]]
    /\ s' # s \/ lived' # lived
    /\ UNCHANGED <<ui, stack, bounds, started, expired>>

Internal == Commit \/ CloseEmpty \/ Drain \/ \E accepted \in BOOLEAN : DrainBegins(accepted) \/ Each(accepted)
Returns  == Published \/ Notified \/ Closed \/ Called

Next ==
    \/ \E dup \in Ids \cup {0} : Show(dup)
    \/ \E i \in Ids : \/ Press(i) \/ Dismiss(i) \/ Due(i)
                      \/ \E hover \in BOOLEAN : Pause(i, hover)
    \/ \E f \in s.fired : Fire(f[1], f[2])
    \/ RunTask \/ Sync \/ Internal \/ Returns
    \/ \E accepted \in BOOLEAN : Throws(accepted)
    \/ Deactivate \/ Activate \/ Transition \/ Shutdown \/ Tick

\* Application code returns, time passes, the frames go on, and the Dispatcher of
\* the event loop, which is in no operation of the Tree, runs its tasks.
Fairness ==
    /\ WF_vars(Internal) /\ SF_vars(Returns)
    /\ SF_vars(ui = "transition" /\ Transition)
    /\ SF_vars(Tick) /\ SF_vars(\E i \in Ids : Due(i))
    /\ SF_vars(stack = <<>> /\ \E f \in s.fired : Fire(f[1], f[2]))
    /\ SF_vars(stack = <<>> /\ Available /\ RunTask)
    /\ SF_vars(stack = <<>> /\ Sync)

Spec == Init /\ [][Next]_vars /\ Fairness
-----------------------------------------------------------------------------
\* Only an entry that is shown, or about to be, holds a timer of the
\* Dispatcher, and none while it is paused: whatever is thrown or abandoned,
\* the controller does not use up the Dispatcher's timers.
TimersHaveEntries ==
    \A i \in DOMAIN s.left : s.phase[i] \in {"preparing", "active"} /\ ~Paused(s, i)

\* Messages that are there are shown: as long as there is an entry, the overlay
\* that shows it is open, and none of the entries is one that was retired.
EntriesAreShown ==
    /\ s.entries # <<>> => s.overlay
    /\ \A i \in ToSet(s.entries) : s.phase[i] = "active"

\* A message leaves by time only after it was there, not hovered and without
\* focus, for all of its duration, and not while it is held.
ExpiresInTime == \A i \in expired : lived[i] = Duration /\ ~Paused(s, i)

\* Nothing of an operation that is over keeps the controller busy.
RestsIdle == stack = <<>> => ~s.busy /\ ~s.draining

\* An action is called at most once, and only when its message has gone.
ActionStartsOnce ==
    [][\A i \in Ids :
          stack' # stack /\ stack' # <<>> /\ stack'[Len(stack')].pc = "calling"
            /\ stack'[Len(stack')].id = i /\ Len(stack') >= Len(stack)
          => i \notin started /\ s'.phase[i] = "retired"]_vars

\* Every message leaves, or is held by the pointer or the focus.
Counting(i) == s.phase[i] = "active" /\ ~Paused(s, i)

MessagesLeave == \A i \in Ids : Counting(i) ~> ~Counting(i)

\* Every action that was pressed is called, or abandoned with the others; the
\* overlay without messages is closed.
Pressed(i) == i \in ToSet(s.actions)
Empty      == s.overlay /\ s.entries = <<>>

ActionsAreCalled ==
    /\ \A i \in Ids : Pressed(i) ~> ~Pressed(i)
    /\ Empty ~> ~Empty
=============================================================================
