------------------------------- MODULE Animation -------------------------------
(***************************************************************************)
(* AnimationContext (src/include/nativeui/animation.hpp): a registry of      *)
(* running animations with one timer of the Dispatcher between them.         *)
(*                                                                          *)
(* The values an animation writes, its invalidation and its completion are   *)
(* callbacks of the application, called from a tick of the timer, from       *)
(* set_reduced_motion, or from a start that applies its target at once.      *)
(* They may start and cancel animations, change the motion setting, run the   *)
(* event loop, destroy the context, and throw.  The curves are left out: an   *)
(* animation is due at a tick, or not yet.                                   *)
(***************************************************************************)
EXTENDS Naturals, SequencesExt, FiniteSets

CONSTANTS
    Animations,   \* those that are started, 1..n, in their order
    Kind,         \* of each: "tween", or "spring", which may never come to rest
    Duration,     \* bound: the ticks a tween needs at most
    MaxStack,     \* bound: nested operations
    MaxFaults     \* bound: callbacks that throw, allocations and timers that fail

AnimationAssumption ==
    /\ Animations \subseteq Nat \ {0} /\ Kind \in [Animations -> {"tween", "spring"}]
    /\ Duration \in Nat \ {0} /\ MaxStack \in Nat \ {0} /\ MaxFaults \in Nat

VARIABLES
    entries,      \* State::entries
    wake,         \* State::wake is valid
    timers,       \* the Dispatcher: live timers of this context
    reduced_motion,
    closing,
    stack,        \* the operations that call back
    begun,        \* how many were started
    age,          \* the ticks each has seen
    ended,        \* history: those cancelled, or dropped by a failure
    told,         \* history: how often the completion of each was called
    faults

vars == <<entries, wake, timers, reduced_motion, closing, stack, begun, age, ended, told, faults>>

Calling == {"write", "invalidate", "complete"}
Top == Last(stack)
Frame(kind, ids) == [kind |-> kind, left |-> ids, id |-> 0, at |-> "next", done |-> FALSE]

Init ==
    /\ entries = {} /\ wake = FALSE /\ timers = 0 /\ reduced_motion = FALSE /\ closing = FALSE
    /\ stack = <<>> /\ begun = 0 /\ age = [i \in Animations |-> 0]
    /\ ended = {} /\ told = [i \in Animations |-> 0] /\ faults = 0

TypeOK ==
    /\ entries \cup ended \subseteq {i \in Animations : i <= begun}
    /\ {wake, reduced_motion, closing} \subseteq BOOLEAN
    /\ timers \in 0..2 /\ faults \in 0..MaxFaults /\ Len(stack) <= MaxStack
    /\ age \in [Animations -> 0..Duration] /\ told \in [Animations -> 0..2]
    /\ \A k \in DOMAIN stack :
          /\ stack[k].kind \in {"tick", "reduce", "apply"} /\ stack[k].at \in Calling \cup {"next"}
          /\ stack[k].left \subseteq Animations /\ stack[k].id \in Animations \cup {0}

Fault     == faults < MaxFaults /\ faults' = faults + 1
Smoothly  == UNCHANGED faults
InUserCode == IF stack = <<>> THEN TRUE ELSE Top.at \in Calling
Callable  == InUserCode /\ ~closing
Deeper    == Len(stack) < MaxStack
Pop       == stack' = Front(stack)
SetTop(f) == stack' = Front(stack) \o <<f>>

CancelWake   == wake' = FALSE /\ timers' = IF wake THEN timers - 1 ELSE timers
KeepWake     == UNCHANGED <<wake, timers>>
Keep(E)      == entries' = E /\ UNCHANGED ended
Drop(E)      == entries' = E /\ ended' = ended \cup (entries \ E)
-----------------------------------------------------------------------------
\* Mutant: a wake is scheduled although there is one.
EnsureWake_Twice(E, reduced, otherwise) ==
    \/ /\ E = {} \/ reduced
       /\ Keep(E) /\ KeepWake /\ Smoothly
    \/ /\ E # {} /\ ~reduced
       /\ \/ Keep(E) /\ wake' = TRUE /\ timers' = timers + 1 /\ Smoothly
          \/ Drop(otherwise) /\ KeepWake /\ Fault

\* Mutant: a wake that cannot be scheduled leaves the animations there.
EnsureWake_Strands(E, reduced, otherwise) ==
    \/ /\ E = {} \/ reduced \/ wake
       /\ Keep(E) /\ KeepWake /\ Smoothly
    \/ /\ E # {} /\ ~reduced /\ ~wake
       /\ \/ Keep(E) /\ wake' = TRUE /\ timers' = timers + 1 /\ Smoothly
          \/ Keep(E) /\ KeepWake /\ Fault

\* ensure_wake, and what its callers do when it fails.
EnsureWake(E, reduced, otherwise) ==
    \/ /\ E = {} \/ reduced \/ wake
       /\ Keep(E) /\ KeepWake /\ Smoothly
    \/ /\ E # {} /\ ~reduced /\ ~wake
       /\ \/ Keep(E) /\ wake' = TRUE /\ timers' = timers + 1 /\ Smoothly
          \/ Drop(otherwise) /\ KeepWake /\ Fault

\* start_tween and start_spring.  Nothing is registered when the motion is
\* reduced, or a tween has no duration: its target is applied at once.
Start(i) ==
    /\ Callable /\ i = begun + 1 /\ begun' = i
    /\ \/ /\ ~reduced_motion
          /\ EnsureWake(entries \cup {i}, FALSE, entries) /\ UNCHANGED stack
       \/ /\ reduced_motion \/ Kind[i] = "tween"
          /\ Deeper
          /\ stack' = Append(stack, [Frame("apply", {}) EXCEPT !.id = i, !.at = "write", !.done = TRUE])
          /\ UNCHANGED <<entries, ended>> /\ KeepWake /\ Smoothly
    /\ UNCHANGED <<reduced_motion, closing, age, told>>

\* cancel
Cancel(i) ==
    /\ Callable /\ i \in entries
    /\ Drop(entries \ {i})
    /\ IF entries = {i} THEN CancelWake ELSE KeepWake
    /\ UNCHANGED <<reduced_motion, closing, stack, begun, age, told, faults>>

\* set_reduced_motion(true): every animation there is goes to its target.
Reduce ==
    /\ Callable /\ ~reduced_motion /\ Deeper
    /\ reduced_motion' = TRUE /\ CancelWake
    /\ \/ stack' = Append(stack, Frame("reduce", entries)) /\ UNCHANGED <<entries, ended>> /\ Smoothly
       \/ Drop({}) /\ UNCHANGED stack /\ Fault
    /\ UNCHANGED <<closing, begun, age, told>>

\* set_reduced_motion(false)
Restore ==
    /\ Callable /\ reduced_motion /\ reduced_motion' = FALSE
    /\ EnsureWake(entries, FALSE, {})
    /\ UNCHANGED <<closing, stack, begun, age, told>>

\* The timer's callback, and tick as far as its snapshot of the entries.
WakeFires ==
    /\ timers > 0 /\ InUserCode /\ Deeper
    /\ IF closing \/ reduced_motion
       THEN /\ timers' = timers - 1 /\ wake' = IF closing THEN wake ELSE FALSE
            /\ UNCHANGED <<entries, ended, stack>> /\ Smoothly
       ELSE \/ /\ stack' = Append(stack, Frame("tick", entries))
               /\ timers' = timers - 1 /\ wake' = FALSE
               /\ UNCHANGED <<entries, ended>> /\ Smoothly
            \/ \* recover_snapshot_failure, which may fail too
               /\ UNCHANGED stack
               /\ \/ Keep(entries) /\ wake' = (entries # {}) /\ Fault
                     /\ timers' = IF entries = {} THEN timers - 1 ELSE timers
                  \/ /\ entries # {} /\ faults + 2 <= MaxFaults /\ faults' = faults + 2
                     /\ Drop({}) /\ wake' = FALSE /\ timers' = timers - 1
    /\ UNCHANGED <<reduced_motion, closing, begun, age, told>>
-----------------------------------------------------------------------------
(* The operation at the top of the stack, between its callbacks.             *)

Due(i) == IF age[i] >= Duration - 1 /\ Kind[i] = "tween" THEN {TRUE} ELSE BOOLEAN

\* The next animation of the snapshot, if it is still there.
StepOf ==
    /\ Top.at = "next"
    /\ \E i \in Top.left :
          /\ \A j \in Top.left : i <= j
          /\ IF i \in entries
             THEN /\ \E done \in IF Top.kind = "reduce" THEN {TRUE} ELSE Due(i) :
                        SetTop([Top EXCEPT !.left = @ \ {i}, !.id = i, !.at = "write", !.done = done])
                  /\ age' = IF Top.kind = "tick" /\ age[i] < Duration THEN [age EXCEPT ![i] = @ + 1] ELSE age
             ELSE SetTop([Top EXCEPT !.left = @ \ {i}]) /\ UNCHANGED age
    /\ UNCHANGED <<entries, wake, timers, reduced_motion, closing, begun, ended, told, faults>>

\* The snapshot is done; what is left, or new, is given a wake.
FrameEnds ==
    /\ Top.at = "next" /\ Top.left = {} /\ Pop
    /\ CASE Top.kind = "tick" -> EnsureWake(entries, reduced_motion, {}) /\ UNCHANGED reduced_motion
         [] Top.kind = "reduce" /\ entries = {} ->
                CancelWake /\ Smoothly /\ UNCHANGED <<entries, ended, reduced_motion>>
         [] Top.kind = "reduce" /\ entries # {} ->
                \/ EnsureWake(entries, reduced_motion, {}) /\ UNCHANGED reduced_motion
                \/ /\ ~wake /\ ~reduced_motion /\ Fault
                   /\ reduced_motion' = TRUE /\ Drop({}) /\ KeepWake
         [] OTHER -> Smoothly /\ KeepWake /\ UNCHANGED <<entries, ended, reduced_motion>>
    /\ UNCHANGED <<closing, begun, age, told>>

\* Mutant: an animation that is due completes although it was cancelled meanwhile.
Returns_Always ==
    /\ stack # <<>> /\ Top.at \in Calling
    /\ IF closing THEN Pop /\ UNCHANGED <<entries, told>>
       ELSE LET completes == Top.at = "invalidate" /\ Top.done IN
            /\ SetTop([Top EXCEPT !.at = IF completes THEN "complete"
                                         ELSE IF Top.at = "write" THEN "invalidate" ELSE "next"])
            /\ entries' = IF completes THEN entries \ {Top.id} ELSE entries
            /\ told' = IF completes THEN [told EXCEPT ![Top.id] = @ + 1] ELSE told
    /\ UNCHANGED <<wake, timers, reduced_motion, closing, begun, age, ended, faults>>

\* A callback returns: write, invalidate, and then, when the animation is due and
\* still there, the completion.
Returns ==
    /\ stack # <<>> /\ Top.at \in Calling
    /\ IF closing THEN Pop /\ UNCHANGED <<entries, told>>
       ELSE LET completes == /\ Top.at = "invalidate" /\ Top.done
                             /\ Top.kind = "apply" \/ Top.id \in entries IN
            /\ SetTop([Top EXCEPT !.at = IF completes THEN "complete"
                                         ELSE IF Top.at = "write" THEN "invalidate" ELSE "next"])
            /\ entries' = IF completes THEN entries \ {Top.id} ELSE entries
            /\ told' = IF completes THEN [told EXCEPT ![Top.id] = @ + 1] ELSE told
    /\ UNCHANGED <<wake, timers, reduced_motion, closing, begun, age, ended, faults>>

\* recover_after_step_failure; its ensure_wake may fail, which is a second fault.
Recover(E) ==
    IF reduced_motion \/ E = {}
    THEN Drop({}) /\ CancelWake /\ Fault
    ELSE \/ Drop(E) /\ wake' = TRUE /\ timers' = (IF wake THEN timers ELSE timers + 1) /\ Fault
         \/ ~wake /\ faults + 2 <= MaxFaults /\ faults' = faults + 2 /\ Drop({}) /\ KeepWake

\* Mutant: a failed step takes the wakes of the others with it.
Throws_NoRecovery ==
    /\ stack # <<>> /\ Top.at \in Calling /\ Pop
    /\ IF closing \/ Top.kind = "apply"
       THEN Fault /\ KeepWake /\ UNCHANGED <<entries, ended, reduced_motion>>
       ELSE Drop(entries \ {Top.id}) /\ KeepWake /\ Fault /\ UNCHANGED reduced_motion
    /\ UNCHANGED <<closing, begun, age, told>>

\* A callback throws.  Whoever called the operation may catch that, or throw too.
Throws ==
    /\ stack # <<>> /\ Top.at \in Calling /\ Pop
    /\ CASE closing \/ Top.kind = "apply" ->
                Fault /\ KeepWake /\ UNCHANGED <<entries, ended, reduced_motion>>
         [] ~closing /\ Top.kind = "tick" -> Recover(entries \ {Top.id}) /\ UNCHANGED reduced_motion
         [] OTHER -> Fault /\ reduced_motion' = TRUE /\ Drop({}) /\ CancelWake
    /\ UNCHANGED <<closing, begun, age, told>>

\* ~AnimationContext
Destroy ==
    /\ Callable /\ closing' = TRUE
    /\ CancelWake /\ entries' = {}
    /\ UNCHANGED <<reduced_motion, stack, begun, age, ended, told, faults>>
-----------------------------------------------------------------------------
Goes == stack # <<>> /\ (StepOf \/ FrameEnds)

Next ==
    \/ \E i \in Animations : Start(i) \/ Cancel(i)
    \/ Reduce \/ Restore \/ WakeFires \/ Goes \/ Returns \/ Throws \/ Destroy

\* Callbacks return, at every depth, and the Dispatcher runs due timers.
Fairness ==
    /\ WF_vars(Goes)
    /\ \A k \in 1..MaxStack : SF_vars(Len(stack) = k /\ Returns)
    /\ SF_vars(stack = <<>> /\ WakeFires)

Spec == Init /\ [][Next]_vars /\ Fairness
-----------------------------------------------------------------------------
\* No animation is ever left without somebody who will come back to it: its wake,
\* or an operation in progress.  Once nothing is in progress, reduced motion has
\* left nothing running.
NoneStranded ==
    entries # {} => IF stack = <<>> THEN wake /\ ~reduced_motion
                    ELSE wake \/ \E k \in DOMAIN stack : stack[k].kind # "apply"

\* There is at most one timer, and it can be cancelled, so that none calls back
\* after the context was destroyed.
OneWake == timers = IF wake THEN 1 ELSE 0

\* A completion is called at most once, whatever nested operations did to the
\* animation, and never for one that was cancelled or dropped.
CompletesOnce ==
    [][\A i \in Animations : told'[i] # told[i] => told[i] = 0 /\ i \notin ended]_vars

\* No value is written for an animation that has ended.
WritesTheLiving ==
    [][\A i \in Animations :
          LET writes == \E k \in DOMAIN stack' : stack'[k].id = i /\ stack'[k].at = "write"
                                                 /\ (k \notin DOMAIN stack \/ stack[k] # stack'[k])
          IN writes => i \in entries \/ i = begun']_vars

\* A tween comes to its end.
TweensEnd == \A i \in Animations : (Kind[i] = "tween" /\ i \in entries) ~> i \notin entries
=============================================================================
