---------------------------- MODULE ObservableState ----------------------------
(***************************************************************************)
(* State<T> and Binding<T> (src/include/nativeui/state.hpp): one value, its *)
(* observers, and the user code that runs inside its operations.            *)
(*                                                                          *)
(* Everything happens on one thread.  User code runs between operations, in *)
(* observer callbacks, in the conditions of set_if and in readers (the copy *)
(* of a snapshot), and all of it may write, subscribe, unsubscribe, read,   *)
(* destroy the State or throw.  Comparing two values and destroying one are *)
(* taken to call back into nothing; moving one may throw or destroy the     *)
(* State if the type is fallible.                                           *)
(***************************************************************************)
EXTENDS Integers, Sequences, FiniteSets, SequencesExt

CONSTANTS
    Values,
    InitialValue,
    RevisionMax,   \* the last revision before the counter is exhausted
    MaxListeners,  \* bound on the subscriptions ever made
    MaxReads,      \* bound on nested reads
    MaxWrites,     \* bound on writes
    FallibleValue, \* moving a value may throw or destroy the State
    ConditionsRestore \* conditions may write the current value

StateAssumption ==
    /\ InitialValue \in Values
    /\ RevisionMax \in Nat /\ MaxListeners \in Nat
    /\ MaxReads \in Nat /\ MaxWrites \in Nat
    /\ FallibleValue \in BOOLEAN /\ ConditionsRestore \in BOOLEAN

VARIABLES
    value, revision,
    listeners,         \* sequence of slots
    next_listener_id,
    cleanup_needed,
    owner_alive,
    pending,           \* the write for the next pass
    copied,            \* the write that completed reads left behind
    dispatch,          \* the notification loop in progress
    reads,             \* the read frames in progress, innermost last
    owed,              \* history: observers to be told of this revision
    latest,            \* history: the latest write that still counts
    writes             \* history: number of writes made

published == <<value, revision>>
registry  == <<listeners, next_listener_id, cleanup_needed, owner_alive>>
queued    == <<pending, copied>>
history   == <<owed, latest, writes>>
vars      == <<published, registry, queued, dispatch, reads, history>>

Ids      == 1 .. MaxListeners
Slots    == [id : Ids, active : BOOLEAN]
Write    == [v : Values, conditional : BOOLEAN, n : 1 .. MaxWrites]
NoWrite  == [v |-> InitialValue, conditional |-> FALSE, n |-> 0]
Writes   == Write \cup {NoWrite}

\* A pending write, or the intent to leave the value as it is (NoWrite).
Intent   == [intent : BOOLEAN, write : Writes]
NoIntent == [intent |-> FALSE, write |-> NoWrite]

\* idle; loop: at the head of the loop; condition, callback: user code runs;
\* commit: about to publish; pass: between two callbacks.
Dispatch ==
    [at : {"idle", "loop", "condition", "commit", "pass", "callback"},
     prepared : Writes,
     index : 1 .. MaxListeners + 1,   \* next slot of the pass
     pass_size : 0 .. MaxListeners,
     depth : 0 .. MaxReads]           \* reads in progress when it started

NotDispatching ==
    [at |-> "idle", prepared |-> NoWrite, index |-> 1, pass_size |-> 0, depth |-> 0]

Looping(depth) == [NotDispatching EXCEPT !.at = "loop", !.depth = depth]

LatestWrites == [n : 0 .. MaxWrites, v : Values]

Frames == [pending : Intent, before : LatestWrites]

TypeOK ==
    /\ value \in Values /\ revision \in 0 .. RevisionMax
    /\ listeners \in Seq(Slots)
    /\ next_listener_id \in 1 .. MaxListeners + 1
    /\ cleanup_needed \in BOOLEAN /\ owner_alive \in BOOLEAN
    /\ pending \in Writes /\ copied \in Intent
    /\ dispatch \in Dispatch
    /\ reads \in Seq(Frames)
    /\ owed \subseteq Ids
    /\ latest \in LatestWrites /\ writes \in 0 .. MaxWrites

Init ==
    /\ value = InitialValue /\ revision = 0
    /\ listeners = <<>> /\ next_listener_id = 1
    /\ cleanup_needed = FALSE /\ owner_alive = TRUE
    /\ pending = NoWrite /\ copied = NoIntent
    /\ dispatch = NotDispatching
    /\ reads = <<>>
    /\ owed = {}
    /\ latest = [n |-> 0, v |-> InitialValue]
    /\ writes = 0

dispatching == dispatch.at # "idle"

InUserCode == Len(reads) > dispatch.depth \/ dispatch.at \in {"idle", "condition", "callback"}

ActiveIds == {s.id : s \in {t \in ToSet(listeners) : t.active}}

-----------------------------------------------------------------------------
(***************************************************************************)
(* Calls made by user code.                                                 *)
(***************************************************************************)

\* Mutant: a write during a read goes where a write outside it goes.
Place_IgnoresReads(w, unchanged) ==
    \/ /\ dispatching
       /\ copied' = NoIntent
       /\ pending' = IF unchanged THEN NoWrite ELSE w
       /\ UNCHANGED <<dispatch, reads>>
    \/ /\ ~dispatching
       /\ pending' = IF unchanged THEN pending ELSE w
       /\ dispatch' = IF unchanged THEN dispatch ELSE Looping(Len(reads))
       /\ UNCHANGED <<copied, reads>>

\* Where set_control puts a write: in the innermost read, for the next pass of
\* the dispatch in progress, or in a dispatch of its own.
Place(w, unchanged) ==
    \/ /\ reads # <<>>
       /\ reads' = [reads EXCEPT ![Len(reads)].pending =
                       [intent |-> TRUE, write |-> IF unchanged THEN NoWrite ELSE w]]
       /\ UNCHANGED <<queued, dispatch>>
    \/ /\ reads = <<>> /\ dispatching
       /\ copied' = NoIntent
       /\ pending' = IF unchanged THEN NoWrite ELSE w
       /\ UNCHANGED <<dispatch, reads>>
    \/ /\ reads = <<>> /\ ~dispatching
       /\ pending' = IF unchanged THEN pending ELSE w
       /\ dispatch' = IF unchanged THEN dispatch ELSE Looping(Len(reads))
       /\ UNCHANGED <<copied, reads>>

\* set and set_if; a write to a State that is gone does nothing.
Set(v, conditional) ==
    /\ InUserCode
    /\ owner_alive
    /\ writes < MaxWrites
    /\ v = value /\ dispatch.at = "condition" => ConditionsRestore
    /\ writes' = writes + 1
    /\ Place([v |-> v, conditional |-> conditional, n |-> writes'], v = value)
    /\ latest' = [n |-> writes', v |-> v]
    /\ UNCHANGED <<published, registry, owed>>

Observe ==
    /\ InUserCode
    /\ owner_alive
    /\ next_listener_id <= MaxListeners
    /\ listeners' = Append(listeners, [id |-> next_listener_id, active |-> TRUE])
    /\ next_listener_id' = next_listener_id + 1
    /\ UNCHANGED <<published, cleanup_needed, owner_alive, queued, dispatch,
                   reads, history>>

\* The active slots in their order, which is that of their ids: exactly one
\* sequence qualifies.
Compacted(slots) ==
    LET kept == {s \in ToSet(slots) : s.active}
    IN  {s \in UNION {[1 .. n -> kept] : n \in 0 .. Len(slots)} :
            /\ kept \subseteq ToSet(s)
            /\ \A i, j \in DOMAIN s : i < j => s[i].id < s[j].id}

\* Mutant: slots are erased at once, also during a dispatch.
Cleanup_Always(slots, needed) ==
    /\ listeners' \in IF needed THEN Compacted(slots) ELSE {slots}
    /\ cleanup_needed' = FALSE

\* Removed slots stay in place until no dispatch walks over them.
Cleanup(slots, needed) ==
    IF needed /\ ~dispatching
    THEN listeners' \in Compacted(slots) /\ cleanup_needed' = FALSE
    ELSE listeners' = slots /\ cleanup_needed' = needed

\* Subscription::reset.
Unsubscribe(id) ==
    /\ InUserCode
    /\ id \in ActiveIds
    /\ Cleanup([i \in DOMAIN listeners |->
                   IF listeners[i].id = id THEN [listeners[i] EXCEPT !.active = FALSE]
                                           ELSE listeners[i]], TRUE)
    /\ owed' = owed \ {id}
    /\ UNCHANGED <<published, next_listener_id, owner_alive, queued, dispatch,
                   reads, latest, writes>>

\* invalidate_owner.
Invalidate ==
    /\ owner_alive' = FALSE
    /\ pending' = NoWrite /\ copied' = NoIntent
    /\ Cleanup([i \in DOMAIN listeners |-> [listeners[i] EXCEPT !.active = FALSE]], TRUE)
    /\ owed' = {}
    /\ UNCHANGED <<published, next_listener_id, latest, writes>>

DestroyOwner ==
    /\ InUserCode
    /\ owner_alive
    /\ Invalidate
    /\ UNCHANGED <<dispatch, reads>>

-----------------------------------------------------------------------------
(***************************************************************************)
(* Guarded reads: snapshot and StateReadAccess::read.                       *)
(***************************************************************************)

ReadBegins ==
    /\ InUserCode
    /\ Len(reads) < MaxReads
    /\ reads' = Append(reads, [pending |-> NoIntent, before |-> latest])
    /\ UNCHANGED <<published, registry, queued, dispatch, history>>

\* The writes of a read move to the enclosing one; those of the outermost are
\* published by the dispatch in progress or by a new one.
ReadReturns ==
    /\ Len(reads) > dispatch.depth
    /\ LET done  == Last(reads).pending
           outer == Front(reads)
           keep  == owner_alive /\ done.intent
       IN  /\ reads' = IF keep /\ outer # <<>>
                       THEN [outer EXCEPT ![Len(outer)].pending = done]
                       ELSE outer
           /\ copied' = IF keep /\ outer = <<>> THEN done ELSE copied
           /\ dispatch' = IF outer = <<>> /\ ~dispatching /\ owner_alive /\ copied'.intent
                          THEN Looping(0) ELSE dispatch
    /\ UNCHANGED <<published, registry, pending, history>>

\* Mutant: the writes of a failed read are kept like those of a finished one.
ReadThrows_KeepsWrites ==
    /\ Len(reads) > dispatch.depth
    /\ reads' = Front(reads)
    /\ copied' = IF Len(reads) = 1 /\ owner_alive /\ Last(reads).pending.intent
                 THEN Last(reads).pending ELSE copied
    /\ latest' = Last(reads).before
    /\ UNCHANGED <<published, registry, pending, dispatch, owed, writes>>

\* A failed read discards its own writes only; the exception reaches the code
\* that read, which may catch it.
ReadThrows ==
    /\ Len(reads) > dispatch.depth
    /\ reads' = Front(reads)
    /\ latest' = Last(reads).before
    /\ UNCHANGED <<published, registry, queued, dispatch, owed, writes>>

-----------------------------------------------------------------------------
(***************************************************************************)
(* dispatch_control.                                                        *)
(***************************************************************************)

At(at) == dispatch.at = at /\ Len(reads) = dispatch.depth

\* The latest write that counts, now that write w does not take place.
Without(w) == IF latest.n = w.n THEN [n |-> 0, v |-> value] ELSE latest

LeaveDispatch ==
    /\ dispatch' = NotDispatching
    /\ listeners' \in IF cleanup_needed THEN Compacted(listeners) ELSE {listeners}
    /\ cleanup_needed' = FALSE
    /\ UNCHANGED <<published, next_listener_id, owner_alive, reads, writes>>

DispatchEnds ==
    /\ At("loop")
    /\ ~owner_alive \/ (pending = NoWrite /\ ~copied.intent)
    /\ LeaveDispatch
    /\ UNCHANGED <<queued, owed, latest>>

\* The exception handler: pending writes are dropped, nobody else is called.
DispatchFails ==
    /\ pending' = NoWrite /\ copied' = NoIntent
    /\ owed' = {}
    /\ latest' = [n |-> 0, v |-> value]
    /\ LeaveDispatch

\* The next write of the loop; what a read left behind supersedes a pending one.
TakeWrite ==
    /\ At("loop")
    /\ owner_alive
    /\ pending # NoWrite \/ copied.intent
    /\ LET w == IF copied.intent THEN copied.write ELSE pending
       IN  dispatch' = [dispatch EXCEPT
              !.prepared = w,
              !.at = IF w = NoWrite \/ w.v = value THEN "loop"
                     ELSE IF w.conditional THEN "condition" ELSE "commit"]
    /\ pending' = NoWrite /\ copied' = NoIntent
    /\ UNCHANGED <<published, registry, reads, history>>

ConditionReturns ==
    /\ At("condition")
    /\ \/ /\ dispatch' = [dispatch EXCEPT !.at = "loop"]
          /\ latest' = Without(dispatch.prepared)
       \/ /\ dispatch' = [dispatch EXCEPT !.at = IF owner_alive THEN "commit" ELSE "loop"]
          /\ UNCHANGED latest
    /\ UNCHANGED <<published, registry, queued, reads, owed, writes>>

\* Mutant: the pass is not limited to the observers present when it starts.
Commit_NoPassSize ==
    /\ At("commit")
    /\ revision < RevisionMax
    /\ value' = dispatch.prepared.v
    /\ revision' = revision + 1
    /\ dispatch' = [dispatch EXCEPT !.at = "pass", !.index = 1, !.pass_size = MaxListeners]
    /\ owed' = ActiveIds
    /\ UNCHANGED <<registry, queued, reads, latest, writes>>

\* Mutant: the exhausted revision is not noticed.
Commit_Wraps ==
    /\ At("commit")
    /\ value' = dispatch.prepared.v
    /\ revision' = revision + 1
    /\ dispatch' = [dispatch EXCEPT !.at = "pass", !.index = 1,
                                    !.pass_size = Len(listeners)]
    /\ owed' = ActiveIds
    /\ UNCHANGED <<registry, queued, reads, latest, writes>>

Commit ==
    /\ At("commit")
    /\ revision < RevisionMax
    /\ value' = dispatch.prepared.v
    /\ revision' = revision + 1
    /\ dispatch' = [dispatch EXCEPT !.at = "pass", !.index = 1,
                                    !.pass_size = Len(listeners)]
    /\ owed' = ActiveIds
    /\ UNCHANGED <<registry, queued, reads, latest, writes>>

\* Moving the value into place destroyed the State: nothing is published.
RetiredByMove ==
    /\ At("commit")
    /\ FallibleValue /\ revision < RevisionMax
    /\ Invalidate
    /\ dispatch' = [dispatch EXCEPT !.at = "loop"]
    /\ UNCHANGED reads

\* The condition throws, the revision is exhausted or moving the value throws.
WriteFails ==
    /\ \/ At("condition")
       \/ At("commit") /\ (revision = RevisionMax \/ FallibleValue)
    /\ DispatchFails

\* Mutant: the last slot of the pass is left out.
Due_Short == {i \in dispatch.index .. dispatch.pass_size - 1 :
                 i \in DOMAIN listeners /\ listeners[i].active}

\* The slots whose turn is still to come in this pass.
Due == {i \in dispatch.index .. dispatch.pass_size :
           i \in DOMAIN listeners /\ listeners[i].active}

NextCallback ==
    /\ At("pass")
    /\ owner_alive /\ Due # {}
    /\ LET i == CHOOSE j \in Due : \A k \in Due : j <= k
       IN  /\ dispatch' = [dispatch EXCEPT !.at = "callback", !.index = i + 1]
           /\ owed' = owed \ {listeners[i].id}
    /\ UNCHANGED <<published, registry, queued, reads, latest, writes>>

CallbackReturns ==
    /\ At("callback")
    /\ dispatch' = [dispatch EXCEPT !.at = "pass"]
    /\ UNCHANGED <<published, registry, queued, reads, history>>

\* Mutant: writes made before the exception survive it.
CallbackThrows_KeepsPending ==
    /\ At("callback")
    /\ owed' = {}
    /\ latest' = [n |-> 0, v |-> value]
    /\ LeaveDispatch
    /\ UNCHANGED queued

CallbackThrows ==
    /\ At("callback")
    /\ DispatchFails

PassEnds ==
    /\ At("pass")
    /\ ~owner_alive \/ Due = {}
    /\ dispatch' = Looping(dispatch.depth)
    /\ UNCHANGED <<published, registry, queued, reads, history>>

UserCall ==
    \/ \E v \in Values, conditional \in BOOLEAN : Set(v, conditional)
    \/ Observe
    \/ \E id \in Ids : Unsubscribe(id)
    \/ DestroyOwner
    \/ ReadBegins \/ ReadReturns \/ ReadThrows

DispatchStep ==
    \/ DispatchEnds \/ TakeWrite \/ ConditionReturns
    \/ Commit \/ RetiredByMove \/ WriteFails
    \/ NextCallback \/ CallbackReturns \/ CallbackThrows \/ PassEnds

Next == UserCall \/ DispatchStep

Spec == Init /\ [][Next]_vars

-----------------------------------------------------------------------------
(***************************************************************************)
(* Properties.                                                              *)
(***************************************************************************)

AtRest == reads = <<>> /\ ~dispatching

\* A value lent to an observer or a reader does not change under it, although
\* both may write and the writes of nested reads end up in enclosing ones.
StableBorrow ==
    [][published' # published => reads = <<>> /\ dispatch.at # "callback"]_vars

\* No write is lost: once everything has returned, the value is that of the
\* latest write that was not refused by its condition or discarded by a failure
\* of the read or the pass it was made in.
LatestWriteWins == AtRest /\ owner_alive => value = latest.v

\* The slots a pass walks over, and the one whose callback runs, stay where
\* they are, whatever the callbacks remove.
PassInBounds == dispatch.pass_size <= Len(listeners)

\* However a dispatch ends, it leaves no pending write and no dead slot behind,
\* so that the next write starts afresh.
RestsClean ==
    ~dispatching =>
        /\ pending = NoWrite
        /\ reads = <<>> => copied = NoIntent
        /\ ~cleanup_needed
        /\ \A i \in DOMAIN listeners : listeners[i].active

\* Every observer is told of every value as the contract says.
Contract ==
    INSTANCE ObserverContract
        WITH Observers <- Ids, Nobody <- 0, alive <- owner_alive,
             watching <- ActiveIds,
             telling <- IF dispatch.at = "callback"
                        THEN listeners[dispatch.index - 1].id ELSE 0

ImplementsObserverContract == Contract!Spec

\* Nobody is left out: when a pass ends, every observer that watched when the
\* value was published was told of it, has left or was given up by a failure.
NobodyLeftOut == dispatch.at \notin {"pass", "callback"} => owed = {}
=============================================================================
