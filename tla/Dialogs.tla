------------------------------- MODULE Dialogs -------------------------------
(***************************************************************************)
(* The dialogs of one UI: controllers (src/dialog.cpp), the slot that only  *)
(* one of them holds at a time (DialogState), the modal overlays of the     *)
(* ones that are shown (OverlayState), and the UI's checkpoints, which      *)
(* bring the mounted overlays up to date and carry out a close that was     *)
(* asked for during a dispatch.                                             *)
(*                                                                          *)
(* Application code runs at every step at which `stack` is not empty: the   *)
(* invalidation callback, the components that are mounted and unmounted,    *)
(* input handlers, and the completion.  It may throw, and it may call the   *)
(* controllers and the UI again.                                            *)
(***************************************************************************)
EXTENDS Naturals, Sequences, FiniteSets

CONSTANTS
    Dialogs,        \* the controllers
    MaxGen,         \* bound: dialogs that are shown
    MaxStack,       \* bound: operations in progress
    MaxFaults,      \* bound: exceptions
    Reentrant       \* whether notifications and unmounted components use dialogs

DialogAssumption ==
    {MaxGen, MaxStack, MaxFaults} \subseteq Nat /\ Reentrant \in BOOLEAN

VARIABLES
    ctl,        \* the controllers: generation, overlay, pending result
    slot,       \* active_generation of the DialogState
    next,       \* next_generation
    pending,    \* the close that waits for the end of a dispatch
    entries,    \* the overlays, by generation
    mounted,    \* the overlays that are in the tree
    dirty,      \* the host is marked for reconciliation
    ended,      \* the UI is torn down
    stack,      \* operations in progress, innermost last
    faults,
    first,      \* history: the result that was requested first
    calls       \* history: the results the completion was called with

state   == <<ctl, slot, next, pending>>
tree    == <<entries, mounted, dirty>>
history == <<first, calls>>
vars    == <<state, tree, ended, stack, faults, history>>

Gens    == 1..MaxGen
Results == {"action", "dismissed"}
NoClose == [gen |-> 0, overlay |-> 0, result |-> "none"]
Top     == stack[Len(stack)]
At(pc)  == stack # <<>> /\ Top.pc = pc

Frame(op, pc, c, g) ==
    [op |-> op, pc |-> pc, then |-> "end", c |-> c, gen |-> g, overlay |-> g,
     result |-> "none", want |-> {}, dying |-> FALSE]

Goto(f)   == stack' = [stack EXCEPT ![Len(stack)] = f]
GotoPc(pc) == Goto([Top EXCEPT !.pc = pc])
Push(f)   == stack' = Append(stack, f)
Return    == stack' = SubSeq(stack, 1, Len(stack) - 1)

Init ==
    /\ ctl = [c \in Dialogs |-> [gen |-> 0, overlay |-> 0, result |-> "none", alive |-> TRUE]]
    /\ slot = 0 /\ next = 1 /\ pending = NoClose
    /\ entries = [g \in Gens |-> "none"] /\ mounted = {} /\ dirty = FALSE
    /\ ended = FALSE /\ stack = <<>> /\ faults = 0
    /\ first = [g \in Gens |-> "none"] /\ calls = [g \in Gens |-> <<>>]

TypeOK ==
    /\ slot \in 0..MaxGen /\ next \in 1..MaxGen + 1 /\ pending.gen \in 0..MaxGen
    /\ \A c \in Dialogs : ctl[c].gen \in 0..MaxGen /\ ctl[c].overlay \in 0..MaxGen
    /\ entries \in [Gens -> {"none", "open", "closing"}] /\ mounted \subseteq Gens
    /\ Len(stack) <= MaxStack /\ faults \in 0..MaxFaults
-----------------------------------------------------------------------------
(* Where application code runs, and what it may do there.                   *)

UserPcs  == {"notify", "notify again", "flush", "handler", "completion"}
UserCode == IF stack = <<>> THEN TRUE ELSE Top.pc \in UserPcs

\* An invalidation callback asks for a frame and does nothing else, and a
\* component that is mounted or unmounted does not deactivate the UI.
MayCall == IF Reentrant \/ stack = <<>> THEN TRUE ELSE Top.pc \notin {"notify", "notify again"}
MayDeactivate == IF Reentrant \/ stack = <<>> THEN TRUE ELSE Top.pc \in {"handler", "completion"}
Room == UserCode /\ MayCall /\ Len(stack) < MaxStack /\ ~ended

\* A member function of the controller waits for application code to return;
\* the completion is the last thing that one of them calls.
Inside(c) == \E i \in DOMAIN stack :
    stack[i].c = c /\ stack[i].op # "deferred" /\ stack[i].pc # "completion"
MayShow(c) == Reentrant \/ ~Inside(c)

Depth == Cardinality({i \in DOMAIN stack : stack[i].pc = "handler"})
Transition == \E i \in DOMAIN stack : stack[i].pc = "flush"
Owns(g) == ~ended /\ g # 0 /\ slot = g
Open    == {g \in Gens : entries[g] = "open"}
Visible(g) == IF g = 0 THEN FALSE ELSE entries[g] = "open"   \* has an entry that is not closing
Listed(g)  == IF g = 0 THEN FALSE ELSE entries[g] # "none"

Erase(es, g) == IF g = 0 THEN es ELSE [es EXCEPT ![g] = "none"]
Cleared(c) == [ctl EXCEPT ![c] = [@ EXCEPT !.gen = 0, !.overlay = 0, !.result = "none"]]

\* Mutant: a controller whose close waited keeps the dialog.
Released_Nothing(g) == ctl

\* The controller of a generation; lifetime_ tells the closure of a close that waits
\* whether it is alive.
Released(g) == [c \in Dialogs |-> IF ctl[c].alive /\ ctl[c].gen = g
                                  THEN [ctl[c] EXCEPT !.gen = 0, !.overlay = 0, !.result = "none"]
                                  ELSE ctl[c]]

\* prepare_overlay_layout, then pc; at once when there is nothing to do, and
\* nothing during a lifecycle operation of the tree.
Prepare(f, pc) ==
    IF dirty /\ ~Transition
    THEN /\ Goto([f EXCEPT !.pc = "flush", !.then = pc, !.want = Open])
         /\ dirty' = FALSE
    ELSE Goto([f EXCEPT !.pc = pc]) /\ UNCHANGED dirty
-----------------------------------------------------------------------------
(* Showing.                                                                 *)

Show(c) ==
    /\ Room /\ ctl[c].alive /\ MayShow(c)
    /\ next \in Gens /\ ctl[c].gen = 0 /\ slot = 0   \* else Busy
    /\ slot' = next /\ next' = next + 1
    /\ ctl' = [ctl EXCEPT ![c].gen = next]
    /\ entries' = [entries EXCEPT ![next] = "open"] /\ dirty' = TRUE
    /\ Push(Frame("show", "notify", c, next))
    /\ UNCHANGED <<pending, mounted, ended, faults, history>>

Shown ==
    /\ At("notify") /\ Top.op = "show"
    /\ ctl' = [ctl EXCEPT ![Top.c].overlay = Top.gen]
    /\ Return
    /\ UNCHANGED <<slot, next, pending, tree, ended, faults, history>>

\* Mutant: the slot is kept.
ShowThrows_KeepsSlot ==
    /\ At("notify") /\ Top.op = "show" /\ faults < MaxFaults
    /\ entries' = Erase(entries, Top.gen)
    /\ ctl' = Cleared(Top.c)
    /\ Return /\ faults' = faults + 1
    /\ UNCHANGED <<slot, next, pending, mounted, dirty, ended, history>>

\* Nothing was shown: the overlay is taken back, the slot is free again.
ShowThrows ==
    /\ At("notify") /\ Top.op = "show" /\ faults < MaxFaults
    /\ entries' = Erase(entries, Top.gen)
    /\ slot' = (IF Owns(Top.gen) THEN 0 ELSE slot)
    /\ ctl' = Cleared(Top.c)
    /\ Return /\ faults' = faults + 1
    /\ UNCHANGED <<next, pending, mounted, dirty, ended, history>>
-----------------------------------------------------------------------------
(* Closing: complete, asked for by an action, Escape or the application.    *)

Completable(c) == ctl[c].alive /\ Owns(ctl[c].gen)

\* Mutant: a later request replaces the result.
Wanted_Latest(c, r) == r

Wanted(c, r)   == IF ctl[c].result = "none" THEN r ELSE ctl[c].result

Request(c, r) ==
    /\ ctl' = [ctl EXCEPT ![c].result = Wanted(c, r)]
    /\ first' = [first EXCEPT ![ctl[c].gen] = IF @ = "none" THEN r ELSE @]

\* During a dispatch the whole close waits, if no other does.
Defer(c, r) ==
    /\ Room /\ Completable(c)
    /\ Depth # 0 /\ pending.gen # ctl[c].gen
    /\ Request(c, r)
    /\ pending' = IF pending = NoClose
                  THEN [gen |-> ctl[c].gen, overlay |-> ctl[c].overlay, result |-> Wanted(c, r)]
                  ELSE pending
    /\ UNCHANGED <<slot, next, tree, ended, stack, faults, calls>>

\* Otherwise the entry is marked and the structure notified, unless it is closing
\* already.
CompleteBegins(c, r) ==
    /\ Room /\ Completable(c)
    /\ Depth = 0 /\ pending.gen # ctl[c].gen
    /\ Request(c, r)
    /\ IF Visible(ctl[c].overlay)
       THEN /\ entries' = [entries EXCEPT ![ctl[c].overlay] = "closing"]
            /\ dirty' = TRUE
            /\ Push([Frame("complete", "notify", c, ctl[c].gen) EXCEPT !.result = Wanted(c, r)])
       ELSE UNCHANGED <<entries, dirty, stack>>
    /\ UNCHANGED <<slot, next, pending, mounted, ended, faults, calls>>

\* A close that waits is resumed.
CompleteResumes(c) ==
    /\ Room /\ Completable(c)
    /\ Depth = 0 /\ pending.gen = ctl[c].gen
    /\ Push(Frame("deferred", "prepare", c, pending.gen))
    /\ UNCHANGED <<state, tree, ended, faults, history>>

\* close_reconciled after the notification.
Reconcile ==
    /\ At("notify") /\ Top.op \in {"complete", "deferred"}
    /\ Prepare(Top, "commit")
    /\ UNCHANGED <<state, entries, mounted, ended, faults, history>>

\* Mutant: the completion is called before the slot is free.
Commit_KeepsSlot ==
    /\ At("commit")
    /\ entries' = Erase(entries, Top.overlay)
    /\ IF Owns(Top.gen)
       THEN /\ ctl' = IF Top.op = "complete" THEN Cleared(Top.c) ELSE Released(Top.gen)
            /\ calls' = [calls EXCEPT ![Top.gen] = Append(@, Top.result)]
            /\ GotoPc("completion") /\ UNCHANGED slot
       ELSE Return /\ UNCHANGED <<ctl, slot, calls>>
    /\ UNCHANGED <<next, pending, mounted, dirty, ended, faults, first>>

Answer(g, r) == calls' = [calls EXCEPT ![g] = Append(@, r)]

\* A controller whose close was not deferred lets go of whatever it has, be it another dialog.
Commit ==
    /\ At("commit")
    /\ entries' = Erase(entries, Top.overlay)
    /\ IF Owns(Top.gen)
       THEN /\ slot' = 0
            /\ ctl' = IF Top.op = "complete" THEN Cleared(Top.c) ELSE Released(Top.gen)
            /\ Answer(Top.gen, Top.result)
            /\ GotoPc("completion")
       ELSE /\ ctl' = IF Top.op = "complete" THEN Cleared(Top.c) ELSE ctl
            /\ Return /\ UNCHANGED <<slot, calls>>
    /\ UNCHANGED <<next, pending, mounted, dirty, ended, faults, first>>

\* An application that was called last returns; the destructor contains what
\* it throws.
Completed ==
    /\ At("completion")
    /\ Return
    /\ UNCHANGED <<state, tree, ended, faults, history>>
-----------------------------------------------------------------------------
(* flush_pending_dialog_completion.                                         *)

DeferredPrepares ==
    /\ At("prepare")
    /\ Prepare(Top, "take")
    /\ UNCHANGED <<state, entries, mounted, ended, faults, history>>

\* A close leaves the dialog as it is; a destructor goes on with the close that
\* cannot fail.
GiveUp(f) ==
    IF f.dying
    THEN Goto([f EXCEPT !.op = "destroy", !.pc = "terminal", !.overlay = ctl[f.c].overlay,
                        !.result = ctl[f.c].result])
    ELSE Return

\* The close that is still the one that waited begins; one whose dialog is gone
\* is dropped.
Take ==
    /\ At("take")
    /\ LET p == pending IN
       CASE p.gen # Top.gen -> GiveUp(Top) /\ UNCHANGED <<pending, entries, dirty>>
         [] p.gen = Top.gen /\ ~Owns(p.gen) -> pending' = NoClose /\ GiveUp(Top) /\ UNCHANGED <<entries, dirty>>
         [] OTHER ->
              /\ pending' = NoClose
              /\ IF Visible(p.overlay)
                 THEN /\ entries' = [entries EXCEPT ![p.overlay] = "closing"] /\ dirty' = TRUE
                      /\ Goto([Top EXCEPT !.pc = "notify", !.then = "commit", !.overlay = p.overlay, !.result = p.result])
                 ELSE /\ UNCHANGED <<entries, dirty>>
                      /\ Goto([Top EXCEPT !.pc = "commit", !.overlay = 0, !.result = p.result])
    /\ UNCHANGED <<ctl, slot, next, mounted, ended, faults, history>>

\* Mutant: a close that failed stays marked.
Reopened_Not(g) == entries

\* Mutant: a close that failed does not wait again.
Restored_Never(f) == pending

\* The close failed: the entry is open again, and the close waits again.
Reopened(g) == IF Listed(g) THEN [entries EXCEPT ![g] = "open"] ELSE entries
Restored(f) == IF f.then # "take" /\ Owns(f.gen) /\ pending = NoClose
               THEN [gen |-> f.gen, overlay |-> f.overlay, result |-> f.result] ELSE pending
-----------------------------------------------------------------------------
(* Destroying a controller.                                                 *)

\* finish_destructor_close_noexcept.
Terminal(c) == [Frame("destroy", "terminal", c, ctl[c].gen) EXCEPT
                   !.overlay = ctl[c].overlay, !.result = Wanted(c, "dismissed"), !.dying = TRUE]

Dead(c, cs) == [cs EXCEPT ![c].alive = FALSE]

\* The close of a destructor is the one of complete, with what cannot throw
\* after it.
Destroy(c) ==
    /\ Room /\ ctl[c].alive /\ ~Inside(c)
    /\ LET g == ctl[c].gen
           o == ctl[c].overlay
           r == Wanted(c, "dismissed")
       IN
       IF ~Owns(g)
       THEN ctl' = Dead(c, Cleared(c)) /\ UNCHANGED <<pending, entries, dirty, stack, first>>
       ELSE /\ ctl' = Dead(c, [ctl EXCEPT ![c].result = r])
            /\ first' = [first EXCEPT ![g] = IF @ = "none" THEN r ELSE @]
            /\ CASE Depth # 0 /\ pending.gen = g -> UNCHANGED <<pending, entries, dirty, stack>>
                 [] Depth # 0 /\ pending = NoClose ->
                      /\ pending' = [gen |-> g, overlay |-> o, result |-> r]
                      /\ UNCHANGED <<entries, dirty, stack>>
                 [] Depth = 0 /\ pending.gen = g ->
                      /\ Push([Frame("deferred", "prepare", c, g) EXCEPT !.dying = TRUE])
                      /\ UNCHANGED <<pending, entries, dirty>>
                 [] Depth = 0 /\ pending.gen # g /\ Visible(o) ->
                      /\ entries' = [entries EXCEPT ![o] = "closing"] /\ dirty' = TRUE
                      /\ Push([Frame("complete", "notify", c, g) EXCEPT !.result = r, !.dying = TRUE])
                      /\ UNCHANGED pending
                 [] OTHER -> Push([Terminal(c) EXCEPT !.result = r]) /\ UNCHANGED <<pending, entries, dirty>>
    /\ UNCHANGED <<slot, next, mounted, ended, faults, calls>>

Terminate ==
    /\ At("terminal")
    /\ IF ~Owns(Top.gen) THEN Return /\ ctl' = Cleared(Top.c) /\ UNCHANGED dirty
       ELSE /\ IF Listed(Top.overlay) THEN GotoPc("notify") /\ dirty' = TRUE
                                      ELSE Prepare(Top, "release")
            /\ UNCHANGED ctl
    /\ UNCHANGED <<slot, next, pending, entries, mounted, ended, faults, history>>

\* close_noexcept: notified, erased, notified again; exceptions are contained.
Terminated(failed) ==
    /\ At("notify") /\ Top.op = "destroy"
    /\ IF failed THEN faults < MaxFaults /\ faults' = faults + 1 ELSE UNCHANGED faults
    /\ IF Listed(Top.overlay)
       THEN entries' = Erase(entries, Top.overlay) /\ dirty' = TRUE /\ GotoPc("notify again")
       ELSE UNCHANGED <<entries, dirty>> /\ GotoPc("lay out")
    /\ UNCHANGED <<state, mounted, ended, history>>

NotifiedAgain(failed) ==
    /\ At("notify again")
    /\ IF failed THEN faults < MaxFaults /\ faults' = faults + 1 ELSE UNCHANGED faults
    /\ GotoPc("lay out")
    /\ UNCHANGED <<state, tree, ended, history>>

LayOut ==
    /\ At("lay out")
    /\ Prepare(Top, IF Top.op = "destroy" THEN "release" ELSE "end")
    /\ UNCHANGED <<state, entries, mounted, ended, faults, history>>

Release ==
    /\ At("release")
    /\ ctl' = Cleared(Top.c)
    /\ IF Owns(Top.gen)
       THEN slot' = 0 /\ Answer(Top.gen, Top.result) /\ GotoPc("completion")
       ELSE UNCHANGED <<slot, calls>> /\ Return
    /\ UNCHANGED <<next, pending, tree, ended, faults, first>>
-----------------------------------------------------------------------------
(* The UI.                                                                  *)

\* Input handlers ask for the close in a dispatch, Escape before one.
Dispatch ==
    /\ Room /\ ~Transition
    /\ LET f == Frame("dispatch", "handler", "none", 0) IN
       IF dirty
       THEN Push([f EXCEPT !.pc = "flush", !.then = "handler", !.want = Open]) /\ dirty' = FALSE
       ELSE Push(f) /\ UNCHANGED dirty
    /\ UNCHANGED <<state, entries, mounted, ended, faults, history>>

HandlerReturns ==
    /\ At("handler")
    /\ IF Depth = 1 THEN Prepare(Top, "finish") ELSE GotoPc("finish") /\ UNCHANGED dirty
    /\ UNCHANGED <<state, entries, mounted, ended, faults, history>>

Finish ==
    /\ At("finish")
    /\ CASE pending # NoClose -> Goto(Frame("deferred", "prepare", "none", pending.gen)) /\ UNCHANGED dirty
         [] pending = NoClose /\ \E g \in Gens : Listed(g) -> Prepare(Top, "end")
         [] OTHER -> GotoPc("end") /\ UNCHANGED dirty
    /\ UNCHANGED <<state, entries, mounted, ended, faults, history>>

Ends ==
    /\ At("end") /\ Return
    /\ UNCHANGED <<state, tree, ended, faults, history>>

\* A frame, or a resize.
Layout ==
    /\ Room /\ ~Transition /\ dirty
    /\ Push([Frame("layout", "flush", "none", 0) EXCEPT !.want = Open]) /\ dirty' = FALSE
    /\ UNCHANGED <<state, entries, mounted, ended, faults, history>>

\* Mutant: what changed meanwhile is taken for done.
FlushEnds_Once ==
    /\ At("flush")
    /\ mounted' = Top.want /\ dirty' = FALSE
    /\ GotoPc(Top.then)
    /\ UNCHANGED <<state, entries, ended, faults, history>>

\* What changed meanwhile is taken up by another pass.
FlushEnds ==
    /\ At("flush")
    /\ mounted' = Top.want
    /\ IF dirty THEN Goto([Top EXCEPT !.want = Open]) /\ dirty' = FALSE
                ELSE GotoPc(Top.then) /\ UNCHANGED dirty
    /\ UNCHANGED <<state, entries, ended, faults, history>>

\* deactivate: the dialog is closed without a completion.
Deactivate ==
    /\ Room /\ MayDeactivate /\ ~\E i \in DOMAIN stack : stack[i].op = "abandon"
    /\ \E c \in Dialogs :
         /\ Completable(c)
         /\ IF Visible(ctl[c].overlay)
            THEN dirty' = TRUE /\ Push([Frame("abandon", "notify", c, slot) EXCEPT !.overlay = ctl[c].overlay])
            ELSE UNCHANGED dirty /\ Push([Frame("abandon", "abandon", c, slot) EXCEPT !.overlay = 0])
    /\ UNCHANGED <<state, entries, mounted, ended, faults, history>>

AbandonNotified ==
    /\ At("notify") /\ Top.op = "abandon" /\ GotoPc("abandon")
    /\ UNCHANGED <<state, tree, ended, faults, history>>

Abandon ==
    /\ At("abandon")
    /\ entries' = IF Visible(Top.overlay) THEN Erase(entries, Top.overlay) ELSE entries
    /\ IF Owns(Top.gen) THEN slot' = 0 /\ ctl' = Cleared(Top.c) ELSE UNCHANGED <<slot, ctl>>
    /\ GotoPc("lay out")
    /\ UNCHANGED <<next, pending, mounted, dirty, ended, faults, history>>

\* The UI is destroyed, by a completion too.
Teardown ==
    /\ ~ended /\ \A i \in DOMAIN stack : stack[i].pc = "completion"
    /\ ended' = TRUE /\ slot' = 0 /\ pending' = NoClose
    /\ entries' = [g \in Gens |-> "none"] /\ mounted' = {} /\ dirty' = FALSE
    /\ UNCHANGED <<ctl, next, stack, faults, history>>
-----------------------------------------------------------------------------
(* Exceptions that leave an operation.                                      *)

Throw ==
    /\ stack # <<>> /\ faults < MaxFaults
    /\ Top.pc = "flush" \/ (Top.pc = "notify" /\ Top.op \in {"complete", "deferred", "abandon"})
    /\ faults' = faults + 1
    /\ IF Top.pc = "flush" THEN dirty' = TRUE /\ mounted' \in {mounted, Top.want}
                           ELSE UNCHANGED <<dirty, mounted>>
    /\ CASE Top.op = "complete" -> entries' = Reopened(Top.overlay) /\ GiveUp(Top) /\ UNCHANGED pending
         [] Top.op = "deferred" ->
              /\ entries' = IF Top.then = "take" THEN entries ELSE Reopened(Top.overlay)
              /\ pending' = Restored(Top) /\ GiveUp(Top)
         [] Top.op = "destroy" -> GotoPc(Top.then) /\ UNCHANGED <<entries, pending>>
         [] OTHER -> Return /\ UNCHANGED <<entries, pending>>
    /\ UNCHANGED <<ctl, slot, next, ended, history>>

\* An input handler or a completion throws: nothing of the dialogs is undone.
UserThrows ==
    /\ stack # <<>> /\ Top.pc \in {"handler", "completion"} /\ faults < MaxFaults
    /\ faults' = faults + 1 /\ Return
    /\ UNCHANGED <<state, tree, ended, history>>
-----------------------------------------------------------------------------
Steps ==
    \/ Shown \/ Reconcile \/ Commit \/ Completed \/ DeferredPrepares \/ Take
    \/ Terminate \/ Terminated(FALSE) \/ NotifiedAgain(FALSE) \/ LayOut \/ Release
    \/ HandlerReturns \/ Finish \/ Ends \/ FlushEnds \/ AbandonNotified \/ Abandon

Next ==
    \/ Steps
    \/ \E c \in Dialogs :
          \/ Show(c) \/ CompleteResumes(c) \/ Destroy(c)
          \/ \E r \in Results : Defer(c, r) \/ CompleteBegins(c, r)
    \/ Dispatch \/ Layout \/ Deactivate \/ Teardown
    \/ ShowThrows \/ Terminated(TRUE) \/ NotifiedAgain(TRUE) \/ Throw \/ UserThrows

\* What is in progress ends, callbacks return however often they call back, and
\* events keep coming.
Fairness ==
    /\ \A n \in 1..MaxStack : SF_vars(Len(stack) = n /\ Steps)
    /\ SF_vars(stack = <<>> /\ Dispatch)
    /\ SF_vars(stack = <<>> /\ Layout)

Spec == Init /\ [][Next]_vars /\ Fairness
-----------------------------------------------------------------------------
\* A completion is called once at most, with the result that was asked for
\* first: no failure, retry or second request repeats it or changes it.
CompletesOnce ==
    \A g \in Gens : calls[g] \in {<<>>, <<first[g]>>}

\* At rest the slot is held by a dialog that can still be closed: its overlay is
\* open, and a controller has it or its close waits.  An overlay is open only for
\* the dialog that holds the slot.
NobodyIsStuck ==
    stack = <<>> =>
        /\ slot # 0 => /\ entries[slot] = "open"
                       /\ \/ pending.gen = slot
                          \/ \E c \in Dialogs : ctl[c].alive /\ ctl[c].gen = slot /\ ctl[c].overlay = slot
        /\ \A g \in Gens : entries[g] # "none" => g = slot

\* A controller that shows nothing can show: it has no generation but the slot's.
ControllersAgree ==
    stack = <<>> /\ ~ended => \A c \in Dialogs : ctl[c].alive => ctl[c].gen \in {0, slot}

\* What is mounted is what is open, or the host is marked.
MountedIsOpen ==
    stack = <<>> /\ ~dirty => mounted = Open

\* The completion runs when the dialog is gone: its overlay is erased and its slot
\* free, so that it may show the next one.
CompletionComesLast ==
    [][\A g \in Gens : calls'[g] # calls[g] => slot' = 0 /\ entries'[g] = "none"]_vars

\* A close that waits for the end of a dispatch is carried out, however often it
\* fails.
WaitingCloseEnds == \A g \in Gens : pending.gen = g ~> slot # g
=============================================================================
