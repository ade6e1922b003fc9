----------------------------- MODULE EditSession -----------------------------
(***************************************************************************)
(* EditSession over a State (include/nativeui/edit.hpp).  The callbacks     *)
(* begin, change, end and cancel and the observers of the State are user    *)
(* code: they call the session again, write and destroy the State, destroy  *)
(* the session's owner and throw.                                           *)
(*                                                                          *)
(* Of the State the session sees whether it is valid, whether it is busy    *)
(* (delivering a notification, or inside a guarded read), and its value;    *)
(* module ObservableState has the rest.  A missing callback is one that     *)
(* does nothing.                                                            *)
(***************************************************************************)
CONSTANT Values

VARIABLES
    active, terminal, alive,  \* Control
    phase,   \* the user code the session has called: "idle", "begin",
             \* "observe", "change", "end" or "cancel"
    rest,    \* what the operation still does when that returns
    previous,\* the value update found
    value,   \* of the State
    valid,   \* the State exists
    busy,    \* the State is busy outside update: its observers run
    heard,   \* history: the last notification
    spoiled  \* history: this interaction has to end in a cancel

control == <<active, terminal, alive>>
model   == <<value, valid, busy>>
vars    == <<control, phase, rest, previous, model, heard, spoiled>>

\* rest: nothing; begin's own check; set goes on with update; finish and set
\* end the interaction.
Rests == {[then |-> "nothing"], [then |-> "check"], [then |-> "end"]}
            \cup {[then |-> "update", with |-> v] : v \in Values}

Nothing == [then |-> "nothing"]

TypeOK ==
    /\ active \in BOOLEAN /\ alive \in BOOLEAN
    /\ terminal \in {"none", "end", "cancel"}
    /\ phase \in {"idle", "begin", "observe", "change", "end", "cancel"}
    /\ rest \in Rests
    /\ previous \in Values /\ value \in Values
    /\ valid \in BOOLEAN /\ busy \in BOOLEAN
    /\ heard \in {"none", "begin", "change", "end", "cancel"} /\ spoiled \in BOOLEAN

Init ==
    /\ active = FALSE /\ terminal = "none" /\ alive = TRUE
    /\ phase = "idle" /\ rest = Nothing
    /\ previous \in Values /\ value = previous
    /\ valid = TRUE /\ busy = FALSE
    /\ heard = "none" /\ spoiled = FALSE
-----------------------------------------------------------------------------
\* control->dispatching; the State's own flags.
Dispatching == phase # "idle"
StateBusy   == busy \/ phase = "observe"

\* An operation has been called and user code is not on its stack.
Running == ~Dispatching /\ rest # Nothing

\* User code can call the session: it runs outside, or in what was called.
UserCode == ~Running

\* Mutant: the last request wins.
Wanted_Latest(t) == IF ~valid THEN "cancel" ELSE t

\* terminate's choice: cancel wins over end, and an invalid State cancels.
Wanted(t) == IF terminal = "cancel" \/ t = "cancel" \/ ~valid THEN "cancel" ELSE t

\* flush_terminal with terminal t: the session is over before the callback runs.
Notify(t) ==
    /\ terminal' = "none" /\ active' = FALSE
    /\ phase' = t /\ heard' = t

\* terminate: at once, or when the notification under way has returned.
Terminate(t) ==
    IF Dispatching
    THEN /\ terminal' = Wanted(t)
         /\ spoiled' = (spoiled \/ Wanted(t) = "cancel")
         /\ UNCHANGED <<active, phase, heard>>
    ELSE /\ Notify(Wanted(t))
         /\ spoiled' = (spoiled \/ Wanted(t) = "cancel")
-----------------------------------------------------------------------------
(***************************************************************************)
(* Calls of the session.                                                    *)
(***************************************************************************)
\* begin(source), and the first half of set(value, source).
Begin(then) ==
    /\ UserCode /\ alive /\ valid /\ ~StateBusy /\ ~active /\ ~Dispatching
    /\ active' = TRUE
    /\ phase' = "begin" /\ heard' = "begin" /\ spoiled' = FALSE
    /\ rest' = then
    /\ UNCHANGED <<terminal, alive, previous, model>>

Set(v) == v # value /\ Begin([then |-> "update", with |-> v])

\* update(v), after which the operation does then.
UpdateControl(v, then) ==
    IF ~valid
    THEN /\ Terminate("cancel")
         /\ rest' = then
         /\ UNCHANGED <<alive, previous, model>>
    ELSE /\ previous' = value
         /\ value' = v
         /\ phase' = IF v = value THEN "idle" ELSE "observe"
         /\ rest' = then
         /\ UNCHANGED <<control, valid, busy, heard, spoiled>>

Updatable == alive /\ active /\ ~Dispatching /\ ~StateBusy

Update(v) == UserCode /\ Updatable /\ UpdateControl(v, Nothing)

Finish(v) ==
    /\ UserCode /\ alive /\ ~Dispatching /\ active
    /\ IF Updatable
       THEN UpdateControl(v, [then |-> "end"])
       ELSE /\ Terminate("end")
            /\ UNCHANGED <<alive, rest, previous, model>>

\* end() and cancel()
Stop(t) ==
    /\ UserCode /\ alive /\ active
    /\ Terminate(t)
    /\ UNCHANGED <<alive, rest, previous, model>>

\* The destructor
Destroy ==
    /\ UserCode /\ alive
    /\ alive' = FALSE
    /\ IF active THEN Terminate("cancel") ELSE UNCHANGED <<active, terminal, phase, heard, spoiled>>
    /\ UNCHANGED <<rest, previous, model>>
-----------------------------------------------------------------------------
(***************************************************************************)
(* User code returns or throws.                                             *)
(***************************************************************************)
\* notify after its callback: a deferred terminal comes now.
Notified ==
    IF terminal # "none"
    THEN Notify(terminal) /\ UNCHANGED spoiled
    ELSE phase' = "idle" /\ UNCHANGED <<active, terminal, heard, spoiled>>

\* Mutant: a terminal that was deferred is forgotten.
CallbackReturns_Forgets ==
    /\ phase \in {"begin", "change"} /\ ~busy
    /\ phase' = "idle"
    /\ UNCHANGED <<control, rest, previous, model, heard, spoiled>>

\* begin or change returns.
CallbackReturns ==
    /\ phase \in {"begin", "change"} /\ ~busy
    /\ Notified
    /\ UNCHANGED <<alive, rest, previous, model>>

\* State::set returns to update: the State may be gone or hold another value.
ObserversReturn ==
    LET ending == IF valid THEN terminal ELSE "cancel" IN
    /\ phase = "observe"
    /\ IF value # previous /\ alive /\ valid
       THEN /\ phase' = "change" /\ heard' = "change"
            /\ UNCHANGED <<active, terminal, spoiled>>
       ELSE IF ending # "none"
       THEN /\ Notify(ending)
            /\ spoiled' = (spoiled \/ ending = "cancel")
       ELSE /\ phase' = "idle"
            /\ UNCHANGED <<active, terminal, heard, spoiled>>
    /\ UNCHANGED <<alive, rest, previous, model>>

\* Mutant: the exception just leaves.
Throws_Uncancelled ==
    /\ phase \in {"begin", "observe", "change"} /\ ~busy
    /\ phase' = "idle" /\ rest' = Nothing
    /\ UNCHANGED <<control, previous, model, heard, spoiled>>

\* begin, change or an observer throws: cancel once, then rethrow.
Throws ==
    /\ phase \in {"begin", "observe", "change"} /\ ~busy
    /\ Notify("cancel") /\ spoiled' = TRUE
    /\ rest' = Nothing
    /\ UNCHANGED <<alive, previous, model>>

\* A terminal callback returns or throws: it is not called again.
TerminalReturns ==
    /\ phase \in {"end", "cancel"} /\ ~busy
    /\ phase' = "idle"
    /\ rest' \in {rest, Nothing}
    /\ UNCHANGED <<control, previous, model, heard, spoiled>>

\* Mutant: begin does not look whether the State is still there.
GoesOn_Trusting ==
    /\ Running
    /\ IF active /\ rest.then = "end"
       THEN /\ Terminate("end")
            /\ rest' = Nothing
            /\ UNCHANGED <<alive, previous, model>>
       ELSE IF active /\ rest.then = "update"
       THEN UpdateControl(rest.with, [then |-> "end"])
       ELSE /\ rest' = Nothing
            /\ UNCHANGED <<control, phase, previous, model, heard, spoiled>>

\* The operation goes on where its callback was called.
GoesOn ==
    /\ Running
    /\ IF active /\ ((rest.then # "end" /\ ~valid) \/ rest.then = "end")
       THEN /\ Terminate("end")
            /\ rest' = Nothing
            /\ UNCHANGED <<alive, previous, model>>
       ELSE IF active /\ alive /\ rest.then = "update"
       THEN UpdateControl(rest.with, [then |-> "end"])
       ELSE /\ rest' = Nothing
            /\ UNCHANGED <<control, phase, previous, model, heard, spoiled>>
-----------------------------------------------------------------------------
(***************************************************************************)
(* The State.                                                               *)
(***************************************************************************)
\* Somebody writes it, or reads it under guard; observers write it again.
StateBusyBegins ==
    /\ UserCode /\ valid /\ ~StateBusy
    /\ busy' = TRUE
    /\ value' \in Values
    /\ UNCHANGED <<control, phase, rest, previous, valid, heard, spoiled>>

StateBusyEnds ==
    /\ UserCode /\ busy
    /\ busy' = FALSE
    /\ UNCHANGED <<control, phase, rest, previous, value, valid, heard, spoiled>>

ObserverWrites ==
    /\ UserCode /\ StateBusy /\ valid
    /\ value' \in Values
    /\ UNCHANGED <<control, phase, rest, previous, valid, busy, heard, spoiled>>

DestroyState ==
    /\ UserCode /\ valid
    /\ valid' = FALSE
    /\ UNCHANGED <<control, phase, rest, previous, value, busy, heard, spoiled>>
-----------------------------------------------------------------------------
Returns == CallbackReturns \/ ObserversReturn \/ Throws \/ TerminalReturns

Next ==
    \/ Begin([then |-> "check"])
    \/ \E v \in Values : Set(v) \/ Update(v) \/ Finish(v)
    \/ \E t \in {"end", "cancel"} : Stop(t)
    \/ Destroy
    \/ Returns \/ GoesOn
    \/ StateBusyBegins \/ StateBusyEnds \/ ObserverWrites \/ DestroyState

Spec == Init /\ [][Next]_vars

\* User code returns, whatever it does before, and an operation that can go on
\* does.
FairSpec == Spec /\ SF_vars(Returns) /\ WF_vars(StateBusyEnds) /\ WF_vars(GoesOn)
-----------------------------------------------------------------------------
\* No terminal notification is left pending once nothing is on the stack, and
\* nobody is left in an interaction that the callbacks think is over.
RestsSettled ==
    phase = "idle" => /\ terminal = "none"
                      /\ active <=> heard \in {"begin", "change"}

\* Each begun interaction of a destroyed owner is over when the callbacks that
\* were on the stack have returned.
DestroyedIsOver == ~alive /\ phase = "idle" => ~active

\* begin and set return to their caller with an interaction over a live State,
\* or none: "the interaction" they report is never one that cannot be updated.
BeginReportsTruth ==
    [][rest.then = "check" /\ rest' = Nothing /\ phase' = "idle" => (active' => valid)]_vars

Contract == INSTANCE EditContract

ImplementsEditContract == Contract!Spec

\* An interaction that is asked to end, or whose owner is destroyed, does.
Ending == active /\ terminal # "none"

RequestedIsNotified == Ending ~> ~active
=============================================================================
