---------------------------- MODULE DesktopRequests ----------------------------
(***************************************************************************)
(* File choosers and URLs: the owner-local requests of DesktopServices      *)
(* (src/desktop_services.cpp) and the xdg-desktop-portal backend behind it  *)
(* (src/linux_portal_desktop_services.cpp).                                 *)
(*                                                                          *)
(* A request is held by both.  The backend subscribes to the Response       *)
(* signal of the handle it predicts, calls the portal, and, if the reply    *)
(* names another handle, subscribes to that one instead.  Replies, signals  *)
(* and results reach the UI thread as tasks of the Dispatcher.  Requests    *)
(* are started and cancelled by any of Threads; the two states are guarded  *)
(* by mutexes, which are not held while the bus is called.                  *)
(***************************************************************************)
EXTENDS Naturals, SequencesExt, FiniteSets

CONSTANTS
    Calls,        \* the calls of the services, 1..n, in their order; also the request ids
    Kind,         \* of each call: "chooser" or "url"
    MaxUrls,      \* kDesktopServicesMaxActiveUrls
    Threads, UI,  \* who calls the services; UI runs the Dispatcher
    MaxFaults     \* bound: refused posts, calls that fail, and the loss of the bus

RequestsAssumption ==
    /\ Calls \subseteq Nat /\ Kind \in [Calls -> {"chooser", "url"}]
    /\ MaxUrls \in Nat \ {0} /\ UI \in Threads /\ MaxFaults \in Nat

VARIABLES
    active,       \* Impl::active
    closing,      \* Impl::closing, and the callback gate is shut
    entries,      \* the backend's active: subscription, method request and handle
    op,           \* what each thread is doing
    subs,         \* the bus: live subscriptions, <<call, handle>>
    calling,      \* the bus: method calls without a reply
    connected,
    portal,       \* each call at the portal
    tasks,        \* the Dispatcher
    begun, accepted, outcome, told, confirmed, faults
        \* history: calls made; taken as requests; the terminal result of each; how
        \* often its callback was called; those whose cancel returned true

vars == <<active, closing, entries, op, subs, calling, connected, portal, tasks,
          begun, accepted, outcome, told, confirmed, faults>>

Services == <<active, closing, accepted, outcome>>
Bus      == <<subs, calling, connected, portal>>
History  == <<begun, told, confirmed>>

Handles == {"predicted", "other"}
Idle    == [pc |-> "idle", c |-> 0, code |-> "none", entry |-> [sub |-> "none", method |-> FALSE]]
Doing(pc, c, code) == [Idle EXCEPT !.pc = pc, !.c = c, !.code = code]
With(c) == {t \in Threads : op[t].c = c /\ op[t].pc # "idle"}

Become(t, pc)       == op' = [op EXCEPT ![t].pc = pc]
Return(t)           == op' = [op EXCEPT ![t] = Idle]
Fails(t, code)      == op' = [op EXCEPT ![t] = Doing("failed", op[t].c, code)]
At(t, pc)           == op[t].pc = pc

Init ==
    /\ active = {} /\ closing = FALSE /\ entries = [c \in {} |-> 0]
    /\ op = [t \in Threads |-> Idle]
    /\ subs = {} /\ calling = {} /\ connected = TRUE
    /\ portal = [c \in Calls |-> [handle |-> "none", dialog |-> "unknown"]]
    /\ tasks = <<>>
    /\ begun = {} /\ accepted = {} /\ outcome = [c \in Calls |-> "none"]
    /\ told = [c \in Calls |-> 0] /\ confirmed = {} /\ faults = 0

TypeOK ==
    /\ active \cup accepted \cup confirmed \cup calling \subseteq begun /\ begun \subseteq Calls
    /\ DOMAIN entries \subseteq Calls /\ subs \subseteq Calls \X Handles
    /\ {closing, connected} \subseteq BOOLEAN
    /\ portal \in [Calls -> [handle : Handles \cup {"none"}, dialog : {"unknown", "open", "answered", "closed"}]]
    /\ told \in [Calls -> 0..2] /\ faults \in 0..MaxFaults
    /\ outcome \in [Calls -> {"none", "Result", "Error", "Cancelled", "Busy"}]

Fault     == faults < MaxFaults /\ faults' = faults + 1
Smoothly  == UNCHANGED faults
Drop(f, c) == [d \in DOMAIN f \ {c} |-> f[d]]

\* Dispatcher::post, which may refuse; the task is dropped then.
Posted(ts) == \/ tasks' = tasks \o ts /\ Smoothly
              \/ ts # <<>> /\ tasks' = tasks /\ Fault

Task(kind, c, what) == [kind |-> kind, c |-> c, what |-> what]
Result(c, code)     == <<Task("done", c, code)>>

\* cancel_request: a call without a reply completes as cancelled.
Withdrawn(c) == IF c \in calling THEN <<Task("reply", c, "failed")>> ELSE <<>>
-----------------------------------------------------------------------------
(* Impl: the request is taken, terminal, and its result is posted.          *)

\* Mutant: the request stays active until its callback has been called.
Take_Stays(c, code) ==
    /\ IF c \in active /\ ~closing
       THEN /\ outcome' = [outcome EXCEPT ![c] = code]
            /\ Posted(Withdrawn(c) \o Result(c, code))
       ELSE UNCHANGED outcome /\ Posted(Withdrawn(c))
    /\ UNCHANGED <<active, closing, accepted>>

Take(c, code) ==
    /\ IF c \in active /\ ~closing
       THEN /\ active' = active \ {c} /\ outcome' = [outcome EXCEPT ![c] = code]
            /\ Posted(Withdrawn(c) \o Result(c, code))
       ELSE UNCHANGED <<active, outcome>> /\ Posted(Withdrawn(c))
    /\ UNCHANGED <<closing, accepted>>

OfKind(c) == {d \in active : Kind[d] = Kind[c]}
Free(c)   == Cardinality(OfKind(c)) < IF Kind[c] = "chooser" THEN 1 ELSE MaxUrls

\* open_file and the others, and open_url.
Start(t, c) ==
    /\ At(t, "idle") /\ c \in Calls \ begun /\ (Calls \ begun) \cap 0..(c - 1) = {} /\ ~closing
    /\ begun' = begun \cup {c}
    /\ IF Free(c)
       THEN /\ active' = active \cup {c} /\ accepted' = accepted \cup {c}
            /\ op' = [op EXCEPT ![t] = Doing("subscribe", c, "none")]
            /\ UNCHANGED <<outcome, tasks>> /\ Smoothly
       ELSE /\ outcome' = [outcome EXCEPT ![c] = "Busy"] /\ Posted(Result(c, "Busy"))
            /\ UNCHANGED <<active, accepted, op>>
    /\ UNCHANGED <<closing, entries, Bus, told, confirmed>>

\* The backend's start: the handle is subscribed before the portal knows of it.
Subscribe(t) ==
    /\ At(t, "subscribe")
    /\ \/ connected /\ subs' = subs \cup {<<op[t].c, "predicted">>} /\ Become(t, "register") /\ Smoothly
       \/ subs' = subs /\ Fails(t, "Error") /\ IF connected THEN Fault ELSE Smoothly
    /\ UNCHANGED <<Services, entries, calling, connected, portal, tasks, History>>

Register(t) ==
    /\ At(t, "register")
    /\ LET c == op[t].c IN
       \/ /\ entries' = [d \in DOMAIN entries \cup {c} |->
                           IF d = c THEN [sub |-> "predicted", method |-> FALSE] ELSE entries[d]]
          /\ Become(t, "call") /\ UNCHANGED subs /\ Smoothly
       \/ subs' = subs \ {<<c, "predicted">>} /\ Fails(t, "Error") /\ UNCHANGED entries /\ Fault
    /\ UNCHANGED <<Services, calling, connected, portal, tasks, History>>

\* Mutant: a request whose call failed stays in the backend.
Call_KeepsEntry(t) ==
    /\ At(t, "call")
    /\ LET c == op[t].c IN
       \/ /\ connected /\ calling' = calling \cup {c} /\ Become(t, "store") /\ Smoothly
          /\ \E h \in Handles : portal' = [portal EXCEPT ![c] = [handle |-> h, dialog |-> "open"]]
          /\ UNCHANGED <<entries, subs>>
       \/ /\ Fails(t, "Error") /\ IF connected THEN Fault ELSE Smoothly
          /\ UNCHANGED <<calling, portal, entries, subs>>
    /\ UNCHANGED <<Services, connected, tasks, History>>

\* The call, or discard_without_completion.  The portal chooses its handle.
Call(t) ==
    /\ At(t, "call")
    /\ LET c == op[t].c IN
       \/ /\ connected /\ calling' = calling \cup {c} /\ Become(t, "store") /\ Smoothly
          /\ \E h \in Handles : portal' = [portal EXCEPT ![c] = [handle |-> h, dialog |-> "open"]]
          /\ UNCHANGED <<entries, subs>>
       \/ /\ Fails(t, "Error") /\ IF connected THEN Fault ELSE Smoothly
          /\ IF c \in DOMAIN entries
             THEN subs' = subs \ {<<c, entries[c].sub>>} /\ entries' = Drop(entries, c)
             ELSE UNCHANGED <<subs, entries>>
          /\ UNCHANGED <<calling, portal>>
    /\ UNCHANGED <<Services, connected, tasks, History>>

\* Mutant: the call is left to itself when its request has gone meanwhile.
Store_Forgets(t) ==
    /\ At(t, "store")
    /\ LET c == op[t].c IN
       IF c \in DOMAIN entries
       THEN /\ entries' = [entries EXCEPT ![c].method = TRUE] /\ Return(t)
       ELSE /\ Fails(t, "Cancelled") /\ UNCHANGED entries
    /\ Smoothly
    /\ UNCHANGED <<Services, Bus, tasks, History>>

\* The request may have ended between the call and here.
Store(t) ==
    /\ At(t, "store")
    /\ LET c == op[t].c IN
       IF c \in DOMAIN entries
       THEN /\ entries' = [entries EXCEPT ![c].method = TRUE] /\ Return(t)
            /\ UNCHANGED <<calling, tasks>> /\ Smoothly
       ELSE /\ Fails(t, "Cancelled") /\ calling' = calling \ {c} /\ Posted(Withdrawn(c))
            /\ UNCHANGED entries
    /\ UNCHANGED <<Services, subs, connected, portal, History>>

\* The start failed: the request is terminal, unless it is already.
Failed(t) ==
    /\ At(t, "failed")
    /\ Take(op[t].c, op[t].code) /\ Return(t)
    /\ UNCHANGED <<entries, Bus, History>>
-----------------------------------------------------------------------------
(* The ways a request ends.                                                 *)

\* The backend's entry is taken by whoever ends the request.
TakeEntry(t, c, pc, code) ==
    IF c \in DOMAIN entries
    THEN /\ op' = [op EXCEPT ![t] = [Doing(pc, c, code) EXCEPT !.entry = entries[c]]]
         /\ entries' = Drop(entries, c)
    ELSE Return(t) /\ UNCHANGED entries

\* An id is known to the application once its start has returned it.
Cancel(t, c) ==
    /\ At(t, "idle") /\ ~closing /\ c \in active
    /\ \A u \in With(c) : op[u].pc \notin {"subscribe", "register", "call", "store", "failed"}
    /\ op' = [op EXCEPT ![t] = Doing("cancel", c, "Cancelled")]
    /\ UNCHANGED <<Services, entries, Bus, tasks, History, faults>>

BackendCancel(t) ==
    /\ At(t, "cancel")
    /\ TakeEntry(t, op[t].c, "end", "Cancelled")
    /\ confirmed' = IF op[t].c \in DOMAIN entries THEN confirmed \cup {op[t].c} ELSE confirmed
    /\ UNCHANGED <<Services, Bus, tasks, begun, told, faults>>

\* Mutant: the call is not cancelled with the request.
End_KeepsCall(t) ==
    /\ At(t, "end")
    /\ LET c == op[t].c IN
       /\ subs' = subs \ {<<c, op[t].entry.sub>>}
       /\ IF c \in active /\ ~closing
          THEN /\ active' = active \ {c} /\ outcome' = [outcome EXCEPT ![c] = op[t].code]
               /\ Posted(Result(c, op[t].code))
          ELSE UNCHANGED <<active, outcome, tasks>> /\ Smoothly
    /\ Return(t)
    /\ UNCHANGED <<closing, accepted, entries, calling, connected, portal, History>>

\* Unsubscribe, cancel the call, close the portal's dialog if it was cancelled
\* here, and complete.
End(t) ==
    /\ At(t, "end")
    /\ LET c == op[t].c IN
       /\ subs' = subs \ {<<c, op[t].entry.sub>>}
       /\ IF op[t].entry.method
          THEN calling' = calling \ {c} /\ Take(c, op[t].code)
          ELSE /\ UNCHANGED calling
               /\ IF c \in active /\ ~closing
                  THEN /\ active' = active \ {c} /\ outcome' = [outcome EXCEPT ![c] = op[t].code]
                       /\ Posted(Result(c, op[t].code))
                  ELSE UNCHANGED <<active, outcome, tasks>> /\ Smoothly
               /\ UNCHANGED <<closing, accepted>>
       /\ portal' = IF op[t].code = "Cancelled" /\ portal[c].handle = op[t].entry.sub
                    THEN [portal EXCEPT ![c].dialog = "closed"] ELSE portal
    /\ Return(t)
    /\ UNCHANGED <<entries, connected, History>>
-----------------------------------------------------------------------------
(* The tasks of the UI thread.                                              *)

Next_ == Head(tasks)
Runs(kind) == At(UI, "idle") /\ tasks # <<>> /\ Next_.kind = kind /\ tasks' = Tail(tasks)

\* initial_reply, up to the second subscription; with an error, finish.
Reply ==
    /\ Runs("reply")
    /\ LET c == Next_.c IN
       CASE c \notin DOMAIN entries \/ closing -> UNCHANGED <<op, entries>>
         [] c \in DOMAIN entries /\ ~closing /\ Next_.what = "failed" ->
                TakeEntry(UI, c, "end", "Error")
         [] OTHER -> /\ entries' = [entries EXCEPT ![c].method = FALSE]
                     /\ IF entries[c].sub = Next_.what THEN UNCHANGED op
                        ELSE op' = [op EXCEPT ![UI] = Doing("subscribe2", c, Next_.what)]
    /\ UNCHANGED <<Services, Bus, History, faults>>

Subscribe2 ==
    /\ At(UI, "subscribe2")
    /\ LET c == op[UI].c IN
       \/ /\ connected /\ subs' = subs \cup {<<c, op[UI].code>>} /\ Become(UI, "install")
          /\ Smoothly /\ UNCHANGED entries
       \/ /\ TakeEntry(UI, c, "end", "Error") /\ subs' = subs
          /\ IF connected THEN Fault ELSE Smoothly
    /\ UNCHANGED <<Services, calling, connected, portal, tasks, History>>

\* Mutant: the replacement is kept although the request has gone.
Install_Always ==
    /\ At(UI, "install")
    /\ LET c == op[UI].c IN
       IF c \in DOMAIN entries
       THEN /\ subs' = subs \ {<<c, "predicted">>}
            /\ entries' = [entries EXCEPT ![c].sub = op[UI].code]
       ELSE UNCHANGED <<subs, entries>>
    /\ Return(UI)
    /\ UNCHANGED <<Services, calling, connected, portal, tasks, History, faults>>

Install ==
    /\ At(UI, "install")
    /\ LET c == op[UI].c IN
       IF c \in DOMAIN entries
       THEN /\ subs' = subs \ {<<c, "predicted">>}
            /\ entries' = [entries EXCEPT ![c].sub = op[UI].code]
       ELSE subs' = subs \ {<<c, op[UI].code>>} /\ UNCHANGED entries
    /\ Return(UI)
    /\ UNCHANGED <<Services, calling, connected, portal, tasks, History, faults>>

\* The signal's task, of a subscription that may have gone; finish.
Response ==
    /\ Runs("response")
    /\ IF <<Next_.c, Next_.what>> \in subs /\ ~closing
       THEN TakeEntry(UI, Next_.c, "end", "Result")
       ELSE UNCHANGED <<op, entries>>
    /\ UNCHANGED <<Services, Bus, History, faults>>

\* The application's callback, behind the gate.
Done ==
    /\ Runs("done")
    /\ told' = IF closing THEN told ELSE [told EXCEPT ![Next_.c] = @ + 1]
    /\ UNCHANGED <<Services, entries, op, Bus, begun, confirmed, faults>>

\* The services are destroyed, with no call of theirs in progress: every request
\* is cancelled at the backend, which goes with them.
Destroy ==
    /\ ~closing /\ \A t \in Threads : At(t, "idle")
    /\ closing' = TRUE /\ active' = {}
    /\ entries' = [c \in {} |-> 0]
    /\ subs' = subs \ {<<c, entries[c].sub>> : c \in DOMAIN entries}
    /\ calling' = calling \ {c \in DOMAIN entries : entries[c].method}
    /\ portal' = [c \in Calls |-> IF c \in DOMAIN entries /\ portal[c].handle = entries[c].sub
                                  THEN [portal[c] EXCEPT !.dialog = "closed"] ELSE portal[c]]
    /\ UNCHANGED <<accepted, outcome, op, connected, tasks, History, faults>>
-----------------------------------------------------------------------------
(* The portal and the bus.                                                  *)

\* The reply, an error or the timeout of the method call.
PortalReplies(c, what) ==
    /\ connected /\ c \in calling /\ calling' = calling \ {c}
    /\ what \in {portal[c].handle, "failed"}
    /\ Posted(<<Task("reply", c, what)>>)
    /\ UNCHANGED <<Services, entries, op, subs, connected, portal, History>>

\* The user answers the dialog: the signal is posted to those who subscribed.
PortalResponds(c) ==
    /\ connected /\ portal[c].dialog = "open"
    /\ \/ /\ <<c, portal[c].handle>> \in subs /\ Smoothly
          /\ tasks' = Append(tasks, Task("response", c, portal[c].handle))
          /\ portal' = [portal EXCEPT ![c].dialog = "answered"]
       \/ /\ IF <<c, portal[c].handle>> \in subs THEN Fault ELSE Smoothly
          /\ portal' = [portal EXCEPT ![c].dialog = "closed"] /\ UNCHANGED tasks
    /\ UNCHANGED <<Services, entries, op, subs, calling, connected, History>>

\* The connection is lost: calls without a reply fail, subscriptions are silent.
BusLost ==
    /\ connected /\ connected' = FALSE /\ Fault
    /\ tasks' = tasks \o SetToSeq({Task("reply", c, "failed") : c \in calling})
    /\ calling' = {}
    /\ UNCHANGED <<Services, entries, op, subs, portal, History>>
-----------------------------------------------------------------------------
Goes(t) == \/ Subscribe(t) \/ Register(t) \/ Call(t) \/ Store(t) \/ Failed(t)
           \/ BackendCancel(t) \/ End(t)
Replaces == Subscribe2 \/ Install
RunsTask == Reply \/ Response \/ Done

Next ==
    \/ \E t \in Threads : Goes(t) \/ \E c \in Calls : Start(t, c) \/ Cancel(t, c)
    \/ Replaces \/ RunsTask \/ Destroy
    \/ \E c \in Calls : PortalResponds(c) \/ \E what \in Handles \cup {"failed"} : PortalReplies(c, what)
    \/ BusLost

\* Calls return and the Dispatcher runs its tasks.
Fairness ==
    /\ WF_vars(Goes(UI) \/ Replaces)
    /\ \A t \in Threads \ {UI} : WF_vars(Goes(t))
    /\ SF_vars(RunsTask)

Spec == Init /\ [][Next]_vars /\ Fairness
-----------------------------------------------------------------------------
\* Whoever ends a request, at whatever moment, nothing of it stays on the bus: a
\* subscription is the one of a request the backend has, or in the hands of an
\* operation, and so is a call without a reply.
BusHoldsNothingElse ==
    /\ \A s \in subs : \/ s[1] \in DOMAIN entries /\ entries[s[1]].sub = s[2]
                       \/ With(s[1]) # {}
    /\ calling \subseteq DOMAIN entries \cup {c \in Calls : With(c) # {}}

\* The services and their backend agree, when nobody is working on it, whether
\* a request is active: no chooser stays busy that can be neither answered nor
\* cancelled, and none is answered that the services forgot.
BothHoldTheRequest ==
    \A c \in Calls : With(c) = {} => (c \in active <=> c \in DOMAIN entries)

\* Cancel returns true to the one that cancelled the request.
CancelTellsTheTruth ==
    \A c \in confirmed : outcome[c] = "Cancelled" \/ c \in active \/ closing

\* A request is settled once, its callback called at most once and only then, and
\* never after the services were destroyed.
Contract == INSTANCE RequestContract WITH
    Requests <- Calls, Clients <- {"services"}, Nobody <- "nobody",
    owner <- [c \in Calls |-> IF c \in accepted THEN "services" ELSE "nobody"],
    settled <- {c \in accepted : outcome[c] # "none"},
    admitted <- {},
    told <- {c \in accepted : told[c] > 0},
    left <- IF closing THEN {"services"} ELSE {}

ImplementsRequestContract == Contract!ContractSpec

CalledOnce == \A c \in Calls : told[c] <= 1

\* A response that was posted while the request listens to its handle ends the
\* request, whatever replies, replacements and cancellations go on meanwhile.
Answered(c) == portal[c].dialog = "answered" /\ c \in active

ResponsesSettle == \A c \in Calls : Answered(c) ~> ~Answered(c)
=============================================================================
