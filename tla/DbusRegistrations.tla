-------------------------- MODULE DbusRegistrations --------------------------
(***************************************************************************)
(* Signal subscriptions, object paths and teardown of the Linux D-Bus       *)
(* client.  Client threads and object-path handlers, which run on the I/O   *)
(* thread, call the surface (src/linux_dbus_client_operations.cpp); a       *)
(* handler may call anything, "an in-flight object-path handler is          *)
(* user/client code and may re-enter this surface".                         *)
(*                                                                          *)
(* subscribe_signal waits for the I/O thread with both the surface mutex    *)
(* and the lifecycle mutex held.  Every other section under one of the two  *)
(* is one step; an operation that leaves them and comes back is one step    *)
(* per section.                                                             *)
(***************************************************************************)
EXTENDS FiniteSets

CONSTANTS
    Threads,        \* client threads
    Clients,
    Subs,           \* subscription ids
    Paths,          \* object-path ids
    OwnerOf,        \* the client each of them belongs to
    RunsOn,         \* the thread that runs the dispatcher of each subscription
    Stubborn        \* the paths libdbus may refuse to unregister

ASSUME OwnerAssumption == OwnerOf \in [Subs \cup Paths -> Clients]
ASSUME ThreadsAssumption == "io" \notin Threads
ASSUME DispatchersAssumption == RunsOn \in [Subs -> Threads]
ASSUME LibdbusAssumption == Stubborn \subseteq Paths
ASSUME IdsAssumption == Subs \cap Paths = {} /\ "nobody" \notin Clients \cup Subs \cup Paths

VARIABLES
    closing,    \* closing_ of the surface
    members,    \* clients_ of the surface
    table,      \* object_paths_ of the surface
    conn,       \* whether the connection exists
    stopping,   \* stop() has taken the I/O thread over
    handle,     \* io_thread: "held" by the transport or "moved" out by stop()
    stopReq,    \* stop_requested
    loop,       \* the I/O loop: "run" or "done"
    signals,    \* the subscriptions in the signal table
    active,     \* those that are active
    rules,      \* the match rules the bus has
    filter,     \* signal_filter_installed
    cmd,        \* the setup command of each subscription until its result was seen
    cancelled,  \* commands whose subscriber has given up
    posted,     \* signal deliveries in the dispatchers
    begun,      \* deliveries whose task has seen an active subscription, not yet called back
    paths,      \* the registered object paths
    live,       \* those whose entry is active
    inFlight,   \* paths with a handler running
    slots,      \* the ledger: subscriptions and paths
    used,       \* ids that have been given out
    io,         \* the I/O thread: idle, or at an invocation
    op,         \* the operation of every thread
    quiet,      \* history: subscriptions whose end their dispatcher's thread has seen
    released,   \* history: clients whose release has returned
    silenced,   \* history: paths whose unregistration was awaited
    disturbed   \* history: clients whose release met a failing unregister

vars == <<closing, members, table, conn, stopping, handle, stopReq, loop, signals, active,
          rules, filter, cmd, cancelled, posted, begun, paths, live, inFlight, slots, used, io,
          op, quiet, released, silenced, disturbed>>

Actors == Threads \cup {"io"}
Ids    == Subs \cup Paths
Nobody == "nobody"

\* An operation: what for, at which step, about which client, id and clients to do.
Idle == [kind |-> "none", step |-> "none", client |-> Nobody, id |-> Nobody, todo |-> {}]
Steps == {"none", "wait", "raw", "idle", "restore", "subs", "unsub", "paths", "next",
          "halt", "join"}
Operations == [kind : {"none", "call", "subscribe", "unregister", "release", "stop"},
               step : Steps, client : Clients \cup {Nobody}, id : Ids \cup {Nobody},
               todo : SUBSET Clients]

TypeOK ==
    /\ {closing, conn, stopping, stopReq, filter} \subseteq BOOLEAN
    /\ handle \in {"held", "moved"} /\ loop \in {"run", "done"}
    /\ members \subseteq Clients /\ released \subseteq Clients /\ disturbed \subseteq Clients
    /\ table \subseteq Paths /\ paths \subseteq Paths /\ live \subseteq Paths
    /\ inFlight = (IF io.at = "handler" THEN {io.path} ELSE {})
    /\ silenced \subseteq Paths
    /\ signals \subseteq Subs /\ active \subseteq Subs /\ rules \subseteq Subs
    /\ posted \subseteq Subs /\ begun \subseteq Subs /\ cancelled \subseteq Subs
    /\ quiet \subseteq Subs
    /\ cmd \in [Subs -> {"none", "queued", "installed", "failed", "ready", "refused"}]
    /\ slots \subseteq Ids /\ used \subseteq Ids
    /\ io \in [at : {"idle", "found", "handler"}, path : Paths \cup {Nobody}]
    /\ op \in [Actors -> Operations]

Init ==
    /\ closing = FALSE /\ members = Clients /\ table = {}
    /\ conn = TRUE /\ stopping = FALSE /\ handle = "held" /\ stopReq = FALSE /\ loop = "run"
    /\ signals = {} /\ active = {} /\ rules = {} /\ filter = FALSE
    /\ cmd = [s \in Subs |-> "none"] /\ cancelled = {}
    /\ posted = {} /\ begun = {} /\ quiet = {}
    /\ paths = {} /\ live = {} /\ inFlight = {} /\ slots = {} /\ used = {}
    /\ io = [at |-> "idle", path |-> Nobody]
    /\ op = [a \in Actors |-> Idle]
    /\ released = {} /\ silenced = {} /\ disturbed = {}

lifeVars    == <<conn, stopping, handle, stopReq, loop>>
surfaceVars == <<closing, members, table>>
signalVars  == <<signals, active, rules, filter, cmd, cancelled, posted, begun>>
pathVars    == <<paths, live, inFlight>>
historyVars == <<quiet, released, silenced, disturbed>>

Owned(c, S) == {x \in S : OwnerOf[x] = c}

\* Nobody waits in subscribe_signal, so both mutexes are free.
LocksFree == \A a \in Actors : op[a].kind # "subscribe"

\* Thread a is in a task of its dispatcher, between the test and the callback.
InTask(a) == \E s \in begun : RunsOn[s] = a

\* Actor a may start an operation.  A handler first decides to call the surface,
\* and then waits for its mutex.
CanCall(a) == IF a = "io" THEN op[a].kind = "call" ELSE op[a] = Idle /\ ~InTask(a)

\* The operation of a begins, goes on to another step, does so with id i in hand,
\* or is over.
Begins(a, k, st, c, i, t) ==
    op' = [op EXCEPT ![a] = [kind |-> k, step |-> st, client |-> c, id |-> i, todo |-> t]]
GoesTo(a, st)      == op' = [op EXCEPT ![a].step = st]
GoesWith(a, st, i) == op' = [op EXCEPT ![a].step = st, ![a].id = i]
Returns(a)         == op' = [op EXCEPT ![a] = Idle]

\* Actor a learns that the subscriptions S have ended.
Hears(a, S) == quiet' = quiet \cup {s \in S : RunsOn[s] = a}

\* The checks of the transport before it accepts anything.
Accepting == conn /\ ~stopping /\ loop = "run" /\ ~stopReq

\* io_thread.get_id() == this_thread::get_id()
SeenAsIo(a) == a = "io" /\ handle = "held"
-----------------------------------------------------------------------------
(***************************************************************************)
(* Subscriptions.                                                           *)
(***************************************************************************)
\* Mutant: a failed subscription keeps its slot.
Undo_KeepsSlot(s) ==
    /\ signals' = signals \ {s}
    /\ filter' = (filter /\ signals # {s})
    /\ UNCHANGED slots

\* Erase a subscription that could not be set up; the filter goes with the
\* last one.
Undo(s) ==
    /\ signals' = signals \ {s}
    /\ filter' = (filter /\ signals # {s})
    /\ slots' = slots \ {s}

Subscribe(a, s) ==
    /\ CanCall(a) /\ LocksFree
    /\ ~closing /\ OwnerOf[s] \in members /\ Accepting /\ s \notin used
    /\ used' = used \cup {s}
    /\ \/ /\ a # "io"                       \* ask the I/O thread and wait
          /\ slots' = slots \cup {s}
          /\ signals' = signals \cup {s}
          /\ filter' = TRUE
          /\ cmd' = [cmd EXCEPT ![s] = "queued"]
          /\ Begins(a, "subscribe", "wait", Nobody, s, {})
          /\ UNCHANGED <<active, rules>>
       \/ /\ a = "io"                       \* install at once
          /\ slots' = slots \cup {s}
          /\ signals' = signals \cup {s}
          /\ filter' = TRUE
          /\ active' = active \cup {s}
          /\ rules' = rules \cup {s}
          /\ Returns(a)
          /\ UNCHANGED cmd
    /\ UNCHANGED <<surfaceVars, lifeVars, cancelled, posted, begun, pathVars, io, historyVars>>

\* The command is done with: the subscriber has seen its result.
Discards(s) == cmd' = [cmd EXCEPT ![s] = "none"] /\ UNCHANGED cancelled

\* Mutant: the subscriber waits for the I/O thread without a limit.
SubscribeEnds_NoTimeout(a) ==
    LET s == op[a].id IN
    /\ op[a].kind = "subscribe" /\ Discards(s)
    /\ \/ /\ cmd[s] = "ready"
          /\ UNCHANGED <<signals, filter, slots, quiet>>
       \/ /\ cmd[s] = "refused"
          /\ Undo(s) /\ Hears(a, {s})
    /\ Returns(a)
    /\ UNCHANGED <<surfaceVars, lifeVars, active, rules, posted, begun, pathVars, used, io,
                   released, silenced, disturbed>>

\* The subscriber is told, or has waited 1.5 s.
SubscribeEnds(a) ==
    LET s == op[a].id IN
    /\ op[a].kind = "subscribe"
    /\ \/ /\ cmd[s] = "ready" /\ Discards(s)
          /\ UNCHANGED <<signals, filter, slots, quiet>>
       \/ /\ cmd[s] = "refused" /\ Discards(s)
          /\ Undo(s) /\ Hears(a, {s})
       \/ /\ cmd[s] \notin {"ready", "refused"}
          /\ Undo(s) /\ Hears(a, {s})
          /\ cancelled' = cancelled \cup {s}
          /\ UNCHANGED cmd
    /\ Returns(a)
    /\ UNCHANGED <<surfaceVars, lifeVars, active, rules, posted, begun, pathVars, used, io,
                   released, silenced, disturbed>>

\* The I/O thread installs the rule of a command, then looks again whether the
\* subscriber still waits.  An AddMatch that fails or runs into its own time-out
\* counts as no rule at the bus.
Install(s) ==
    /\ loop = "run" /\ io.at = "idle" /\ cmd[s] = "queued"
    /\ \A q \in Subs : cmd[q] \notin {"installed", "failed"}
    /\ \/ /\ cmd' = [cmd EXCEPT ![s] = "failed"]
          /\ UNCHANGED rules
       \/ /\ s \notin cancelled /\ ~stopReq
          /\ cmd' = [cmd EXCEPT ![s] = "installed"]
          /\ rules' = rules \cup {s}
    /\ UNCHANGED <<surfaceVars, lifeVars, signals, active, filter, cancelled, posted, begun, pathVars,
                   slots, used, io, op, historyVars>>

\* Mutant: the I/O thread does not look again whether the subscriber waits.
Conclude_Blindly(s) ==
    LET success == cmd[s] = "installed" IN
    /\ cmd[s] \in {"installed", "failed"}
    /\ cmd' = [cmd EXCEPT ![s] = IF success THEN "ready" ELSE "refused"]
    /\ active' = IF success THEN active \cup {s} ELSE active
    /\ UNCHANGED <<surfaceVars, lifeVars, signals, rules, filter, cancelled, posted, begun, pathVars,
                   slots, used, io, op, historyVars>>

Conclude(s) ==
    LET success == cmd[s] = "installed" /\ s \notin cancelled IN
    /\ cmd[s] \in {"installed", "failed"}
    /\ cmd' = [cmd EXCEPT ![s] = IF success THEN "ready" ELSE "refused"]
    /\ active' = IF success THEN active \cup {s} ELSE active
    /\ rules' = IF success THEN rules ELSE rules \ {s}
    /\ UNCHANGED <<surfaceVars, lifeVars, signals, filter, cancelled, posted, begun, pathVars, slots,
                   used, io, op, historyVars>>

\* unsubscribe_signal of the transport: whether it finds the subscription,
\* and what it does then.  Its slot is given back in the same step; in the code
\* that follows once the lock is gone.
Unsubscribable(s) == conn /\ ~stopping /\ s \in signals

\* Mutant: the subscription is erased but stays active.
DropSignal_StaysActive(s) ==
    /\ signals' = signals \ {s}
    /\ filter' = (filter /\ signals # {s})
    /\ rules' = rules \ {s}
    /\ slots' = slots \ {s}
    /\ UNCHANGED active

DropSignal(s) ==
    /\ active' = active \ {s}
    /\ signals' = signals \ {s}
    /\ filter' = (filter /\ signals # {s})
    /\ rules' = rules \ {s}
    /\ slots' = slots \ {s}

Unsubscribe(a, s) ==
    /\ CanCall(a) /\ LocksFree
    /\ ~closing /\ OwnerOf[s] \in members /\ Unsubscribable(s)
    /\ DropSignal(s) /\ Hears(a, {s})
    /\ Returns(a)
    /\ UNCHANGED <<surfaceVars, lifeVars, cmd, cancelled, posted, begun, pathVars, used, io,
                   released, silenced, disturbed>>

\* A signal arrives and is posted to the dispatcher of a subscription; the
\* task looks at the subscription again when it runs.
SignalArrives(s) ==
    /\ loop = "run" /\ io.at = "idle" /\ filter
    /\ s \in signals \cap active
    /\ posted' = posted \cup {s}
    /\ UNCHANGED <<surfaceVars, lifeVars, signals, active, rules, filter, cmd, cancelled, begun,
                   pathVars, slots, used, io, op, historyVars>>

\* The thread of the dispatcher, which runs one task at a time, takes up a delivery
\* and looks whether the subscription is still active.
RunDelivery(s) ==
    /\ s \in posted
    /\ op[RunsOn[s]] = Idle /\ ~InTask(RunsOn[s])
    /\ posted' = posted \ {s}
    /\ begun' = IF s \in active THEN begun \cup {s} ELSE begun
    /\ UNCHANGED <<surfaceVars, lifeVars, signals, active, rules, filter, cmd, cancelled,
                   pathVars, slots, used, io, op, historyVars>>

\* It holds no lock before it calls back: whatever other threads do in the
\* meantime, the callback starts.
StartDelivery(s) ==
    /\ s \in begun
    /\ begun' = begun \ {s}
    /\ UNCHANGED <<surfaceVars, lifeVars, signals, active, rules, filter, cmd, cancelled, posted,
                   pathVars, slots, used, io, op, historyVars>>
-----------------------------------------------------------------------------
(***************************************************************************)
(* Object paths.                                                            *)
(***************************************************************************)
Register(a, p) ==
    /\ CanCall(a) /\ LocksFree
    /\ ~closing /\ OwnerOf[p] \in members /\ Accepting /\ p \notin used
    /\ used' = used \cup {p}
    /\ slots' = slots \cup {p}
    /\ paths' = paths \cup {p}
    /\ live' = live \cup {p}
    /\ table' = table \cup {p}
    /\ Returns(a)
    /\ UNCHANGED <<closing, members, lifeVars, signalVars, inFlight, io, historyVars>>

\* A method call arrives: the entry is looked up, then entered if it is still
\* active.
FindPath(p) ==
    /\ loop = "run" /\ io.at = "idle" /\ p \in paths
    /\ \A s \in Subs : cmd[s] \notin {"installed", "failed"}
    /\ io' = [at |-> "found", path |-> p]
    /\ UNCHANGED <<surfaceVars, lifeVars, signalVars, pathVars, slots, used, op, historyVars>>

\* Mutant: the entry found is entered without asking whether it is active.
EnterHandler_Unchecked ==
    /\ io.at = "found"
    /\ inFlight' = inFlight \cup {io.path}
    /\ io' = [io EXCEPT !.at = "handler"]
    /\ UNCHANGED <<surfaceVars, lifeVars, signalVars, paths, live, slots, used, op, historyVars>>

EnterHandler ==
    /\ io.at = "found"
    /\ IF io.path \in live
       THEN /\ inFlight' = inFlight \cup {io.path}
            /\ io' = [io EXCEPT !.at = "handler"]
       ELSE /\ io' = [at |-> "idle", path |-> Nobody]
            /\ UNCHANGED inFlight
    /\ UNCHANGED <<surfaceVars, lifeVars, signalVars, paths, live, slots, used, op, historyVars>>

HandlerCalls ==
    /\ io.at = "handler" /\ op["io"] = Idle
    /\ Begins("io", "call", "none", Nobody, Nobody, {})
    /\ UNCHANGED <<surfaceVars, lifeVars, signalVars, pathVars, slots, used, io, historyVars>>

\* The surface refuses the call, or it changes nothing.
CallRefused ==
    /\ op["io"].kind = "call" /\ LocksFree
    /\ Returns("io")
    /\ UNCHANGED <<surfaceVars, lifeVars, signalVars, pathVars, slots, used, io, historyVars>>

\* Mutant: a handler that throws leaves in_flight raised.
HandlerReturns_Throwing ==
    /\ io.at = "handler" /\ op["io"] = Idle
    /\ io' = [at |-> "idle", path |-> Nobody]
    /\ UNCHANGED <<surfaceVars, lifeVars, signalVars, pathVars, slots, used, op, historyVars>>

HandlerReturns ==
    /\ io.at = "handler" /\ op["io"] = Idle
    /\ inFlight' = inFlight \ {io.path}
    /\ io' = [at |-> "idle", path |-> Nobody]
    /\ UNCHANGED <<surfaceVars, lifeVars, signalVars, paths, live, slots, used, op, historyVars>>

\* unregister_object_path of the surface forgets the path, then asks the
\* transport without the mutex.
Unregister(a, p) ==
    /\ CanCall(a) /\ LocksFree
    /\ ~closing /\ OwnerOf[p] \in members /\ p \in table
    /\ table' = table \ {p}
    /\ Begins(a, "unregister", "raw", OwnerOf[p], p, {})
    /\ UNCHANGED <<closing, members, lifeVars, signalVars, pathVars, slots, used, io, historyVars>>

\* What an operation does when the transport could not unregister: the surface
\* takes the path back, the release of a client gives up.
AfterFailure(a) ==
    IF op[a].kind = "unregister" THEN GoesTo(a, "restore") ELSE GoesWith(a, "next", Nobody)

Releasing(c) == {a \in Actors : op[a].kind \in {"release", "stop"} /\ op[a].client = c}

\* The section of the transport's unregister_object_path, with the slot, which is
\* given back right after it.
RawUnregister(a) ==
    LET p == op[a].id IN
    /\ op[a].step = "raw" /\ LocksFree
    /\ \/ /\ conn /\ ~stopping /\ p \in paths
          /\ live' = live \ {p}
          /\ paths' = paths \ {p}
          /\ slots' = slots \ {p}
          /\ GoesTo(a, "idle")
          /\ disturbed' = IF Releasing(OwnerOf[p]) \ {a} # {}
                          THEN disturbed \cup {OwnerOf[p]} ELSE disturbed
       \/ /\ ~conn \/ stopping \/ p \notin paths
          /\ AfterFailure(a)
          /\ UNCHANGED <<live, paths, slots, disturbed>>
       \/ /\ conn /\ ~stopping /\ p \in paths \cap Stubborn
          /\ AfterFailure(a)
          /\ disturbed' = disturbed \cup {OwnerOf[p]}
          /\ UNCHANGED <<live, paths, slots>>
    /\ UNCHANGED <<surfaceVars, lifeVars, signalVars, inFlight, used, io, quiet, released,
                   silenced>>

\* Mutant: a release stops after its first path.
AwaitIdle_OnePath(a) ==
    LET p == op[a].id IN
    /\ op[a].step = "idle"
    /\ SeenAsIo(a) \/ p \notin inFlight
    /\ silenced' = IF SeenAsIo(a) THEN silenced ELSE silenced \cup {p}
    /\ IF op[a].kind = "unregister" THEN Returns(a) ELSE GoesWith(a, "next", Nobody)
    /\ UNCHANGED <<surfaceVars, lifeVars, signalVars, pathVars, slots, used, io, quiet, released,
                   disturbed>>

\* Wait until no handler of the path is running, unless this is the I/O thread.
AwaitIdle(a) ==
    LET p == op[a].id IN
    /\ op[a].step = "idle"
    /\ SeenAsIo(a) \/ p \notin inFlight
    /\ silenced' = IF SeenAsIo(a) THEN silenced ELSE silenced \cup {p}
    /\ IF op[a].kind = "unregister" THEN Returns(a) ELSE GoesWith(a, "paths", Nobody)
    /\ UNCHANGED <<surfaceVars, lifeVars, signalVars, pathVars, slots, used, io, quiet, released,
                   disturbed>>

\* Mutant: the record is put back whoever is still registered.
Restore_Blindly(a) ==
    /\ op[a].step = "restore" /\ LocksFree
    /\ table' = table \cup {op[a].id}
    /\ Returns(a)
    /\ UNCHANGED <<closing, members, lifeVars, signalVars, pathVars, slots, used, io, historyVars>>

Restore(a) ==
    LET p == op[a].id IN
    /\ op[a].step = "restore" /\ LocksFree
    /\ table' = IF ~closing /\ op[a].client \in members THEN table \cup {p} ELSE table
    /\ Returns(a)
    /\ UNCHANGED <<closing, members, lifeVars, signalVars, pathVars, slots, used, io, historyVars>>
-----------------------------------------------------------------------------
(***************************************************************************)
(* Release of a client and shutdown.                                        *)
(***************************************************************************)
Release(a, c) ==
    /\ CanCall(a) /\ LocksFree /\ c \in members
    /\ members' = members \ {c}
    /\ table' = table \ Owned(c, table)
    /\ Begins(a, "release", "subs", c, Nobody, {})
    /\ UNCHANGED <<closing, lifeVars, signalVars, pathVars, slots, used, io, historyVars>>

\* release_client of the transport: subscriptions first, then paths, each
\* looked up in one section and removed in another.
FindSignal(a) ==
    /\ op[a].step = "subs"
    /\ \/ \E s \in Owned(op[a].client, signals) : GoesWith(a, "unsub", s)
       \/ /\ Owned(op[a].client, signals) = {}
          /\ GoesTo(a, "paths")
    /\ UNCHANGED <<surfaceVars, lifeVars, signalVars, pathVars, slots, used, io, historyVars>>

ReleaseSignal(a) ==
    LET s == op[a].id IN
    /\ op[a].step = "unsub" /\ LocksFree
    /\ \/ /\ Unsubscribable(s)
          /\ DropSignal(s)
          /\ GoesWith(a, "subs", Nobody)
       \/ /\ ~Unsubscribable(s)
          /\ GoesWith(a, "paths", Nobody)
          /\ UNCHANGED <<active, signals, filter, rules, slots>>
    /\ UNCHANGED <<surfaceVars, lifeVars, cmd, cancelled, posted, begun, pathVars, used, io, historyVars>>

FindOwnPath(a) ==
    /\ op[a].step = "paths"
    /\ \/ \E p \in Owned(op[a].client, paths) : GoesWith(a, "raw", p)
       \/ /\ Owned(op[a].client, paths) = {}
          /\ GoesTo(a, "next")
    /\ UNCHANGED <<surfaceVars, lifeVars, signalVars, pathVars, slots, used, io, historyVars>>

\* The release is done, and the subscriptions of the client are over unless it was
\* cut short by the stop of another thread; stop() goes on with the next client.
ReleaseEnds(a) ==
    /\ op[a].step = "next"
    /\ released' = released \cup ({op[a].client} \cap Clients)
    /\ Hears(a, IF stopping THEN {} ELSE Owned(op[a].client, used \cap Subs))
    /\ \/ /\ op[a].kind = "release"
          /\ Returns(a)
       \/ /\ op[a].kind = "stop"
          /\ \E c \in op[a].todo : Begins(a, "stop", "subs", c, Nobody, op[a].todo \ {c})
       \/ /\ op[a].kind = "stop" /\ op[a].todo = {}
          /\ Begins(a, "stop", "halt", Nobody, Nobody, {})
    /\ UNCHANGED <<surfaceVars, lifeVars, signalVars, pathVars, slots, used, io, silenced,
                   disturbed>>

Stop(a) ==
    /\ CanCall(a) /\ LocksFree /\ ~closing
    /\ closing' = TRUE /\ members' = {} /\ table' = {}
    /\ Begins(a, "stop", "next", Nobody, Nobody, members)
    /\ UNCHANGED <<lifeVars, signalVars, pathVars, slots, used, io, historyVars>>

\* The destructor, which nobody calls during another operation: stop() returns at
\* once when a handler has called it before, and the transport's own destructor
\* stops it for good.
Destroy(a) ==
    /\ a \in Threads /\ ~InTask(a) /\ closing /\ conn
    /\ \A b \in Actors : op[b] = Idle
    /\ Begins(a, "stop", "halt", Nobody, Nobody, {})
    /\ UNCHANGED <<surfaceVars, lifeVars, signalVars, pathVars, slots, used, io, historyVars>>

\* stop() of the transport: the I/O thread only asks for it; any other thread
\* takes the I/O thread over and joins it.
Halt(a) ==
    /\ op[a].step = "halt" /\ LocksFree /\ ~stopping
    /\ stopReq' = TRUE
    /\ \/ /\ SeenAsIo(a)
          /\ Returns(a)
          /\ UNCHANGED <<stopping, handle>>
       \/ /\ ~SeenAsIo(a)
          /\ stopping' = TRUE /\ handle' = "moved"
          /\ GoesTo(a, "join")
    /\ UNCHANGED <<surfaceVars, conn, loop, signalVars, pathVars, slots, used, io, historyVars>>

LoopEnds ==
    /\ loop = "run" /\ io.at = "idle"
    /\ \A s \in Subs : cmd[s] \notin {"installed", "failed"}
    /\ loop' = "done"
    /\ cmd' = [s \in Subs |-> IF cmd[s] = "queued" THEN "refused" ELSE cmd[s]]
    /\ UNCHANGED <<surfaceVars, conn, stopping, handle, stopReq, signals, active, rules, filter,
                   cancelled, posted, begun, pathVars, slots, used, io, op, historyVars>>

\* After the join nothing is registered any more and the connection is closed.
Join(a) ==
    /\ op[a].step = "join" /\ loop = "done"
    /\ signals' = {} /\ active' = {} /\ filter' = FALSE /\ rules' = {}
    /\ paths' = {} /\ live' = {} /\ slots' = {}
    /\ conn' = FALSE /\ stopping' = FALSE
    /\ Hears(a, used \cap Subs)
    /\ Returns(a)
    /\ UNCHANGED <<surfaceVars, handle, stopReq, loop, cmd, cancelled, posted, begun, inFlight,
                   used, io, released, silenced, disturbed>>
-----------------------------------------------------------------------------
GoesOn(a) ==
    \/ SubscribeEnds(a) \/ RawUnregister(a) \/ AwaitIdle(a) \/ Restore(a)
    \/ FindSignal(a) \/ ReleaseSignal(a) \/ FindOwnPath(a) \/ ReleaseEnds(a)
    \/ Halt(a) \/ Join(a)
    \/ a = "io" /\ CallRefused

Calls(a) ==
    \/ \E s \in Subs : Subscribe(a, s) \/ Unsubscribe(a, s)
    \/ \E p \in Paths : Register(a, p) \/ Unregister(a, p)
    \/ \E c \in Clients : Release(a, c)
    \/ Stop(a) \/ Destroy(a)

Next ==
    \/ \E a \in Actors : GoesOn(a) \/ Calls(a)
    \/ \E s \in Subs : Install(s) \/ Conclude(s)
    \/ \E s \in Subs : SignalArrives(s) \/ RunDelivery(s) \/ StartDelivery(s)
    \/ \E p \in Paths : FindPath(p)
    \/ EnterHandler \/ HandlerCalls \/ HandlerReturns \/ LoopEnds

Spec == Init /\ [][Next]_vars

\* What a thread has in hand, an operation or a task, and what the I/O thread has
\* begun outside of handlers.
GetsOn(a) == GoesOn(a) \/ \E s \in Subs : RunsOn[s] = a /\ StartDelivery(s)
IoGetsOn  == EnterHandler \/ \E s \in Subs : Conclude(s)

\* Threads and handlers get on, the loop ends when it is asked to, and the
\* owner finally destroys a client that was stopped.
FairSpec ==
    /\ Spec
    /\ \A a \in Actors : WF_vars(GetsOn(a))
    /\ WF_vars(IoGetsOn) /\ SF_vars(HandlerReturns)
    /\ SF_vars(stopReq /\ LoopEnds)
    /\ WF_vars(\E a \in Threads : Destroy(a))
-----------------------------------------------------------------------------
\* A thread that has unregistered a path knows that its handler is not running
\* and will not run again, so that it may destroy what the handler uses.
UnregisteredIsSilent == silenced \cap inFlight = {}

\* A client that works on the thread of its dispatcher knows, once subscribe_signal has
\* failed, or unsubscribe_signal, release_client or stop has returned there, that the
\* callback will not start again: "Unsubscribe invalidates
\* already-posted-but-not-started work", although tasks are still posted, commands
\* still under way and other threads release and stop at the same time.  When another
\* thread ends the subscription, a delivery that has begun still arrives.
UnsubscribedIsSilent == quiet \cap begun = {}

\* At any time the quota is used by exactly what is registered.
QuotasAgree == slots = signals \cup paths

\* The bus and libdbus know what the tables know: a rule without a subscription
\* exists only while its setup is being concluded, a subscription that is not
\* being set up has its rule and is active, the filter is there with the first
\* and gone with the last subscription.
SignalsAgree ==
    /\ rules \subseteq signals \cup {s \in Subs : cmd[s] = "installed"}
    /\ active \subseteq rules
    /\ signals \subseteq active \cup {op[a].id : a \in {b \in Actors : op[b].kind = "subscribe"}}
    /\ filter = (signals # {})

\* The ownership table of the surface knows the paths of the transport: nothing
\* else, and all of them but those an operation has in hand and those of a
\* client that has left, although a failed unregistration puts its record back
\* after both locks were given up.
SurfaceAgrees ==
    ~closing =>
        /\ table \subseteq paths
        /\ \A p \in paths \ table :
              OwnerOf[p] \notin members \/ \E a \in Actors : op[a].id = p

\* "Tear down every resource owned by one logical client": release_client does,
\* except when another thread's unregistration of one of the paths, or
\* a refusal of libdbus, made it give up.  A transport that is being stopped
\* refuses too, and clears everything itself.
ReleaseTearsDownUndisturbed ==
    \A c \in released \ disturbed : stopping \/ Owned(c, signals \cup paths) = {}

\* Quota, bus, transport and surface agree on what is registered, and nothing of
\* a released client is.
TablesAgree ==
    /\ QuotasAgree
    /\ SignalsAgree
    /\ SurfaceAgrees
    /\ ReleaseTearsDownUndisturbed

\* A handler that unregisters the path it serves after stop() has taken the
\* I/O thread over waits for itself.
WaitsForItself == op["io"].step = "idle" /\ handle = "moved" /\ op["io"].id \in inFlight

\* A stop comes to its end: the connection is closed and the thread joined.
StopReturns == closing ~> ~conn

\* Every operation of a thread comes to its end, whatever handlers do in the
\* meantime, save wait for themselves.  What is left of an operation does not
\* depend on which thread it is.
OperationsReturn ==
    LET a == CHOOSE t \in Threads : TRUE
    IN  op[a] # Idle ~> (op[a] = Idle \/ WaitsForItself)
=============================================================================
