------------------------------ MODULE DbusCalls ------------------------------
(***************************************************************************)
(* Method calls of the Linux D-Bus client (src/linux_dbus.cpp and           *)
(* src/linux_dbus_client_operations.cpp): client threads, which the mutex   *)
(* of the client surface serializes, one I/O thread, and the dispatcher     *)
(* tasks that carry results to the clients.                                 *)
(*                                                                          *)
(* A request is held in three places: the pending-call set (entry), the     *)
(* resource ledger (slots) and the transport (native), and by libdbus on    *)
(* the wire.  Reply, timeout, cancellation, release and shutdown race to    *)
(* take it out of them.                                                     *)
(***************************************************************************)
EXTENDS Naturals, FiniteSets

CONSTANTS
    Clients,
    Requests,      \* the request ids, 1..n, given out in order
    MaxPending     \* kLinuxDbusMaxPendingCalls

CallsAssumption ==
    /\ Requests \subseteq Nat \ {0} /\ "nobody" \notin Clients
    /\ MaxPending \in Nat \ {0}

VARIABLES
    closing,   \* closing_ of the surface
    members,   \* clients_ of the surface
    gone,      \* clients whose release has returned
    leaving,   \* clients whose release is under way: "gate", "drain" or "idle"
    loop,      \* the I/O thread: "run", "done" or "joined"
    stopReq,   \* stop_requested
    owner,     \* the client of each request that got an id
    entry,     \* the requests in the pending-call set
    slots,     \* the requests in the ledger
    native,    \* the requests in pending_calls
    wire,      \* libdbus: "none", "sent", "answered" or "cancelled"
    notify,    \* requests whose notification is installed
    gate,      \* clients whose gate is open
    call,      \* the call being made under the surface mutex
    hand,      \* the result each completing thread has in hand
    tasks,     \* results posted to the dispatchers
    admitted,  \* requests whose task has seen the gate open and not called back yet
    told       \* history: requests whose callback has started

vars == <<closing, members, gone, leaving, loop, stopReq, owner, entry, slots,
          native, wire, notify, gate, call, hand, tasks, admitted, told>>

NoCall == [req |-> 0, step |-> "none"]
Empty  == [req |-> 0, code |-> "none", step |-> "none"]
Codes  == {"Reply", "Timeout", "Cancelled", "Shutdown", "LocalProtocolError",
           "Disconnected"}

\* The threads that complete requests: the I/O thread and whoever holds the
\* mutex of the surface.
Completers == {"io", "caller"}

Hands == [req : Requests \cup {0}, code : Codes \cup {"none"},
          step : {"none", "take", "release", "post"}]

TypeOK ==
    /\ closing \in BOOLEAN /\ stopReq \in BOOLEAN
    /\ members \subseteq Clients /\ gone \subseteq Clients /\ gate \subseteq Clients
    /\ leaving \in [Clients -> {"idle", "gate", "drain"}]
    /\ loop \in {"run", "done", "joined"}
    /\ owner \in [Requests -> Clients \cup {"nobody"}]
    /\ entry \subseteq Requests /\ slots \subseteq Requests
    /\ native \subseteq Requests /\ notify \subseteq Requests
    /\ wire \in [Requests -> {"none", "sent", "answered", "cancelled"}]
    /\ call \in [req : Requests \cup {0}, step : {"none", "send", "retain", "notify"}]
    /\ hand \in [Completers -> Hands]
    /\ tasks \subseteq [req : Requests, code : Codes]
    /\ admitted \subseteq Requests /\ told \subseteq Requests
    /\ Cardinality(slots) <= MaxPending

Init ==
    /\ closing = FALSE /\ stopReq = FALSE
    /\ members = Clients /\ gone = {} /\ gate = {}
    /\ leaving = [c \in Clients |-> "idle"]
    /\ loop = "run"
    /\ owner = [r \in Requests |-> "nobody"]
    /\ entry = {} /\ slots = {} /\ native = {} /\ notify = {}
    /\ wire = [r \in Requests |-> "none"]
    /\ call = NoCall
    /\ hand = [a \in Completers |-> Empty]
    /\ tasks = {} /\ admitted = {} /\ told = {}

lifeVars == <<closing, members, gone, leaving, loop, stopReq>>
libVars  == <<wire, notify>>
-----------------------------------------------------------------------------
(***************************************************************************)
(* Completing a request, by any thread that has taken it out of the         *)
(* transport: take the entry out of the set (or find that somebody else     *)
(* did), give its slot back, post the result.                               *)
(***************************************************************************)
HandOver(a, r, code) ==
    hand' = [hand EXCEPT ![a] = [req |-> r, code |-> code, step |-> "take"]]
GoesTo(a, st) == hand' = [hand EXCEPT ![a].step = st]
IsDone(a)     == hand' = [hand EXCEPT ![a] = Empty]

TakeEntry(a) ==
    LET r == hand[a].req IN
    /\ hand[a].step = "take"
    /\ entry' = entry \ {r}
    /\ IF r \in entry THEN GoesTo(a, "release") ELSE IsDone(a)
    /\ UNCHANGED <<lifeVars, libVars, owner, slots, native, gate, call, tasks, admitted, told>>

ReleaseSlot(a) ==
    /\ hand[a].step = "release"
    /\ slots' = slots \ {hand[a].req}
    /\ GoesTo(a, "post")
    /\ UNCHANGED <<lifeVars, libVars, owner, entry, native, gate, call, tasks, admitted, told>>

\* The dispatcher may refuse the result: that is final too.
PostResult(a) ==
    /\ hand[a].step = "post"
    /\ tasks' \in {tasks, tasks \cup {[req |-> hand[a].req, code |-> hand[a].code]}}
    /\ IsDone(a)
    /\ UNCHANGED <<lifeVars, libVars, owner, entry, slots, native, gate, call, admitted, told>>

\* Mutant: the task does not look at the gate.
RunTask_IgnoresGate ==
    \E t \in tasks :
        /\ tasks' = tasks \ {t}
        /\ admitted' = admitted \cup {t.req}
        /\ UNCHANGED <<lifeVars, libVars, owner, entry, slots, native, gate, call, hand, told>>

\* A task of a client's dispatcher runs; a closed gate silences it.
RunTask ==
    \E t \in tasks :
        /\ tasks' = tasks \ {t}
        /\ admitted' = IF owner[t.req] \in gate THEN admitted \cup {t.req} ELSE admitted
        /\ UNCHANGED <<lifeVars, libVars, owner, entry, slots, native, gate, call, hand, told>>

\* The task holds no lock between the gate and its callback: whatever other threads
\* do in the meantime, it calls back.
StartCallback ==
    \E r \in admitted :
        /\ admitted' = admitted \ {r}
        /\ told' = told \cup {r}
        /\ UNCHANGED <<lifeVars, libVars, owner, entry, slots, native, gate, call, hand,
                       tasks>>
-----------------------------------------------------------------------------
(***************************************************************************)
(* call_method, under the surface mutex from begin to end.                  *)
(***************************************************************************)
MutexFree == call = NoCall /\ hand["caller"] = Empty

\* Mutant: the ledger's own limit is dropped as redundant.
Begin_NoLedgerLimit(c, r) ==
    /\ MutexFree /\ ~closing /\ loop = "run" /\ c \in members
    /\ Cardinality(entry) < MaxPending
    /\ owner[r] = "nobody" /\ \A q \in Requests : q < r => owner[q] # "nobody"
    /\ owner' = [owner EXCEPT ![r] = c]
    /\ entry' = entry \cup {r}
    /\ slots' = slots \cup {r}
    /\ gate' = gate \cup {c}
    /\ call' = [req |-> r, step |-> "send"]
    /\ UNCHANGED <<lifeVars, libVars, native, hand, tasks, admitted, told>>

Begin(c, r) ==
    /\ MutexFree /\ ~closing /\ loop = "run" /\ c \in members
    /\ Cardinality(entry) < MaxPending       \* the surface's check
    /\ Cardinality(slots) < MaxPending       \* the ledger's
    /\ owner[r] = "nobody" /\ \A q \in Requests : q < r => owner[q] # "nobody"
    /\ owner' = [owner EXCEPT ![r] = c]
    /\ entry' = entry \cup {r}
    /\ slots' = slots \cup {r}
    /\ gate' = gate \cup {c}
    /\ call' = [req |-> r, step |-> "send"]
    /\ UNCHANGED <<lifeVars, libVars, native, hand, tasks, admitted, told>>

\* A failed step of a call completes it at once.
Fail(code) == call' = NoCall /\ HandOver("caller", call.req, code)

Send ==
    LET r == call.req IN
    /\ call.step = "send"
    /\ \/ /\ loop # "run"
          /\ Fail("Shutdown")
          /\ UNCHANGED wire
       \/ /\ loop = "run"
          /\ \E code \in {"LocalProtocolError", "Disconnected"} : Fail(code)
          /\ UNCHANGED wire
       \/ /\ loop = "run"
          /\ wire' = [wire EXCEPT ![r] = "sent"]
          /\ call' = [call EXCEPT !.step = "retain"]
          /\ UNCHANGED hand
    /\ UNCHANGED <<lifeVars, notify, owner, entry, slots, native, gate, tasks, admitted, told>>

Retain ==
    LET r == call.req IN
    /\ call.step = "retain"
    /\ \/ /\ native' = native \cup {r}
          /\ call' = [call EXCEPT !.step = "notify"]
          /\ UNCHANGED <<hand, wire>>
       \/ /\ Fail("LocalProtocolError")
          /\ wire' = [wire EXCEPT ![r] = "cancelled"]
          /\ UNCHANGED native
    /\ UNCHANGED <<lifeVars, notify, owner, entry, slots, gate, tasks, admitted, told>>

SetNotify ==
    LET r == call.req IN
    /\ call.step = "notify"
    /\ \/ /\ notify' = notify \cup {r}
          /\ call' = NoCall
          /\ UNCHANGED <<hand, wire, native>>
       \/ /\ native' = native \ {r}
          /\ wire' = [wire EXCEPT ![r] = "cancelled"]
          /\ Fail("LocalProtocolError")
          /\ UNCHANGED notify
    /\ UNCHANGED <<lifeVars, owner, entry, slots, gate, tasks, admitted, told>>

Cancel(c, r) ==
    /\ MutexFree /\ ~closing /\ c \in members
    /\ r \in native /\ owner[r] = c
    /\ native' = native \ {r}
    /\ wire' = [wire EXCEPT ![r] = "cancelled"]
    /\ HandOver("caller", r, "Cancelled")
    /\ UNCHANGED <<lifeVars, notify, owner, entry, slots, gate, call, tasks, admitted, told>>
-----------------------------------------------------------------------------
(***************************************************************************)
(* The I/O thread.                                                          *)
(***************************************************************************)
IoFree == loop = "run" /\ hand["io"] = Empty

\* Mutant: a reply without a notification takes the call out of the transport.
DispatchReply_TakesUnheard(r) ==
    /\ IoFree /\ wire[r] = "sent"
    /\ wire' = [wire EXCEPT ![r] = "answered"]
    /\ native' = native \ {r}
    /\ IF r \in notify /\ r \in native
       THEN \E code \in {"Reply", "Disconnected"} : HandOver("io", r, code)
       ELSE UNCHANGED hand
    /\ UNCHANGED <<lifeVars, notify, owner, entry, slots, gate, call, tasks, admitted, told>>

\* libdbus dispatches the reply of r.  A notification that is not installed
\* yet is not called, now or later.
DispatchReply(r) ==
    /\ IoFree /\ wire[r] = "sent"
    /\ wire' = [wire EXCEPT ![r] = "answered"]
    /\ IF r \in notify /\ r \in native
       THEN /\ native' = native \ {r}
            /\ \E code \in {"Reply", "Disconnected"} : HandOver("io", r, code)
       ELSE UNCHANGED <<native, hand>>
    /\ UNCHANGED <<lifeVars, notify, owner, entry, slots, gate, call, tasks, admitted, told>>

\* Mutant: a call whose reply has arrived is not looked at any more.
Expire_SkipsAnswered(r) ==
    /\ IoFree /\ r \in native /\ wire[r] = "sent"
    /\ native' = native \ {r}
    /\ wire' = [wire EXCEPT ![r] = "cancelled"]
    /\ HandOver("io", r, "Timeout")
    /\ UNCHANGED <<lifeVars, notify, owner, entry, slots, gate, call, tasks, admitted, told>>

Expire(r) ==
    /\ IoFree /\ r \in native
    /\ native' = native \ {r}
    /\ wire' = [wire EXCEPT ![r] = "cancelled"]
    /\ HandOver("io", r, "Timeout")
    /\ UNCHANGED <<lifeVars, notify, owner, entry, slots, gate, call, tasks, admitted, told>>

\* The loop ends when asked to, or when the bus has disconnected.
LoopEnds ==
    /\ IoFree
    /\ loop' = "done"
    /\ UNCHANGED <<closing, members, gone, leaving, stopReq, libVars, owner, entry, slots,
                   native, gate, call, hand, tasks, admitted, told>>
-----------------------------------------------------------------------------
(***************************************************************************)
(* Release of a client and shutdown.                                        *)
(***************************************************************************)
Release(c) ==
    /\ MutexFree /\ c \in members
    /\ members' = members \ {c}
    /\ leaving' = [leaving EXCEPT ![c] = "gate"]
    /\ UNCHANGED <<closing, gone, loop, stopReq, libVars, owner, entry, slots, native, gate,
                   call, hand, tasks, admitted, told>>

\* Mutant: the gate is erased from the map but not closed.
CloseGate_LeavesOpen(c) ==
    /\ leaving[c] = "gate"
    /\ leaving' = [leaving EXCEPT ![c] = "drain"]
    /\ UNCHANGED <<closing, members, gone, loop, stopReq, libVars, owner, entry, slots, native,
                   gate, call, hand, tasks, admitted, told>>

\* discard_client closes the gate before it drains.
CloseGate(c) ==
    /\ leaving[c] = "gate"
    /\ gate' = gate \ {c}
    /\ leaving' = [leaving EXCEPT ![c] = "drain"]
    /\ UNCHANGED <<closing, members, gone, loop, stopReq, libVars, owner, entry, slots, native,
                   call, hand, tasks, admitted, told>>

Owned(c, S) == {r \in S : owner[r] = c}

\* Mutant: discarding a request keeps its slot.
DiscardEntry_KeepsSlot(c) ==
    /\ leaving[c] = "drain"
    /\ \E r \in Owned(c, entry) : entry' = entry \ {r}
    /\ UNCHANGED <<lifeVars, libVars, owner, slots, native, gate, call, hand, tasks, admitted,
                   told>>

\* The entry is discarded with its slot, which in the code follows at once.
DiscardEntry(c) ==
    /\ leaving[c] = "drain"
    /\ \E r \in Owned(c, entry) :
        /\ entry' = entry \ {r}
        /\ slots' = slots \ {r}
    /\ UNCHANGED <<lifeVars, libVars, owner, native, gate, call, hand, tasks, admitted, told>>

DiscardNative(c) ==
    /\ leaving[c] = "drain" /\ Owned(c, entry) = {}
    /\ \E r \in Owned(c, native) :
        /\ native' = native \ {r}
        /\ wire' = [wire EXCEPT ![r] = "cancelled"]
    /\ UNCHANGED <<lifeVars, notify, owner, entry, slots, gate, call, hand, tasks, admitted,
                   told>>

Released(c) ==
    /\ leaving[c] = "drain" /\ Owned(c, entry \cup native) = {}
    /\ leaving' = [leaving EXCEPT ![c] = "idle"]
    /\ gone' = gone \cup {c}
    /\ UNCHANGED <<closing, members, loop, stopReq, libVars, owner, entry, slots, native, gate,
                   call, hand, tasks, admitted, told>>

\* stop() of the surface releases every client, then stops the transport.
Stop ==
    /\ MutexFree /\ ~closing
    /\ closing' = TRUE
    /\ members' = {}
    /\ leaving' = [c \in Clients |-> IF c \in members THEN "gate" ELSE leaving[c]]
    /\ UNCHANGED <<gone, loop, stopReq, libVars, owner, entry, slots, native, gate, call, hand,
                   tasks, admitted, told>>

RequestStop ==
    /\ closing /\ ~stopReq
    /\ \A c \in Clients : leaving[c] = "idle"
    /\ stopReq' = TRUE
    /\ UNCHANGED <<closing, members, gone, leaving, loop, libVars, owner, entry, slots, native,
                   gate, call, hand, tasks, admitted, told>>

Join ==
    /\ stopReq /\ loop = "done"
    /\ loop' = "joined"
    /\ UNCHANGED <<closing, members, gone, leaving, stopReq, libVars, owner, entry, slots,
                   native, gate, call, hand, tasks, admitted, told>>
-----------------------------------------------------------------------------
Complete(a) == TakeEntry(a) \/ ReleaseSlot(a) \/ PostResult(a)
Calling     == Send \/ Retain \/ SetNotify
Draining(c) == CloseGate(c) \/ DiscardEntry(c) \/ DiscardNative(c) \/ Released(c)

Next ==
    \/ \E a \in Completers : Complete(a)
    \/ RunTask \/ StartCallback
    \/ \E c \in Clients, r \in Requests : Begin(c, r) \/ Cancel(c, r)
    \/ Calling
    \/ \E r \in Requests : DispatchReply(r) \/ Expire(r)
    \/ LoopEnds
    \/ \E c \in Clients : Release(c) \/ Draining(c)
    \/ Stop \/ RequestStop \/ Join

Spec == Init /\ [][Next]_vars

\* What the threads have begun.
Goes == \/ \E a \in Completers : Complete(a)
        \/ Calling \/ RunTask \/ StartCallback
        \/ \E c \in Clients : Draining(c)

\* Some thread gets on; a request that nobody answers runs into its deadline; and
\* the owner of a transport whose loop has ended stops it.
FairSpec ==
    /\ Spec
    /\ WF_vars(Goes)
    /\ \A r \in Requests : SF_vars(Expire(r))
    /\ SF_vars(loop = "done" /\ Stop)
-----------------------------------------------------------------------------
\* No request is left behind: what the set holds is still in the transport, or
\* in the hands of a thread that will complete it (call_method, pending_notify,
\* expire_pending_calls), or of the release of its client.
NothingStranded ==
    \A r \in entry :
        \/ r \in native
        \/ call.req = r
        \/ \E a \in Completers : hand[a].req = r
        \/ leaving[owner[r]] # "idle"

\* The ledger agrees with the set except for a completion between its two
\* critical sections: capacity neither leaks nor comes back early.
CapacityAgrees ==
    slots = entry \cup {hand[a].req : a \in {b \in Completers : hand[b].step = "release"}}

\* release_client returns when nothing of the client is left, and every task
\* that has still to look at the gate will find it closed.
ReleasedIsEmpty ==
    \A c \in gone : Owned(c, entry \cup native) = {} /\ c \notin gate

\* The two together: what the tables say of a request is what became of it.
LedgerAgrees == CapacityAgrees /\ ReleasedIsEmpty

Contract == INSTANCE RequestContract WITH
    Nobody  <- "nobody",
    settled <- {r \in Requests : owner[r] # "nobody"} \ entry,
    left    <- gone

ImplementsRequestContract == Contract!ContractSpec

\* Every accepted request gets its terminal result.
EveryRequestSettles == \A r \in Requests : r \in entry ~> r \notin entry
=============================================================================
