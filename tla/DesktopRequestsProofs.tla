------------------------- MODULE DesktopRequestsProofs -------------------------
(***************************************************************************)
(* The portal's requests, for any numbers of choosers, URLs, threads and    *)
(* faults, by any rule of which handles are the portal's: the types, what    *)
(* the bus and the two tables hold between them, what cancel reports, and    *)
(* the refinement of RequestContract.                                        *)
(***************************************************************************)
EXTENDS DesktopRequests, FiniteSetTheorems, TLAPS
-----------------------------------------------------------------------------
(***************************************************************************)
(* The inductive invariant.                                                 *)
(***************************************************************************)
Pcs      == {"idle", "subscribe", "register", "call", "store", "failed", "cancel", "end",
             "subscribe2", "install"}
Beginning == {"subscribe", "register", "call"}
Starting  == Beginning \cup {"store", "failed"}
Terminal  == {"Result", "Error", "Cancelled"}

Entries == [sub : Handles, method : BOOLEAN]
Ops     == [pc : Pcs, c : Calls \cup {0}, code : Terminal \cup Handles \cup {"none"},
            entry : [sub : Handles \cup {"none"}, method : BOOLEAN]]
Portals == [handle : Handles \cup {"none"}, dialog : {"unknown", "open", "answered", "closed"}]
Tasks   == [kind : {"reply", "response", "done"}, c : Calls,
            what : Terminal \cup Handles \cup {"failed", "Busy"}]

ServicesTyped ==
    /\ active \subseteq accepted /\ accepted \subseteq begun /\ begun \subseteq Calls
    /\ confirmed \subseteq begun /\ closing \in BOOLEAN /\ faults \in 0..MaxFaults
    /\ outcome \in [Calls -> Terminal \cup {"none", "Busy"}] /\ told \in [Calls -> 0..1]

BusTyped ==
    /\ subs \subseteq Calls \X Handles /\ calling \subseteq Calls /\ IsFiniteSet(calling)
    /\ connected \in BOOLEAN
    /\ portal \in [Calls -> Portals]

OpsTyped == op \in [Threads -> Ops] /\ entries \in [DOMAIN entries -> Entries] /\ DOMAIN entries \subseteq Calls
TasksTyped == tasks \in Seq(Tasks)

\* Thread t is at one of the steps of S for request c.
Does(t, c, S) == op[t].c = c /\ op[t].pc \in S

\* What a thread has in hand when it is at work.
Hands ==
    \A t \in Threads :
       /\ op[t].pc # "idle" => op[t].c \in accepted
       /\ op[t].pc \in {"failed", "end"} => op[t].code \in Terminal
       /\ op[t].pc = "end" => op[t].entry \in Entries
       /\ op[t].pc \in {"subscribe2", "install"} =>
             t = UI /\ op[t].code = "other" /\ portal[op[t].c].handle = "other"

\* The services are destroyed when nobody is at work, with nothing left.
Over == closing => active = {} /\ DOMAIN entries = {} /\ \A t \in Threads : op[t].pc = "idle"

\* Who starts a request has it alone, until the portal has been called; the backend
\* has it from register on.
Alone ==
    \A t \in Threads :
       op[t].pc \in Beginning =>
          /\ op[t].c \in active /\ portal[op[t].c].dialog = "unknown"
          /\ op[t].c \in DOMAIN entries <=> op[t].pc = "call"
          /\ \A u \in Threads \ {t} : op[u].pc # "idle" => op[u].c # op[t].c

\* The portal knows the handle of a request it was called for.
Called(c) == portal[c].dialog # "unknown"
HandlesKnown ==
    /\ \A c \in Calls : portal[c].dialog = "unknown" <=> portal[c].handle = "none"
    /\ \A c \in Calls : Called(c) => c \in begun
    /\ \A k \in 1..Len(tasks) :
          /\ tasks[k].kind \in {"reply", "response"} => Called(tasks[k].c)
          /\ tasks[k].kind = "response" => tasks[k].what = portal[tasks[k].c].handle
          /\ tasks[k].kind = "reply" => tasks[k].what \in {"failed", portal[tasks[k].c].handle}
                                        /\ tasks[k].c \notin calling

\* A call without a reply is known to who stores it, to the backend, or to who ends
\* the request.
CallsKnown ==
    \A c \in calling :
       /\ Called(c)
       /\ \/ \E t \in Threads : Does(t, c, {"store"})
          \/ c \in DOMAIN entries /\ entries[c].method
          \/ \E t \in Threads : Does(t, c, {"end"}) /\ op[t].entry.method

FailedAlone == \A t \in Threads : op[t].pc = "failed" => op[t].c \notin calling

\* A subscription is the request's, or in the hands of one that registers, replaces
\* or ends it.
SubsKnown ==
    \A s \in subs :
       \/ s[1] \in DOMAIN entries /\ entries[s[1]].sub = s[2]
       \/ \E t \in Threads : Does(t, s[1], {"register"}) /\ s[2] = "predicted"
       \/ \E t \in Threads : Does(t, s[1], {"end"}) /\ op[t].entry.sub = s[2]
       \/ Does(UI, s[1], {"install"}) /\ op[UI].code = s[2]

\* What the backend has is active, and nobody has taken it to end it.
Held ==
    \A c \in DOMAIN entries :
       /\ c \in active /\ entries[c].sub \in {"predicted", portal[c].handle}
       /\ \A t \in Threads : ~Does(t, c, {"subscribe", "register", "failed", "end"})
       /\ Does(UI, c, {"subscribe2", "install"}) => entries[c].sub = "predicted"

\* What is active is held by the backend, or by one who brings it there or ends it.
ActiveHeld ==
    \A c \in active \ DOMAIN entries :
       \E t \in Threads : Does(t, c, {"subscribe", "register", "failed", "end"})

EndsOnce ==
    \A t, u \in Threads : op[t].pc = "end" /\ op[u].pc = "end" /\ op[t].c = op[u].c => t = u

\* A request is cancelled when its start has returned.
Cancels(t) == op[t].pc = "cancel" \/ (op[t].pc = "end" /\ op[t].code = "Cancelled")
CancelsStarted == \A t, u \in Threads : Cancels(t) => ~Does(u, op[t].c, Starting)

Confirmed ==
    ~closing => \A c \in confirmed :
       IF c \in active THEN \E t \in Threads : Does(t, c, {"end"}) /\ op[t].code = "Cancelled"
       ELSE outcome[c] = "Cancelled"

\* A request is settled when it is no longer active, and its callback is called
\* once: it was, or its one task is there.
Settled(c) == c \in begun \ active /\ outcome[c] # "none"
ToldOnce ==
    /\ \A c \in Calls : /\ told[c] # 0 => Settled(c)
                        /\ c \in active \/ c \notin begun => outcome[c] = "none"
    /\ \A k \in 1..Len(tasks) : tasks[k].kind = "done" =>
          /\ Settled(tasks[k].c) /\ told[tasks[k].c] = 0
          /\ \A l \in 1..Len(tasks) : tasks[l].kind = "done" /\ tasks[l].c = tasks[k].c => k = l

IInv ==
    /\ ServicesTyped /\ BusTyped /\ OpsTyped /\ TasksTyped /\ Hands /\ Over /\ Alone /\ HandlesKnown
    /\ CallsKnown /\ FailedAlone /\ SubsKnown /\ Held /\ ActiveHeld /\ EndsOnce /\ CancelsStarted
    /\ Confirmed /\ ToldOnce
-----------------------------------------------------------------------------
(***************************************************************************)
(* What the steps do to the tasks and to who is at work.                    *)
(***************************************************************************)
\* Tasks are posted behind the others, one result at most.
Later(new) ==
    /\ TasksTyped'
    /\ \A k \in 1..Len(tasks') : \/ k \in 1..Len(tasks) /\ tasks'[k] = tasks[k]
                                 \/ k \notin 1..Len(tasks) /\ tasks'[k] \in new
    /\ \A k, l \in 1..Len(tasks') \ (1..Len(tasks)) :
          tasks'[k].kind = "done" /\ tasks'[l].kind = "done" => k = l

\* The first task is run.
Earlier ==
    /\ TasksTyped' /\ Len(tasks) # 0
    /\ \A k \in 1..Len(tasks') : k + 1 \in 1..Len(tasks) /\ tasks'[k] = tasks[k + 1]

LEMMA InvParts ==
  ASSUME IInv
  PROVE  /\ ServicesTyped /\ BusTyped /\ OpsTyped /\ TasksTyped /\ Hands /\ Over /\ Alone
         /\ HandlesKnown
         /\ CallsKnown /\ FailedAlone /\ SubsKnown /\ Held /\ ActiveHeld /\ EndsOnce
         /\ CancelsStarted
         /\ Confirmed /\ ToldOnce
  BY DEF IInv

LEMMA TaskFields == \A x \in Tasks : x.c \in Calls
  BY DEF Tasks

LEMMA NothingPosted == ASSUME TasksTyped, UNCHANGED tasks PROVE Later({})
  BY DEF TasksTyped, Later

\* A task is appended, or refused.
LEMMA OnePosted ==
  ASSUME TasksTyped, ServicesTyped, RequestsAssumption, NEW x \in Tasks, Posted(<<x>>)
  PROVE  Later({x}) /\ faults' \in 0..MaxFaults
  <1>1. faults' \in 0..MaxFaults
    BY DEF Posted, Smoothly, Fault, ServicesTyped, RequestsAssumption
  <1>2. CASE tasks' = tasks \o <<x>>
    <2>1. /\ tasks' \in Seq(Tasks) /\ Len(tasks') = Len(tasks) + 1
          /\ \A k \in 1..Len(tasks) : tasks'[k] = tasks[k]
          /\ tasks'[Len(tasks) + 1] = x /\ Len(tasks) \in Nat
      BY <1>2 DEF TasksTyped
    <2>2. \A k \in 1..Len(tasks') : k \in 1..Len(tasks) \/ k = Len(tasks) + 1
      BY <2>1
    <2> QED
      BY <1>1, <2>1, <2>2 DEF Later, TasksTyped
  <1>3. CASE tasks' = tasks
    BY <1>1, <1>3 DEF Later, TasksTyped
  <1> QED
    BY <1>2, <1>3 DEF Posted

\* Two tasks are, of which the second is a result.
LEMMA TwoPosted ==
  ASSUME TasksTyped, ServicesTyped, RequestsAssumption, NEW x \in Tasks, NEW y \in Tasks,
         x.kind # "done", Posted(<<x>> \o <<y>>)
  PROVE  Later({x, y}) /\ faults' \in 0..MaxFaults
  <1>1. faults' \in 0..MaxFaults
    BY DEF Posted, Smoothly, Fault, ServicesTyped, RequestsAssumption
  <1>2. CASE tasks' = tasks \o (<<x>> \o <<y>>)
    <2>1. /\ tasks' \in Seq(Tasks) /\ Len(tasks') = Len(tasks) + 2
          /\ \A k \in 1..Len(tasks) : tasks'[k] = tasks[k]
          /\ tasks'[Len(tasks) + 1] = x /\ tasks'[Len(tasks) + 2] = y /\ Len(tasks) \in Nat
      BY <1>2 DEF TasksTyped
    <2>2. \A k \in 1..Len(tasks') : k \in 1..Len(tasks) \/ k = Len(tasks) + 1 \/ k = Len(tasks) + 2
      BY <2>1
    <2> QED
      BY <1>1, <2>1, <2>2 DEF Later, TasksTyped
  <1>3. CASE tasks' = tasks
    BY <1>1, <1>3 DEF Later, TasksTyped
  <1> QED
    BY <1>2, <1>3 DEF Posted

\* The call is withdrawn, and a result is posted.
LEMMA WithdrawnPosted ==
  ASSUME TasksTyped, ServicesTyped, RequestsAssumption, NEW c \in Calls, Posted(Withdrawn(c))
  PROVE  /\ Later(IF c \in calling THEN {Task("reply", c, "failed")} ELSE {})
         /\ faults' \in 0..MaxFaults
  <1>1. Task("reply", c, "failed") \in Tasks
    BY DEF Task, Tasks
  <1>2. CASE c \in calling
    BY <1>1, <1>2, OnePosted DEF Withdrawn
  <1>3. CASE c \notin calling
    <2>1. UNCHANGED <<tasks, faults>>
      BY <1>3 DEF Withdrawn, Posted, Smoothly, TasksTyped
    <2> QED
      BY <1>3, <2>1, NothingPosted DEF ServicesTyped
  <1> QED
    BY <1>2, <1>3

LEMMA ResultPosted ==
  ASSUME TasksTyped, ServicesTyped, RequestsAssumption, NEW c \in Calls,
         NEW code \in Terminal \cup {"Busy"}, Posted(Withdrawn(c) \o Result(c, code))
  PROVE  /\ Later({Task("done", c, code)} \cup IF c \in calling THEN {Task("reply", c, "failed")} ELSE {})
         /\ faults' \in 0..MaxFaults
  <1>1. Task("reply", c, "failed") \in Tasks /\ Task("done", c, code) \in Tasks
        /\ Task("reply", c, "failed").kind # "done"
    BY DEF Task, Tasks
  <1>2. CASE c \in calling
    <2>1. Later({Task("reply", c, "failed"), Task("done", c, code)}) /\ faults' \in 0..MaxFaults
      BY <1>1, <1>2, TwoPosted DEF Withdrawn, Result
    <2>2. {Task("reply", c, "failed"), Task("done", c, code)}
             = {Task("done", c, code)} \cup IF c \in calling THEN {Task("reply", c, "failed")} ELSE {}
      BY <1>2
    <2> QED
      BY <2>1, <2>2
  <1>3. CASE c \notin calling
    <2>1. <<>> \o <<Task("done", c, code)>> = <<Task("done", c, code)>>
      OBVIOUS
    <2>2. Posted(<<Task("done", c, code)>>)
      BY <1>3, <2>1 DEF Withdrawn, Result
    <2>3. Later({Task("done", c, code)}) /\ faults' \in 0..MaxFaults
      BY <1>1, <2>2, OnePosted
    <2>4. {Task("done", c, code)}
             = {Task("done", c, code)} \cup IF c \in calling THEN {Task("reply", c, "failed")} ELSE {}
      BY <1>3
    <2> QED
      BY <2>3, <2>4
  <1> QED
    BY <1>2, <1>3

\* A task is run.
LEMMA TaskRun ==
  ASSUME TasksTyped, NEW kind, Runs(kind)
  PROVE  /\ Earlier /\ 1 \in 1..Len(tasks) /\ Next_ = tasks[1] /\ Next_ \in Tasks
         /\ Next_.kind = kind /\ op[UI].pc = "idle"
  <1>1. /\ tasks \in Seq(Tasks) /\ tasks # <<>> /\ tasks' = Tail(tasks) /\ Next_.kind = kind
        /\ op[UI].pc = "idle"
    BY DEF TasksTyped, Runs, At
  <1>2. /\ Len(tasks) \in Nat \ {0} /\ tasks' \in Seq(Tasks) /\ Len(tasks') = Len(tasks) - 1
        /\ \A k \in 1..Len(tasks') : tasks'[k] = tasks[k + 1]
    BY <1>1
  <1>3. Next_ = tasks[1]
    BY <1>1 DEF Next_
  <1>4. 1 \in 1..Len(tasks) /\ tasks[1] \in Tasks
    BY <1>1, <1>2
  <1> QED
    BY <1>1, <1>2, <1>3, <1>4 DEF Earlier, TasksTyped

\* Results stay one for a request, if those that are posted are of requests that
\* were not settled.
LEMMA ToldKept ==
  ASSUME ToldOnce, TasksTyped, NEW new, Later(new), UNCHANGED told,
         \A d \in Calls : Settled(d) => Settled(d)',
         \A d \in Calls : d \in active' \/ d \notin begun' => outcome'[d] = "none",
         \A x \in new : x.kind = "done" => x.c \in Calls /\ Settled(x.c)' /\ ~Settled(x.c)
  PROVE  ToldOnce'
  <1>1. ASSUME NEW d \in Calls
        PROVE  (told[d] # 0 => Settled(d)')
               /\ (d \in active' \/ d \notin begun' => outcome'[d] = "none")
    BY DEF ToldOnce, Settled
  <1>2. ASSUME NEW k \in 1..Len(tasks'), tasks'[k].kind = "done"
        PROVE  /\ tasks'[k].c \in Calls /\ Settled(tasks[k].c)' /\ told[tasks'[k].c] = 0
               /\ k \notin 1..Len(tasks) <=> ~Settled(tasks'[k].c)
    <2>0. tasks'[k] \in Tasks
      BY DEF Later, TasksTyped
    <2>1. CASE k \in 1..Len(tasks) /\ tasks'[k] = tasks[k]
      BY <1>2, <2>0, <2>1 DEF ToldOnce, Tasks, Settled
    <2>2. CASE k \notin 1..Len(tasks) /\ tasks'[k] \in new
      BY <1>2, <2>0, <2>2 DEF ToldOnce, Settled
    <2> QED
      BY <2>1, <2>2 DEF Later
  <1>3. ASSUME NEW k \in 1..Len(tasks'), tasks'[k].kind = "done",
               NEW l \in 1..Len(tasks'), tasks'[l].kind = "done", tasks'[l].c = tasks'[k].c
        PROVE  k = l
    BY <1>2, <1>3 DEF Later, ToldOnce
  <1> QED
    BY <1>1, <1>2, <1>3 DEF ToldOnce, Settled

LEMMA ToldRun ==
  ASSUME ToldOnce, TasksTyped, Earlier, tasks[1].kind # "done", UNCHANGED <<told, active, begun,
         outcome>>
  PROVE  ToldOnce'
  <1>1. \A k \in 1..Len(tasks') : k + 1 \in 1..Len(tasks) /\ tasks'[k] = tasks[k + 1]
    BY DEF Earlier
  <1>2. \A d \in Calls : Settled(d)' <=> Settled(d)
    BY DEF Settled
  <1>3. ASSUME NEW k \in 1..Len(tasks'), tasks'[k].kind = "done"
        PROVE  /\ Settled(tasks[k].c)' /\ told[tasks'[k].c] = 0
               /\ \A l \in 1..Len(tasks') : tasks'[l].kind = "done" /\ tasks'[l].c = tasks'[k].c => k = l
    <2>1. tasks[k + 1].kind = "done" /\ k + 1 \in 1..Len(tasks) /\ tasks[k + 1].c \in Calls
      BY <1>1, <1>3, TaskFields DEF TasksTyped
    <2>2. Settled(tasks[k + 1].c) /\ told[tasks[k + 1].c] = 0
      BY <2>1 DEF ToldOnce, Settled
    <2>3. ASSUME NEW l \in 1..Len(tasks'), tasks'[l].kind = "done", tasks'[l].c = tasks'[k].c
          PROVE  k = l
      <3>1. tasks[l + 1].kind = "done" /\ l + 1 \in 1..Len(tasks) /\ tasks[l + 1].c = tasks[k + 1].c
        BY <1>1, <2>3
      <3>2. k + 1 = l + 1
        BY <2>1, <3>1 DEF ToldOnce, Settled
      <3> QED
        BY <3>2
    <2> QED
      BY <1>1, <1>2, <2>1, <2>2, <2>3 DEF Settled
  <1> QED
    BY <1>2, <1>3 DEF ToldOnce, Settled

\* What is known of replies and responses stays, if handles do and those who are
\* called are called for the first time.
LEMMA HandlesKept ==
  ASSUME HandlesKnown, TasksTyped, NEW new, Later(new),
         \A d \in Calls : Called(d) => Called(d)' /\ portal'[d].handle = portal[d].handle,
         \A d \in Calls : portal'[d].dialog = "unknown" <=> portal'[d].handle = "none",
         \A d \in Calls : Called(d)' => d \in begun',
         \A d \in calling' : d \in calling \/ ~Called(d),
         \A x \in new : /\ x.kind \in {"reply", "response"} => Called(x.c)'
                        /\ x.kind = "response" => x.what = portal'[x.c].handle
                        /\ x.kind = "reply" => x.what \in {"failed", portal'[x.c].handle} /\ x.c \notin calling'
  PROVE  HandlesKnown'
  <1>1. ASSUME NEW k \in 1..Len(tasks')
        PROVE  /\ tasks'[k].kind \in {"reply", "response"} => Called(tasks[k].c)'
               /\ tasks'[k].kind = "response" => tasks'[k].what = portal'[tasks'[k].c].handle
               /\ tasks'[k].kind = "reply" => tasks'[k].what \in {"failed", portal'[tasks'[k].c].handle}
                                              /\ tasks'[k].c \notin calling'
    <2>0. tasks'[k] \in Tasks /\ tasks'[k].c \in Calls
      BY TaskFields DEF Later, TasksTyped
    <2>1. CASE k \in 1..Len(tasks) /\ tasks'[k] = tasks[k]
      BY <2>0, <2>1 DEF HandlesKnown, Called
    <2>2. CASE k \notin 1..Len(tasks) /\ tasks'[k] \in new
      BY <2>2 DEF Called
    <2> QED
      BY <2>1, <2>2 DEF Later
  <1> QED
    BY <1>1 DEF HandlesKnown, Called

LEMMA HandlesRun ==
  ASSUME HandlesKnown, TasksTyped, Earlier, UNCHANGED <<portal, begun, calling>>
  PROVE  HandlesKnown'
  <1>1. \A k \in 1..Len(tasks') : k + 1 \in 1..Len(tasks) /\ tasks'[k] = tasks[k + 1]
    BY DEF Earlier
  <1>2. \A d \in Calls : Called(d)' <=> Called(d)
    BY DEF Called
  <1> QED
    BY <1>1, <1>2 DEF HandlesKnown, Called

\* Thread t goes on, or comes back.
LEMMA OpSet ==
  ASSUME OpsTyped, NEW t \in Threads, NEW x \in Ops, op' = [op EXCEPT ![t] = x]
  PROVE  op' \in [Threads -> Ops] /\ op'[t] = x /\ \A u \in Threads \ {t} : op'[u] = op[u]
  BY DEF OpsTyped

LEMMA OpGoes ==
  ASSUME OpsTyped, NEW t \in Threads, NEW pc \in Pcs, Become(t, pc)
  PROVE  /\ op' \in [Threads -> Ops] /\ op'[t].pc = pc /\ op'[t].c = op[t].c
         /\ op'[t].code = op[t].code
         /\ op'[t].entry = op[t].entry /\ \A u \in Threads \ {t} : op'[u] = op[u]
  BY DEF OpsTyped, Ops, Become

LEMMA OpReturns ==
  ASSUME OpsTyped, NEW t \in Threads, Return(t)
  PROVE  /\ op' \in [Threads -> Ops] /\ op'[t].pc = "idle"
         /\ \A u \in Threads \ {t} : op'[u] = op[u]
  <1>1. Idle \in Ops /\ Idle.pc = "idle"
    BY DEF Idle, Ops, Pcs
  <1> QED
    BY <1>1 DEF OpsTyped, Return

LEMMA OpDoing ==
  ASSUME NEW pc \in Pcs, NEW c \in Calls, NEW code \in Terminal \cup Handles \cup {"none"}
  PROVE  /\ Doing(pc, c, code) \in Ops /\ Doing(pc, c, code).pc = pc /\ Doing(pc, c, code).c = c
         /\ Doing(pc, c, code).code = code
  BY DEF Doing, Idle, Ops, Pcs
LEMMA Faulty ==
  ASSUME ServicesTyped, RequestsAssumption, Fault \/ Smoothly
  PROVE  faults' \in 0..MaxFaults
  BY DEF ServicesTyped, RequestsAssumption, Fault, Smoothly

\* Steps that leave the services, the portal and the tasks alone.
LEMMA Quiet ==
  ASSUME IInv, RequestsAssumption, Fault \/ Smoothly, calling' \subseteq calling,
         UNCHANGED <<active, closing, accepted, outcome, begun, told, confirmed, tasks, portal>>
  PROVE  ServicesTyped' /\ TasksTyped' /\ HandlesKnown' /\ ToldOnce'
  <1>p. ServicesTyped /\ TasksTyped /\ HandlesKnown /\ ToldOnce
    BY InvParts
  <1>1. faults' \in 0..MaxFaults
    BY <1>p, Faulty
  <1>2. ServicesTyped'
    BY <1>p, <1>1 DEF ServicesTyped
  <1>3. TasksTyped'
    BY <1>p DEF TasksTyped
  <1>4. HandlesKnown'
    <2>1. Later({})
      BY <1>p, NothingPosted
    <2> QED
      BY <1>p, <2>1, HandlesKept DEF Called, HandlesKnown
  <1>5. ToldOnce'
    BY <1>p DEF ToldOnce, Settled
  <1> QED
    BY <1>2, <1>3, <1>4, <1>5

\* Nothing has begun.
LEMMA InvInit == RequestsAssumption /\ Init => IInv
  <1> SUFFICES ASSUME RequestsAssumption, Init PROVE IInv
    OBVIOUS
  <1>0. /\ Idle \in Ops /\ Idle.pc = "idle" /\ \A t \in Threads : op[t] = Idle
        /\ tasks = <<>> /\ Len(tasks) = 0 /\ tasks \in Seq(Tasks) /\ DOMAIN entries = {}
    BY DEF Init, Idle, Ops, Pcs
  <1>1. ServicesTyped
    <2>1. /\ FALSE \in BOOLEAN /\ 0 \in 0..MaxFaults /\ 0 \in 0..1
          /\ "none" \in Terminal \cup {"none", "Busy"}
      BY DEF RequestsAssumption
    <2> QED
      BY <2>1 DEF ServicesTyped, Init
  <1>2. BusTyped
    <2>1. IsFiniteSet({}) /\ TRUE \in BOOLEAN
      BY FS_EmptySet
    <2> QED
      BY <2>1 DEF BusTyped, Init, Portals
  <1>3. OpsTyped /\ TasksTyped
    BY <1>0 DEF OpsTyped, TasksTyped, Init
  <1>4. Hands /\ Over /\ Alone /\ FailedAlone /\ EndsOnce /\ CancelsStarted
    BY <1>0 DEF Init, Hands, Over, Alone, FailedAlone, EndsOnce, CancelsStarted, Cancels, Beginning
  <1>5. HandlesKnown /\ ToldOnce
    BY <1>0 DEF HandlesKnown, ToldOnce, Called, Settled, Init
  <1>6. CallsKnown /\ SubsKnown /\ Held /\ ActiveHeld /\ Confirmed
    BY <1>0 DEF CallsKnown, SubsKnown, Held, ActiveHeld, Confirmed, Init
  <1> QED
    BY <1>1, <1>2, <1>3, <1>4, <1>5, <1>6 DEF IInv

\* A request is taken, which nobody knows of yet; or refused, with its result.
LEMMA StartKeeps ==
  ASSUME IInv, RequestsAssumption, NEW t \in Threads, NEW c \in Calls, Start(t, c)
  PROVE  IInv'
  <1>p. /\ ServicesTyped /\ BusTyped /\ OpsTyped /\ TasksTyped /\ Hands /\ Over /\ Alone
        /\ HandlesKnown
        /\ CallsKnown /\ FailedAlone /\ SubsKnown /\ Held /\ ActiveHeld /\ EndsOnce
        /\ CancelsStarted
        /\ Confirmed /\ ToldOnce
    BY InvParts
  <1>0. /\ op[t].pc = "idle" /\ c \notin begun /\ begun' = begun \cup {c} /\ ~closing
        /\ UNCHANGED <<closing, entries, subs, calling, connected, portal, told, confirmed>>
    BY DEF Start, At, Bus
  <1>1. /\ c \notin active /\ c \notin accepted /\ c \notin DOMAIN entries /\ outcome[c] = "none"
        /\ told[c] = 0
        /\ portal[c].dialog = "unknown" /\ c \notin calling /\ c \notin confirmed
        /\ \A u \in Threads : op[u].pc # "idle" => op[u].c # c
    <2>1. c \notin active /\ c \notin accepted /\ c \notin confirmed
      BY <1>p, <1>0 DEF ServicesTyped
    <2>2. c \notin DOMAIN entries
      BY <1>p, <2>1 DEF Held
    <2>3. outcome[c] = "none" /\ told[c] = 0
      BY <1>p, <1>0 DEF ToldOnce, Settled
    <2>4. portal[c].dialog = "unknown" /\ c \notin calling
      BY <1>p, <1>0 DEF HandlesKnown, CallsKnown, Called
    <2>5. \A u \in Threads : op[u].pc # "idle" => op[u].c # c
      BY <1>p, <2>1 DEF Hands
    <2> QED
      BY <2>1, <2>2, <2>3, <2>4, <2>5
  <1>2. BusTyped' /\ Over'
    BY <1>p, <1>0 DEF BusTyped, Over
  <1>3. CASE /\ active' = active \cup {c} /\ accepted' = accepted \cup {c}
             /\ op' = [op EXCEPT ![t] = Doing("subscribe", c, "none")]
             /\ UNCHANGED <<outcome, tasks>> /\ Smoothly
    <2> DEFINE x == Doing("subscribe", c, "none")
    <2>1. x \in Ops /\ x.pc = "subscribe" /\ x.c = c
      BY OpDoing DEF Pcs
    <2>2. op' \in [Threads -> Ops] /\ op'[t] = x /\ \A u \in Threads \ {t} : op'[u] = op[u]
      BY <1>p, <1>3, <2>1, OpSet
    <2> HIDE DEF x
    <2>3. op'[t].pc = "subscribe" /\ op'[t].c = c
      BY <2>1, <2>2
    <2>4. ServicesTyped'
      BY <1>p, <1>0, <1>3 DEF ServicesTyped, Smoothly
    <2>5. OpsTyped' /\ TasksTyped'
      BY <1>p, <1>0, <1>3, <2>2 DEF OpsTyped, TasksTyped
    <2>6. Hands'
      BY <1>p, <1>0, <1>3, <2>2, <2>3 DEF Hands
    <2>7. Alone'
      BY <1>p, <1>0, <1>1, <1>3, <2>2, <2>3 DEF Alone, Beginning
    <2>8. HandlesKnown' /\ ToldOnce'
      <3>1. Later({})
        BY <1>p, <1>3, NothingPosted
      <3>2. HandlesKnown'
        BY <1>p, <1>0, <3>1, HandlesKept DEF Called, HandlesKnown
      <3>3. ToldOnce'
        BY <1>p, <1>0, <1>1, <1>3, <3>1, ToldKept DEF Settled, ToldOnce
      <3> QED
        BY <3>2, <3>3
    <2>9. CallsKnown' /\ FailedAlone' /\ SubsKnown'
      <3>1. CallsKnown'
        BY <1>p, <1>0, <2>2, <2>3 DEF CallsKnown, Called, Does
      <3>2. FailedAlone'
        BY <1>p, <1>0, <2>2, <2>3 DEF FailedAlone
      <3>3. SubsKnown'
        BY <1>p, <1>0, <2>2, <2>3 DEF SubsKnown, Does, RequestsAssumption
      <3> QED
        BY <3>1, <3>2, <3>3
    <2>10. Held' /\ ActiveHeld'
      <3>1. Held'
        BY <1>p, <1>0, <1>1, <1>3, <2>2, <2>3 DEF Held, Does
      <3>2. ActiveHeld'
        BY <1>p, <1>0, <1>1, <1>3, <2>2, <2>3 DEF ActiveHeld, Does
      <3> QED
        BY <3>1, <3>2
    <2>11. EndsOnce' /\ CancelsStarted'
      BY <1>p, <1>0, <1>1, <2>2, <2>3 DEF EndsOnce, CancelsStarted, Cancels, Does
    <2>12. Confirmed'
      BY <1>p, <1>0, <1>1, <1>3, <2>2, <2>3 DEF Confirmed, Does
    <2> QED
      BY <1>2, <2>4, <2>5, <2>6, <2>7, <2>8, <2>9, <2>10, <2>11, <2>12 DEF IInv
  <1>4. CASE /\ outcome' = [outcome EXCEPT ![c] = "Busy"] /\ Posted(Result(c, "Busy"))
             /\ UNCHANGED <<active, accepted, op>>
    <2>1. Task("done", c, "Busy") \in Tasks
      BY DEF Task, Tasks
    <2>2. Later({Task("done", c, "Busy")}) /\ faults' \in 0..MaxFaults
      BY <1>p, <1>4, <2>1, OnePosted DEF Result
    <2>3. ServicesTyped'
      BY <1>p, <1>0, <1>4, <2>2 DEF ServicesTyped
    <2>4. /\ OpsTyped' /\ Hands' /\ Alone' /\ FailedAlone' /\ EndsOnce' /\ CancelsStarted'
          /\ TasksTyped'
      BY <1>p, <1>0, <1>4, <2>2
         DEF OpsTyped, Hands, Alone, FailedAlone, EndsOnce, CancelsStarted, Cancels, Does, Later
    <2>5. HandlesKnown'
      BY <1>p, <1>0, <2>2, HandlesKept DEF Called, HandlesKnown, Task
    <2>6. ToldOnce'
      <3>1. \A d \in Calls : Settled(d) => Settled(d)'
        BY <1>p, <1>0, <1>4 DEF Settled, ServicesTyped
      <3>2. \A d \in Calls : d \in active' \/ d \notin begun' => outcome'[d] = "none"
        BY <1>p, <1>0, <1>1, <1>4 DEF ToldOnce, ServicesTyped
      <3>3. Settled(c)' /\ ~Settled(c)
        BY <1>p, <1>0, <1>1, <1>4 DEF Settled, ServicesTyped
      <3>4. \A x \in {Task("done", c, "Busy")} : x.c = c
        BY DEF Task
      <3> HIDE DEF Task
      <3> QED
        BY <1>p, <1>0, <2>2, <3>1, <3>2, <3>3, <3>4, ToldKept DEF Settled
    <2>7. CallsKnown' /\ SubsKnown' /\ Held' /\ ActiveHeld'
      BY <1>p, <1>0, <1>4 DEF CallsKnown, SubsKnown, Held, ActiveHeld, Called, Does
    <2>8. Confirmed'
      BY <1>p, <1>0, <1>1, <1>4 DEF Confirmed, Does, ServicesTyped
    <2> QED
      BY <1>2, <2>3, <2>4, <2>5, <2>6, <2>7, <2>8 DEF IInv
  <1> QED
    BY <1>3, <1>4 DEF Start
\* The predicted handle is subscribed, or the start fails.
LEMMA SubscribeKeeps ==
  ASSUME IInv, RequestsAssumption, NEW t \in Threads, Subscribe(t)
  PROVE  IInv'
  <1>p. /\ ServicesTyped /\ BusTyped /\ OpsTyped /\ TasksTyped /\ Hands /\ Over /\ Alone
        /\ HandlesKnown
        /\ CallsKnown /\ FailedAlone /\ SubsKnown /\ Held /\ ActiveHeld /\ EndsOnce
        /\ CancelsStarted
        /\ Confirmed /\ ToldOnce
    BY InvParts
  <1> DEFINE c == op[t].c
  <1>0. /\ op[t].pc = "subscribe" /\ (Fault \/ Smoothly)
        /\ UNCHANGED <<active, closing, accepted, outcome, entries, calling, connected, portal, tasks,
                       begun, told, confirmed>>
    BY DEF Subscribe, At, Services, History
  <1>1. /\ c \in active /\ c \in Calls /\ portal[c].dialog = "unknown" /\ c \notin DOMAIN entries
        /\ \A u \in Threads \ {t} : op[u].pc # "idle" => op[u].c # c
    BY <1>p, <1>0 DEF Alone, Beginning, ServicesTyped
  <1>2. c \notin calling /\ ~closing
    BY <1>p, <1>0, <1>1 DEF CallsKnown, Called, Over
  <1>3. /\ op' \in [Threads -> Ops] /\ op'[t].c = c /\ \A u \in Threads \ {t} : op'[u] = op[u]
        /\ \/ op'[t].pc = "register" /\ subs' = subs \cup {<<c, "predicted">>}
           \/ op'[t].pc = "failed" /\ op'[t].code = "Error" /\ subs' = subs
    <2>1. CASE subs' = subs \cup {<<c, "predicted">>} /\ Become(t, "register")
      BY <1>p, <2>1, OpGoes DEF Pcs
    <2>2. CASE subs' = subs /\ Fails(t, "Error")
      <3> DEFINE x == Doing("failed", c, "Error")
      <3>1. x \in Ops /\ x.pc = "failed" /\ x.c = c /\ x.code = "Error"
        BY <1>1, OpDoing DEF Pcs, Terminal
      <3>2. op' = [op EXCEPT ![t] = x]
        BY <2>2 DEF Fails
      <3> HIDE DEF x
      <3> QED
        BY <1>p, <2>2, <3>1, <3>2, OpSet
    <2> QED
      BY <2>1, <2>2 DEF Subscribe
  <1> HIDE DEF c
  <1>c. c = op[t].c
    BY DEF c
  <1>4. ServicesTyped' /\ TasksTyped' /\ HandlesKnown' /\ ToldOnce'
    BY <1>0, Quiet
  <1>5. BusTyped' /\ OpsTyped'
    BY <1>p, <1>0, <1>1, <1>3 DEF BusTyped, OpsTyped, Handles
  <1>6. Hands'
    BY <1>p, <1>0, <1>c, <1>3 DEF Hands, Terminal
  <1>7. Over'
    BY <1>0, <1>2 DEF Over
  <1>8. Alone'
    BY <1>p, <1>0, <1>c, <1>1, <1>3 DEF Alone, Beginning
  <1>9. CallsKnown' /\ FailedAlone'
    <2>1. CallsKnown'
      BY <1>p, <1>0, <1>c, <1>3 DEF CallsKnown, Called, Does
    <2>2. FailedAlone'
      BY <1>p, <1>0, <1>2, <1>c, <1>3 DEF FailedAlone
    <2> QED
      BY <2>1, <2>2
  <1>10. SubsKnown'
    BY <1>p, <1>0, <1>c, <1>3 DEF SubsKnown, Does, RequestsAssumption
  <1>11. Held'
    BY <1>p, <1>0, <1>c, <1>1, <1>3 DEF Held, Does, RequestsAssumption
  <1>12. ActiveHeld'
    BY <1>p, <1>0, <1>c, <1>3 DEF ActiveHeld, Does
  <1>13. EndsOnce' /\ CancelsStarted'
    BY <1>p, <1>0, <1>c, <1>1, <1>3 DEF EndsOnce, CancelsStarted, Cancels, Does, Starting, Beginning
  <1>14. Confirmed'
    BY <1>p, <1>0, <1>c, <1>3 DEF Confirmed, Does
  <1> QED
    BY <1>4, <1>5, <1>6, <1>7, <1>8, <1>9, <1>10, <1>11, <1>12, <1>13, <1>14 DEF IInv

\* The backend has the request, or its start fails.
LEMMA RegisterKeeps ==
  ASSUME IInv, RequestsAssumption, NEW t \in Threads, Register(t)
  PROVE  IInv'
  <1>p. /\ ServicesTyped /\ BusTyped /\ OpsTyped /\ TasksTyped /\ Hands /\ Over /\ Alone
        /\ HandlesKnown
        /\ CallsKnown /\ FailedAlone /\ SubsKnown /\ Held /\ ActiveHeld /\ EndsOnce
        /\ CancelsStarted
        /\ Confirmed /\ ToldOnce
    BY InvParts
  <1> DEFINE c == op[t].c
  <1>0. /\ op[t].pc = "register" /\ (Fault \/ Smoothly)
        /\ UNCHANGED <<active, closing, accepted, outcome, calling, connected, portal, tasks,
                       begun, told, confirmed>>
    BY DEF Register, At, Services, History
  <1>1. /\ c \in active /\ c \in Calls /\ portal[c].dialog = "unknown" /\ c \notin DOMAIN entries
        /\ \A u \in Threads \ {t} : op[u].pc # "idle" => op[u].c # c
    BY <1>p, <1>0 DEF Alone, Beginning, ServicesTyped
  <1>2. c \notin calling /\ ~closing
    BY <1>p, <1>0, <1>1 DEF CallsKnown, Called, Over
  <1>3. /\ op' \in [Threads -> Ops] /\ op'[t].c = c /\ \A u \in Threads \ {t} : op'[u] = op[u]
        /\ \/ /\ op'[t].pc = "call" /\ subs' = subs
              /\ entries' = [d \in DOMAIN entries \cup {c} |->
                               IF d = c THEN [sub |-> "predicted", method |-> FALSE] ELSE entries[d]]
           \/ /\ op'[t].pc = "failed" /\ op'[t].code = "Error" /\ entries' = entries
              /\ subs' = subs \ {<<c, "predicted">>}
    <2>1. CASE Become(t, "call") /\ subs' = subs
               /\ entries' = [d \in DOMAIN entries \cup {c} |->
                               IF d = c THEN [sub |-> "predicted", method |-> FALSE] ELSE entries[d]]
      BY <1>p, <2>1, OpGoes DEF Pcs
    <2>2. CASE subs' = subs \ {<<c, "predicted">>} /\ Fails(t, "Error") /\ entries' = entries
      <3> DEFINE x == Doing("failed", c, "Error")
      <3>1. x \in Ops /\ x.pc = "failed" /\ x.c = c /\ x.code = "Error"
        BY <1>1, OpDoing DEF Pcs, Terminal
      <3>2. op' = [op EXCEPT ![t] = x]
        BY <2>2 DEF Fails
      <3> HIDE DEF x
      <3> QED
        BY <1>p, <2>2, <3>1, <3>2, OpSet
    <2> QED
      BY <2>1, <2>2 DEF Register
  <1> HIDE DEF c
  <1>c. c = op[t].c
    BY DEF c
  <1>4. ServicesTyped' /\ TasksTyped' /\ HandlesKnown' /\ ToldOnce'
    BY <1>0, Quiet
  <1>n. \/ /\ DOMAIN entries' = DOMAIN entries \cup {c} /\ \A d \in DOMAIN entries : entries'[d] = entries[d]
           /\ entries'[c].sub = "predicted" /\ entries'[c] \in Entries /\ op'[t].pc = "call"
           /\ subs' = subs
        \/ entries' = entries /\ op'[t].pc = "failed" /\ op'[t].code = "Error" /\ subs' = subs \ {<<c, "predicted">>}
    <2>1. CASE entries' = [d \in DOMAIN entries \cup {c} |->
                               IF d = c THEN [sub |-> "predicted", method |-> FALSE] ELSE entries[d]]
               /\ op'[t].pc = "call" /\ subs' = subs
      <3>1. /\ DOMAIN entries' = DOMAIN entries \cup {c}
            /\ entries'[c] = [sub |-> "predicted", method |-> FALSE]
        BY <2>1
      <3>2. \A d \in DOMAIN entries : entries'[d] = entries[d]
        BY <1>1, <2>1
      <3>3. [sub |-> "predicted", method |-> FALSE] \in Entries
        BY DEF Entries, Handles
      <3> QED
        BY <2>1, <3>1, <3>2, <3>3
    <2> QED
      BY <1>3, <2>1
  <1>5. BusTyped'
    BY <1>p, <1>0, <1>1, <1>3 DEF BusTyped, Handles
  <1>6. OpsTyped'
    <2>1. CASE entries' = entries
      BY <1>p, <1>3, <2>1 DEF OpsTyped
    <2>2. CASE entries' = [d \in DOMAIN entries \cup {c} |->
                               IF d = c THEN [sub |-> "predicted", method |-> FALSE] ELSE entries[d]]
      <3>1. [sub |-> "predicted", method |-> FALSE] \in Entries
        BY DEF Entries, Handles
      <3>2. \A d \in DOMAIN entries : entries[d] \in Entries
        BY <1>p DEF OpsTyped
      <3>3. DOMAIN entries' \subseteq Calls
        BY <1>p, <1>1, <2>2 DEF OpsTyped
      <3>4. entries' \in [DOMAIN entries' -> Entries]
        BY <2>2, <3>1, <3>2
      <3> QED
        BY <1>3, <3>3, <3>4 DEF OpsTyped
    <2> QED
      BY <1>3, <2>1, <2>2
  <1>7. Hands' /\ Over'
    BY <1>p, <1>0, <1>2, <1>c, <1>3 DEF Hands, Terminal, Over
  <1>8. Alone'
    BY <1>p, <1>0, <1>c, <1>1, <1>3, <1>n DEF Alone, Beginning
  <1>9. CallsKnown' /\ FailedAlone'
    <2>1. CallsKnown'
      BY <1>p, <1>0, <1>c, <1>3, <1>n DEF CallsKnown, Called, Does
    <2>2. FailedAlone'
      BY <1>p, <1>0, <1>2, <1>c, <1>3 DEF FailedAlone
    <2> QED
      BY <2>1, <2>2
  <1>10. SubsKnown'
    BY <1>p, <1>0, <1>c, <1>1, <1>3, <1>n DEF SubsKnown, Does, RequestsAssumption, BusTyped
  <1>11. Held'
    BY <1>p, <1>0, <1>c, <1>1, <1>3, <1>n DEF Held, Does, RequestsAssumption
  <1>12. ActiveHeld'
    BY <1>p, <1>0, <1>c, <1>3, <1>n DEF ActiveHeld, Does
  <1>13. EndsOnce' /\ CancelsStarted'
    BY <1>p, <1>0, <1>c, <1>1, <1>3 DEF EndsOnce, CancelsStarted, Cancels, Does, Starting, Beginning
  <1>14. Confirmed'
    BY <1>p, <1>0, <1>c, <1>3 DEF Confirmed, Does
  <1> QED
    BY <1>4, <1>5, <1>6, <1>7, <1>8, <1>9, <1>10, <1>11, <1>12, <1>13, <1>14 DEF IInv
\* The portal is called, or the backend drops the request again.
LEMMA CallKeeps ==
  ASSUME IInv, RequestsAssumption, NEW t \in Threads, Call(t)
  PROVE  IInv'
  <1>p. /\ ServicesTyped /\ BusTyped /\ OpsTyped /\ TasksTyped /\ Hands /\ Over /\ Alone
        /\ HandlesKnown
        /\ CallsKnown /\ FailedAlone /\ SubsKnown /\ Held /\ ActiveHeld /\ EndsOnce
        /\ CancelsStarted
        /\ Confirmed /\ ToldOnce
    BY InvParts
  <1> DEFINE c == op[t].c
  <1>0. /\ op[t].pc = "call" /\ (Fault \/ Smoothly)
        /\ UNCHANGED <<active, closing, accepted, outcome, connected, tasks, begun, told, confirmed>>
    BY DEF Call, At, Services, History
  <1>1. /\ c \in active /\ c \in Calls /\ c \in begun /\ portal[c].dialog = "unknown"
        /\ c \in DOMAIN entries
        /\ \A u \in Threads \ {t} : op[u].pc # "idle" => op[u].c # c
    BY <1>p, <1>0 DEF Alone, Beginning, ServicesTyped
  <1>2. ~closing /\ c \notin calling
    BY <1>p, <1>0, <1>1 DEF Over, CallsKnown, Called
  <1>o. op \in [Threads -> Ops] /\ op[t].c = c
    BY <1>p DEF OpsTyped
  <1>w. \A u \in Threads : op[u].pc \in {"store", "end", "install", "register"} => u # t
    BY <1>0
  <1>3. CASE /\ connected /\ calling' = calling \cup {c} /\ Become(t, "store") /\ Smoothly
             /\ \E h \in Handles : portal' = [portal EXCEPT ![c] = [handle |-> h, dialog |-> "open"]]
             /\ UNCHANGED <<entries, subs>>
    <2>1. PICK h \in Handles : portal' = [portal EXCEPT ![c] = [handle |-> h, dialog |-> "open"]]
      BY <1>3
    <2>2. /\ op' \in [Threads -> Ops] /\ op'[t].pc = "store" /\ op'[t].c = c
          /\ \A u \in Threads \ {t} : op'[u] = op[u]
      BY <1>p, <1>3, OpGoes DEF Pcs
    <2>3. /\ portal' \in [Calls -> Portals] /\ portal'[c].handle = h /\ portal'[c].dialog = "open"
          /\ \A d \in Calls \ {c} : portal'[d] = portal[d]
      BY <1>p, <1>1, <2>1 DEF BusTyped, Portals
    <2> HIDE DEF c
    <2>4. ServicesTyped'
      BY <1>p, <1>0, <1>3 DEF ServicesTyped, Smoothly
    <2>5. BusTyped'
      BY <1>p, <1>0, <1>1, <1>3, <2>3, FS_AddElement DEF BusTyped
    <2>6. OpsTyped' /\ TasksTyped' /\ Over'
      BY <1>p, <1>0, <1>2, <1>3, <2>2 DEF OpsTyped, TasksTyped, Over
    <2>7. Hands'
      <3>1. \A u \in Threads : op'[u].pc \in {"subscribe2", "install"} => op'[u].c # c /\ op'[u].c \in Calls
        BY <1>p, <1>1, <2>2 DEF Hands, ServicesTyped
      <3> QED
        BY <1>p, <1>0, <1>o, <2>2, <2>3, <3>1 DEF Hands
    <2>8. Alone'
      <3>1. \A u \in Threads : op'[u].pc \in Beginning => u # t /\ op'[u] = op[u] /\ op[u].c \in Calls /\ op[u].c # c
        BY <1>p, <1>1, <2>2 DEF Alone, Beginning, ServicesTyped
      <3> QED
        BY <1>p, <1>0, <1>3, <1>o, <2>2, <2>3, <3>1 DEF Alone, Beginning
    <2>9. HandlesKnown' /\ ToldOnce'
      <3>1. Later({})
        BY <1>p, <1>0, NothingPosted
      <3>2. HandlesKnown'
        <4>1. h # "none"
          BY DEF Handles
        <4>2. \A d \in Calls : Called(d) => Called(d)' /\ portal'[d].handle = portal[d].handle
          BY <1>1, <2>3 DEF Called
        <4>3. \A d \in Calls : portal'[d].dialog = "unknown" <=> portal'[d].handle = "none"
          BY <1>p, <2>3, <4>1 DEF HandlesKnown
        <4>4. \A d \in Calls : Called(d)' => d \in begun'
          BY <1>p, <1>0, <1>1, <2>3 DEF HandlesKnown, Called
        <4>5. \A d \in calling' : d \in calling \/ ~Called(d)
          BY <1>1, <1>3 DEF Called
        <4> QED
          BY <1>p, <3>1, <4>2, <4>3, <4>4, <4>5, HandlesKept DEF Called
      <3>3. ToldOnce'
        BY <1>p, <1>0 DEF ToldOnce, Settled
      <3> QED
        BY <3>2, <3>3
    <2>10. CallsKnown'
      BY <1>p, <1>0, <1>1, <1>3, <1>w, <2>2, <2>3 DEF CallsKnown, Called, Does, BusTyped
    <2>11. FailedAlone' /\ SubsKnown'
      <3>1. FailedAlone'
        BY <1>p, <1>0, <1>1, <1>3, <2>2 DEF FailedAlone
      <3>2. SubsKnown'
        BY <1>p, <1>0, <1>3, <1>w, <2>2 DEF SubsKnown, Does, RequestsAssumption
      <3> QED
        BY <3>1, <3>2
    <2>12. Held'
      <3>1. \A d \in DOMAIN entries : entries[d].sub \in {"predicted", portal'[d].handle}
        BY <1>p, <1>1, <2>3 DEF Held, OpsTyped, Portals, HandlesKnown, Entries, Handles, BusTyped
      <3> QED
        BY <1>p, <1>0, <1>1, <1>3, <2>2, <3>1 DEF Held, Does, RequestsAssumption
    <2>13. ActiveHeld'
      BY <1>p, <1>0, <1>1, <1>3, <2>2 DEF ActiveHeld, Does
    <2>14. EndsOnce' /\ CancelsStarted'
      BY <1>p, <1>0, <1>o, <1>1, <2>2
         DEF EndsOnce, CancelsStarted, Cancels, Does, Starting, Beginning
    <2>15. Confirmed'
      BY <1>p, <1>0, <1>w, <2>2 DEF Confirmed, Does
    <2> QED
      BY <2>4, <2>5, <2>6, <2>7, <2>8, <2>9, <2>10, <2>11, <2>12, <2>13, <2>14, <2>15 DEF IInv
  <1>4. CASE /\ Fails(t, "Error") /\ UNCHANGED <<calling, portal>>
             /\ subs' = subs \ {<<c, entries[c].sub>>} /\ entries' = Drop(entries, c)
    <2> DEFINE x == Doing("failed", c, "Error")
    <2>1. x \in Ops /\ x.pc = "failed" /\ x.c = c /\ x.code = "Error"
      BY <1>1, OpDoing DEF Pcs, Terminal
    <2>2. op' = [op EXCEPT ![t] = x]
      BY <1>4 DEF Fails
    <2> HIDE DEF x
    <2>3. /\ op' \in [Threads -> Ops] /\ op'[t].pc = "failed" /\ op'[t].c = c
          /\ op'[t].code = "Error"
          /\ \A u \in Threads \ {t} : op'[u] = op[u]
      BY <1>p, <2>1, <2>2, OpSet
    <2> HIDE DEF c
    <2>4. DOMAIN entries' = DOMAIN entries \ {c} /\ \A d \in DOMAIN entries' : entries'[d] = entries[d]
      BY <1>4 DEF Drop
    <2>5. ServicesTyped' /\ TasksTyped' /\ HandlesKnown' /\ ToldOnce'
      BY <1>0, <1>4, Quiet
    <2>6. BusTyped' /\ OpsTyped'
      <3>1. entries' \in [DOMAIN entries' -> Entries]
        BY <1>p, <1>4, <2>4 DEF OpsTyped, Drop
      <3> QED
        BY <1>p, <1>0, <1>4, <2>3, <2>4, <3>1 DEF BusTyped, OpsTyped
    <2>7. Hands' /\ Over'
      BY <1>p, <1>0, <1>2, <1>o, <1>4, <2>3 DEF Hands, Terminal, Over
    <2>8. Alone'
      BY <1>p, <1>0, <1>o, <1>1, <1>4, <2>3, <2>4 DEF Alone, Beginning
    <2>9. CallsKnown' /\ FailedAlone'
      <3>1. CallsKnown'
        BY <1>p, <1>0, <1>2, <1>4, <1>w, <2>3, <2>4 DEF CallsKnown, Called, Does
      <3>2. FailedAlone'
        BY <1>p, <1>0, <1>2, <1>4, <2>3 DEF FailedAlone
      <3> QED
        BY <3>1, <3>2
    <2>10. SubsKnown'
      BY <1>p, <1>0, <1>1, <1>4, <1>w, <2>3, <2>4 DEF SubsKnown, Does, RequestsAssumption, BusTyped
    <2>11. Held'
      BY <1>p, <1>0, <1>1, <1>4, <2>3, <2>4 DEF Held, Does, RequestsAssumption
    <2>12. ActiveHeld'
      BY <1>p, <1>0, <1>4, <1>w, <2>3, <2>4 DEF ActiveHeld, Does
    <2>13. EndsOnce' /\ CancelsStarted'
      BY <1>p, <1>0, <1>o, <1>1, <2>3
         DEF EndsOnce, CancelsStarted, Cancels, Does, Starting, Beginning
    <2>14. Confirmed'
      BY <1>p, <1>0, <1>w, <2>3 DEF Confirmed, Does
    <2> QED
      BY <2>5, <2>6, <2>7, <2>8, <2>9, <2>10, <2>11, <2>12, <2>13, <2>14 DEF IInv
  <1> QED
    BY <1>1, <1>3, <1>4 DEF Call

\* The request is settled, if it is active, and its result posted; its call may be
\* withdrawn.
LEMMA Settles ==
  ASSUME IInv, RequestsAssumption, NEW c \in Calls, NEW code \in Terminal, NEW new, Later(new),
         faults' \in 0..MaxFaults,
         \/ c \in active /\ active' = active \ {c} /\ outcome' = [outcome EXCEPT ![c] = code]
         \/ c \notin active /\ active' = active /\ outcome' = outcome,
         \A x \in new : \/ c \in active /\ x = Task("done", c, code)
                        \/ c \in calling \ calling' /\ x = Task("reply", c, "failed"),
         calling' \subseteq calling,
         \A d \in Calls : /\ portal'[d].handle = portal[d].handle
                          /\ portal'[d].dialog = "unknown" <=> portal[d].dialog = "unknown",
         UNCHANGED <<closing, accepted, begun, told, confirmed>>
  PROVE  ServicesTyped' /\ TasksTyped' /\ HandlesKnown' /\ ToldOnce'
  <1>p. ServicesTyped /\ TasksTyped /\ HandlesKnown /\ ToldOnce /\ CallsKnown
    BY InvParts
  <1>1. ServicesTyped'
    BY <1>p DEF ServicesTyped
  <1>2. TasksTyped'
    BY DEF Later
  <1>3. \A x \in new : \/ x.kind = "done" /\ x.c = c /\ c \in active
                       \/ /\ x.kind = "reply" /\ x.c = c /\ x.what = "failed"
                          /\ c \in calling \ calling'
    BY DEF Task
  <1>4. HandlesKnown'
    BY <1>p, <1>3, HandlesKept DEF Called, HandlesKnown, CallsKnown
  <1>5. \A d \in Calls \ {c} : (d \in active' <=> d \in active) /\ outcome'[d] = outcome[d]
    BY <1>p DEF ServicesTyped
  <1>6. c \in active => c \notin active' /\ c \in begun' /\ outcome'[c] = code /\ code # "none"
    BY <1>p DEF ServicesTyped, Terminal
  <1>7. \A d \in Calls : Settled(d) => Settled(d)'
    BY <1>5, <1>6 DEF Settled
  <1>8. \A d \in Calls : d \in active' \/ d \notin begun' => outcome'[d] = "none"
    BY <1>p, <1>5, <1>6 DEF ToldOnce, ServicesTyped
  <1>9. \A x \in new : x.kind = "done" => x.c \in Calls /\ Settled(x.c)' /\ ~Settled(x.c)
    BY <1>3, <1>6 DEF Settled
  <1>10. ToldOnce'
    BY <1>p, <1>7, <1>8, <1>9, ToldKept
  <1> QED
    BY <1>1, <1>2, <1>4, <1>10

\* The call is known to the backend, or cancelled since the request has gone.
LEMMA StoreKeeps ==
  ASSUME IInv, RequestsAssumption, NEW t \in Threads, Store(t)
  PROVE  IInv'
  <1>p. /\ ServicesTyped /\ BusTyped /\ OpsTyped /\ TasksTyped /\ Hands /\ Over /\ Alone
        /\ HandlesKnown
        /\ CallsKnown /\ FailedAlone /\ SubsKnown /\ Held /\ ActiveHeld /\ EndsOnce
        /\ CancelsStarted
        /\ Confirmed /\ ToldOnce
    BY InvParts
  <1> DEFINE c == op[t].c
  <1>0. /\ op[t].pc = "store" /\ UNCHANGED <<active, closing, accepted, outcome, subs, connected, portal,
                                             begun, told, confirmed>>
    BY DEF Store, At, Services, History
  <1>1. c \in Calls /\ c \in accepted /\ c \in begun /\ ~closing
    BY <1>p, <1>0 DEF Hands, ServicesTyped, Over
  <1>o. op \in [Threads -> Ops] /\ op[t].c = c
    BY <1>p DEF OpsTyped
  <1>w. \A u \in Threads : op[u].pc \in Beginning \cup {"end", "install", "failed"} => u # t
    BY <1>0 DEF Beginning
  <1>3. CASE /\ c \in DOMAIN entries /\ entries' = [entries EXCEPT ![c].method = TRUE] /\ Return(t)
             /\ UNCHANGED <<calling, tasks>> /\ Smoothly
    <2>2. op' \in [Threads -> Ops] /\ op'[t].pc = "idle" /\ \A u \in Threads \ {t} : op'[u] = op[u]
      BY <1>p, <1>3, OpReturns
    <2> HIDE DEF c
    <2>3. /\ DOMAIN entries' = DOMAIN entries /\ entries'[c].method
          /\ entries' \in [DOMAIN entries' -> Entries]
          /\ \A d \in DOMAIN entries : entries'[d].sub = entries[d].sub
          /\ \A d \in DOMAIN entries \ {c} : entries'[d] = entries[d]
      <3>1. entries \in [DOMAIN entries -> Entries] /\ TRUE \in BOOLEAN
        BY <1>p DEF OpsTyped
      <3>2. entries[c] \in Entries
        BY <1>3, <3>1
      <3>3. DOMAIN entries' = DOMAIN entries /\ entries'[c] = [entries[c] EXCEPT !.method = TRUE]
            /\ \A d \in DOMAIN entries \ {c} : entries'[d] = entries[d]
        BY <1>3, <3>1
      <3>4. entries'[c].method /\ entries'[c].sub = entries[c].sub /\ entries'[c] \in Entries
        BY <3>2, <3>3 DEF Entries
      <3>5. entries' \in [DOMAIN entries' -> Entries]
        BY <1>3, <3>1, <3>3, <3>4
      <3> QED
        BY <3>3, <3>4, <3>5
    <2>5. ServicesTyped' /\ TasksTyped' /\ HandlesKnown' /\ ToldOnce'
      BY <1>0, <1>3, Quiet
    <2>6. BusTyped' /\ OpsTyped'
      BY <1>p, <1>0, <1>3, <2>2, <2>3 DEF BusTyped, OpsTyped
    <2>7. Hands' /\ Over'
      BY <1>p, <1>0, <1>1, <2>2 DEF Hands, Over
    <2>8. Alone'
      BY <1>p, <1>0, <1>w, <2>2, <2>3 DEF Alone, Beginning
    <2>9. CallsKnown' /\ FailedAlone'
      <3>1. CallsKnown'
        BY <1>p, <1>0, <1>o, <1>3, <1>w, <2>2, <2>3 DEF CallsKnown, Called, Does
      <3>2. FailedAlone'
        BY <1>p, <1>0, <1>3, <2>2 DEF FailedAlone
      <3> QED
        BY <3>1, <3>2
    <2>10. SubsKnown'
      BY <1>p, <1>0, <1>3, <1>w, <2>2, <2>3 DEF SubsKnown, Does, RequestsAssumption, Beginning
    <2>11. Held'
      BY <1>p, <1>0, <1>3, <2>2, <2>3 DEF Held, Does, RequestsAssumption
    <2>12. ActiveHeld'
      BY <1>p, <1>0, <1>3, <1>w, <2>2, <2>3 DEF ActiveHeld, Does, Beginning
    <2>13. EndsOnce' /\ CancelsStarted'
      BY <1>p, <1>0, <1>o, <2>2 DEF EndsOnce, CancelsStarted, Cancels, Does, Starting, Beginning
    <2>14. Confirmed'
      BY <1>p, <1>0, <1>w, <2>2 DEF Confirmed, Does
    <2> QED
      BY <2>5, <2>6, <2>7, <2>8, <2>9, <2>10, <2>11, <2>12, <2>13, <2>14 DEF IInv
  <1>4. CASE /\ c \notin DOMAIN entries /\ Fails(t, "Cancelled") /\ calling' = calling \ {c}
             /\ Posted(Withdrawn(c)) /\ UNCHANGED entries
    <2> DEFINE x == Doing("failed", c, "Cancelled")
    <2>1. x \in Ops /\ x.pc = "failed" /\ x.c = c /\ x.code = "Cancelled"
      BY <1>1, OpDoing DEF Pcs, Terminal
    <2>2. op' = [op EXCEPT ![t] = x]
      BY <1>4 DEF Fails
    <2> HIDE DEF x
    <2>3. /\ op' \in [Threads -> Ops] /\ op'[t].pc = "failed" /\ op'[t].c = c
          /\ op'[t].code = "Cancelled"
          /\ \A u \in Threads \ {t} : op'[u] = op[u]
      BY <1>p, <2>1, <2>2, OpSet
    <2> HIDE DEF c
    <2>4. /\ Later(IF c \in calling THEN {Task("reply", c, "failed")} ELSE {})
          /\ faults' \in 0..MaxFaults
      BY <1>p, <1>1, <1>4, WithdrawnPosted
    <2>5. ServicesTyped' /\ TasksTyped'
      BY <1>p, <1>0, <2>4 DEF ServicesTyped, Later
    <2>6. BusTyped' /\ OpsTyped'
      <3>1. IsFiniteSet(calling')
        BY <1>p, <1>4, FS_RemoveElement DEF BusTyped
      <3> QED
        BY <1>p, <1>0, <1>4, <2>3, <3>1 DEF BusTyped, OpsTyped
    <2>7. Hands' /\ Over'
      BY <1>p, <1>0, <1>1, <1>o, <2>3 DEF Hands, Over, Terminal
    <2>8. Alone'
      BY <1>p, <1>0, <1>o, <1>4, <1>w, <2>3 DEF Alone, Beginning
    <2>9. HandlesKnown' /\ ToldOnce'
      <3> DEFINE new == IF c \in calling THEN {Task("reply", c, "failed")} ELSE {}
      <3>1. \A y \in new : y.kind = "reply" /\ y.c = c /\ y.what = "failed" /\ c \in calling
        BY DEF Task
      <3>2. Later(new)
        BY <2>4
      <3> HIDE DEF new
      <3>3. HandlesKnown'
        BY <1>p, <1>0, <1>4, <3>1, <3>2, HandlesKept DEF Called, HandlesKnown, CallsKnown
      <3>4. ToldOnce'
        <4>1. \A d \in Calls : Settled(d) => Settled(d)'
          BY <1>0 DEF Settled
        <4>2. \A d \in Calls : d \in active' \/ d \notin begun' => outcome'[d] = "none"
          BY <1>p, <1>0 DEF ToldOnce
        <4>3. \A y \in new : y.kind # "done"
          BY <3>1
        <4> QED
          BY <1>p, <1>0, <3>2, <4>1, <4>2, <4>3, ToldKept
      <3> QED
        BY <3>3, <3>4
    <2>10. CallsKnown' /\ FailedAlone'
      <3>1. CallsKnown'
        BY <1>p, <1>0, <1>o, <1>4, <1>w, <2>3 DEF CallsKnown, Called, Does
      <3>2. FailedAlone'
        BY <1>p, <1>0, <1>4, <2>3 DEF FailedAlone
      <3> QED
        BY <3>1, <3>2
    <2>11. SubsKnown'
      BY <1>p, <1>0, <1>4, <1>w, <2>3 DEF SubsKnown, Does, RequestsAssumption, Beginning
    <2>12. Held'
      BY <1>p, <1>0, <1>4, <2>3 DEF Held, Does, RequestsAssumption
    <2>13. ActiveHeld'
      BY <1>p, <1>0, <1>4, <1>w, <2>3 DEF ActiveHeld, Does, Beginning
    <2>14. EndsOnce' /\ CancelsStarted'
      BY <1>p, <1>0, <1>o, <2>3 DEF EndsOnce, CancelsStarted, Cancels, Does, Starting, Beginning
    <2>15. Confirmed'
      BY <1>p, <1>0, <1>w, <2>3 DEF Confirmed, Does
    <2> QED
      BY <2>5, <2>6, <2>7, <2>8, <2>9, <2>10, <2>11, <2>12, <2>13, <2>14, <2>15 DEF IInv
  <1> QED
    BY <1>3, <1>4 DEF Store

\* A start that failed settles its request, whose call is no longer there.
LEMMA FailedKeeps ==
  ASSUME IInv, RequestsAssumption, NEW t \in Threads, Failed(t)
  PROVE  IInv'
  <1>p. /\ ServicesTyped /\ BusTyped /\ OpsTyped /\ TasksTyped /\ Hands /\ Over /\ Alone
        /\ HandlesKnown
        /\ CallsKnown /\ FailedAlone /\ SubsKnown /\ Held /\ ActiveHeld /\ EndsOnce
        /\ CancelsStarted
        /\ Confirmed /\ ToldOnce
    BY InvParts
  <1> DEFINE c    == op[t].c
             code == op[t].code
  <1>0. /\ op[t].pc = "failed" /\ Take(c, code) /\ Return(t)
        /\ UNCHANGED <<closing, accepted, entries, subs, calling, connected, portal, begun, told, confirmed>>
    BY DEF Failed, At, Bus, History, Take
  <1>1. c \in Calls /\ c \in begun /\ code \in Terminal /\ ~closing /\ c \notin calling
    BY <1>p, <1>0 DEF Hands, ServicesTyped, Over, FailedAlone
  <1>o. op \in [Threads -> Ops] /\ op[t].c = c
    BY <1>p DEF OpsTyped
  <1>w. \A u \in Threads : op[u].pc \in Beginning \cup {"end", "install", "store"} => u # t
    BY <1>0 DEF Beginning
  <1>2. op' \in [Threads -> Ops] /\ op'[t].pc = "idle" /\ \A u \in Threads \ {t} : op'[u] = op[u]
    BY <1>p, <1>0, OpReturns
  <1> HIDE DEF c, code
  <1>3. /\ \/ c \in active /\ active' = active \ {c} /\ outcome' = [outcome EXCEPT ![c] = code]
           \/ c \notin active /\ active' = active /\ outcome' = outcome
        /\ \E new : /\ Later(new) /\ faults' \in 0..MaxFaults
                    /\ \A x \in new : c \in active /\ x = Task("done", c, code)
    <2>1. CASE c \in active
      <3>1. active' = active \ {c} /\ outcome' = [outcome EXCEPT ![c] = code]
            /\ Posted(Withdrawn(c) \o Result(c, code))
        BY <1>0, <1>1, <2>1 DEF Take
      <3>2. Later({Task("done", c, code)} \cup IF c \in calling THEN {Task("reply", c, "failed")} ELSE {})
            /\ faults' \in 0..MaxFaults
        BY <1>p, <1>1, <3>1, ResultPosted
      <3> QED
        BY <1>1, <2>1, <3>1, <3>2
    <2>2. CASE c \notin active
      <3>1. active' = active /\ outcome' = outcome /\ Posted(Withdrawn(c))
        BY <1>0, <1>1, <2>2 DEF Take
      <3>2. Later({}) /\ faults' \in 0..MaxFaults
        BY <1>p, <1>1, <3>1, WithdrawnPosted
      <3> QED
        BY <2>2, <3>1, <3>2
    <2> QED
      BY <2>1, <2>2
  <1>4. ServicesTyped' /\ TasksTyped' /\ HandlesKnown' /\ ToldOnce'
    BY <1>0, <1>1, <1>3, Settles
  <1>5. BusTyped' /\ OpsTyped'
    BY <1>p, <1>0, <1>2 DEF BusTyped, OpsTyped
  <1>6. Hands' /\ Over'
    BY <1>p, <1>0, <1>1, <1>2 DEF Hands, Over
  <1>7. Alone'
    BY <1>p, <1>0, <1>o, <1>w, <1>2, <1>3 DEF Alone, Beginning
  <1>8. CallsKnown' /\ FailedAlone'
    <2>1. CallsKnown'
      BY <1>p, <1>0, <1>w, <1>2 DEF CallsKnown, Called, Does
    <2>2. FailedAlone'
      BY <1>p, <1>0, <1>2 DEF FailedAlone
    <2> QED
      BY <2>1, <2>2
  <1>9. SubsKnown'
    BY <1>p, <1>0, <1>w, <1>2 DEF SubsKnown, Does, RequestsAssumption, Beginning
  <1>10. Held'
    <2>1. c \notin DOMAIN entries
      BY <1>p, <1>0, <1>o DEF Held, Does
    <2> QED
      BY <1>p, <1>0, <1>2, <1>3, <2>1 DEF Held, Does, RequestsAssumption
  <1>11. ActiveHeld'
    BY <1>p, <1>0, <1>o, <1>2, <1>3 DEF ActiveHeld, Does
  <1>12. EndsOnce' /\ CancelsStarted'
    BY <1>p, <1>0, <1>o, <1>2 DEF EndsOnce, CancelsStarted, Cancels, Does, Starting, Beginning
  <1>13. Confirmed'
    <2>1. c \in active => c \notin confirmed
      BY <1>p, <1>0, <1>1, <1>o DEF Confirmed, CancelsStarted, Cancels, Does, Starting
    <2> QED
      BY <1>p, <1>0, <1>1, <1>w, <1>2, <1>3, <2>1 DEF Confirmed, Does, ServicesTyped
  <1> QED
    BY <1>4, <1>5, <1>6, <1>7, <1>8, <1>9, <1>10, <1>11, <1>12, <1>13 DEF IInv

\* A request that has started is being cancelled.
LEMMA CancelKeeps ==
  ASSUME IInv, RequestsAssumption, NEW t \in Threads, NEW c \in Calls, Cancel(t, c)
  PROVE  IInv'
  <1>p. /\ ServicesTyped /\ BusTyped /\ OpsTyped /\ TasksTyped /\ Hands /\ Over /\ Alone
        /\ HandlesKnown
        /\ CallsKnown /\ FailedAlone /\ SubsKnown /\ Held /\ ActiveHeld /\ EndsOnce
        /\ CancelsStarted
        /\ Confirmed /\ ToldOnce
    BY InvParts
  <1>0. /\ op[t].pc = "idle" /\ ~closing /\ c \in active
        /\ UNCHANGED <<active, closing, accepted, outcome, entries, subs, calling, connected, portal, tasks,
                       begun, told, confirmed, faults>>
    BY DEF Cancel, At, Services, Bus, History
  <1>1. c \in accepted /\ \A u \in Threads : ~Does(u, c, Starting)
    <2>1. \A u \in Threads : op[u].c = c /\ op[u].pc # "idle" => op[u].pc \notin {"subscribe", "register", "call", "store", "failed"}
      BY DEF Cancel, With
    <2> QED
      BY <1>p, <1>0, <2>1 DEF Does, Starting, Beginning, ServicesTyped
  <1>2. /\ op' \in [Threads -> Ops] /\ op'[t].pc = "cancel" /\ op'[t].c = c
        /\ op'[t].code = "Cancelled"
        /\ \A u \in Threads \ {t} : op'[u] = op[u]
    <2> DEFINE x == Doing("cancel", c, "Cancelled")
    <2>1. x \in Ops /\ x.pc = "cancel" /\ x.c = c /\ x.code = "Cancelled"
      BY OpDoing DEF Pcs, Terminal
    <2>2. op' = [op EXCEPT ![t] = x]
      BY DEF Cancel
    <2> HIDE DEF x
    <2> QED
      BY <1>p, <2>1, <2>2, OpSet
  <1>w. \A u \in Threads : op[u].pc \in Beginning \cup {"end", "install", "store", "failed"} => u # t
    BY <1>0 DEF Beginning
  <1>4. ServicesTyped' /\ TasksTyped' /\ HandlesKnown' /\ ToldOnce'
    BY <1>0, Quiet DEF Smoothly
  <1>5. BusTyped' /\ OpsTyped'
    BY <1>p, <1>0, <1>2 DEF BusTyped, OpsTyped
  <1>6. Hands' /\ Over'
    BY <1>p, <1>0, <1>1, <1>2 DEF Hands, Over
  <1>7. Alone'
    BY <1>p, <1>0, <1>1, <1>w, <1>2 DEF Alone, Beginning, Does, Starting
  <1>8. CallsKnown' /\ FailedAlone'
    <2>1. CallsKnown'
      BY <1>p, <1>0, <1>w, <1>2 DEF CallsKnown, Called, Does
    <2>2. FailedAlone'
      BY <1>p, <1>0, <1>2 DEF FailedAlone
    <2> QED
      BY <2>1, <2>2
  <1>9. SubsKnown'
    BY <1>p, <1>0, <1>w, <1>2 DEF SubsKnown, Does, RequestsAssumption, Beginning
  <1>10. Held'
    BY <1>p, <1>0, <1>2 DEF Held, Does, RequestsAssumption
  <1>11. ActiveHeld'
    BY <1>p, <1>0, <1>w, <1>2 DEF ActiveHeld, Does, Beginning
  <1>12. EndsOnce' /\ CancelsStarted'
    BY <1>p, <1>0, <1>1, <1>2 DEF EndsOnce, CancelsStarted, Cancels, Does, Starting, Beginning
  <1>13. Confirmed'
    BY <1>p, <1>0, <1>w, <1>2 DEF Confirmed, Does
  <1> QED
    BY <1>4, <1>5, <1>6, <1>7, <1>8, <1>9, <1>10, <1>11, <1>12, <1>13 DEF IInv

\* The backend's entry is taken, by one who comes to end the request.
LEMMA Taken ==
  ASSUME IInv, RequestsAssumption, NEW t \in Threads, NEW c \in Calls, NEW code \in Terminal,
         TakeEntry(t, c, "end", code), ~closing,
         op[t].pc = "idle" \/ (op[t].pc \in {"cancel", "subscribe2"} /\ op[t].c = c),
         code = "Cancelled" => op[t].pc = "cancel",
         \A u \in Threads : op[u].pc \in Beginning => op[u].c # c,
         UNCHANGED <<active, closing, accepted, begun, subs, calling, connected, portal>>
  PROVE  /\ BusTyped' /\ OpsTyped' /\ Hands' /\ Over' /\ Alone' /\ CallsKnown' /\ FailedAlone'
         /\ SubsKnown' /\ Held' /\ ActiveHeld' /\ EndsOnce' /\ CancelsStarted'
         /\ \A d \in Calls, u \in Threads : Does(u, d, {"end"}) /\ op[u].code = "Cancelled" =>
               Does(u, d, {"end"})' /\ op'[u].code = "Cancelled"
         /\ c \in DOMAIN entries => c \in active /\ Does(t, c, {"end"})' /\ op'[t].code = code
  <1>p. /\ ServicesTyped /\ BusTyped /\ OpsTyped /\ TasksTyped /\ Hands /\ Over /\ Alone
        /\ HandlesKnown
        /\ CallsKnown /\ FailedAlone /\ SubsKnown /\ Held /\ ActiveHeld /\ EndsOnce
        /\ CancelsStarted
        /\ Confirmed /\ ToldOnce
    BY InvParts
  <1>w. \A u \in Threads : op[u].pc \in Beginning \cup {"end", "install", "store", "failed"} => u # t
    BY DEF Beginning
  <1>1. CASE c \in DOMAIN entries
    <2> DEFINE x == [Doing("end", c, code) EXCEPT !.entry = entries[c]]
    <2>1. entries[c] \in Entries /\ c \in active /\ c \in accepted
          /\ \A u \in Threads : ~Does(u, c, {"subscribe", "register", "failed", "end"})
      BY <1>p, <1>1 DEF OpsTyped, Held, Hands, ActiveHeld, ServicesTyped
    <2>2. x \in Ops /\ x.pc = "end" /\ x.c = c /\ x.code = code /\ x.entry = entries[c]
      BY <2>1 DEF Doing, Idle, Ops, Pcs, Entries
    <2>3. op' = [op EXCEPT ![t] = x] /\ entries' = Drop(entries, c)
      BY <1>1 DEF TakeEntry
    <2> HIDE DEF x
    <2>4. /\ op' \in [Threads -> Ops] /\ op'[t].pc = "end" /\ op'[t].c = c /\ op'[t].code = code
          /\ op'[t].entry = entries[c] /\ \A u \in Threads \ {t} : op'[u] = op[u]
      BY <1>p, <2>2, <2>3, OpSet
    <2>5. DOMAIN entries' = DOMAIN entries \ {c} /\ \A d \in DOMAIN entries' : entries'[d] = entries[d]
      BY <2>3 DEF Drop
    <2>6. BusTyped' /\ OpsTyped'
      <3>1. entries' \in [DOMAIN entries' -> Entries]
        BY <1>p, <2>3, <2>5 DEF OpsTyped, Drop
      <3> QED
        BY <1>p, <2>4, <2>5, <3>1 DEF BusTyped, OpsTyped
    <2>7. Hands' /\ Over'
      BY <1>p, <2>1, <2>4 DEF Hands, Over
    <2>8. Alone'
      BY <1>p, <1>w, <2>4, <2>5 DEF Alone, Beginning
    <2>9. CallsKnown' /\ FailedAlone'
      <3>1. CallsKnown'
        BY <1>p, <1>w, <2>4, <2>5 DEF CallsKnown, Called, Does
      <3>2. FailedAlone'
        BY <1>p, <2>4 DEF FailedAlone
      <3> QED
        BY <3>1, <3>2
    <2>10. SubsKnown'
      BY <1>p, <1>w, <2>4, <2>5 DEF SubsKnown, Does, RequestsAssumption, Beginning
    <2>11. Held'
      BY <1>p, <2>4, <2>5 DEF Held, Does, RequestsAssumption
    <2>12. ActiveHeld'
      BY <1>p, <1>w, <2>4, <2>5 DEF ActiveHeld, Does, Beginning
    <2>13. EndsOnce'
      BY <1>p, <2>1, <2>4 DEF EndsOnce, Does
    <2>14. CancelsStarted'
      BY <1>p, <2>1, <2>4 DEF CancelsStarted, Cancels, Does, Starting, Beginning
    <2> QED
      BY <1>w, <2>1, <2>4, <2>6, <2>7, <2>8, <2>9, <2>10, <2>11, <2>12, <2>13, <2>14 DEF Does
  <1>2. CASE c \notin DOMAIN entries
    <2>1. Return(t) /\ entries' = entries
      BY <1>2 DEF TakeEntry
    <2>2. op' \in [Threads -> Ops] /\ op'[t].pc = "idle" /\ \A u \in Threads \ {t} : op'[u] = op[u]
      BY <1>p, <2>1, OpReturns
    <2>6. BusTyped' /\ OpsTyped'
      BY <1>p, <2>1, <2>2 DEF BusTyped, OpsTyped
    <2>7. Hands' /\ Over'
      BY <1>p, <2>2 DEF Hands, Over
    <2>8. Alone'
      BY <1>p, <1>w, <2>1, <2>2 DEF Alone, Beginning
    <2>9. CallsKnown' /\ FailedAlone'
      <3>1. CallsKnown'
        BY <1>p, <1>w, <2>1, <2>2 DEF CallsKnown, Called, Does
      <3>2. FailedAlone'
        BY <1>p, <2>2 DEF FailedAlone
      <3> QED
        BY <3>1, <3>2
    <2>10. SubsKnown'
      BY <1>p, <1>w, <2>1, <2>2 DEF SubsKnown, Does, RequestsAssumption, Beginning
    <2>11. Held'
      BY <1>p, <2>1, <2>2 DEF Held, Does, RequestsAssumption
    <2>12. ActiveHeld'
      BY <1>p, <1>w, <2>1, <2>2 DEF ActiveHeld, Does, Beginning
    <2>13. EndsOnce' /\ CancelsStarted'
      BY <1>p, <2>2 DEF EndsOnce, CancelsStarted, Cancels, Does, Starting, Beginning
    <2> QED
      BY <1>2, <1>w, <2>2, <2>6, <2>7, <2>8, <2>9, <2>10, <2>11, <2>12, <2>13 DEF Does
  <1> QED
    BY <1>1, <1>2

LEMMA BackendCancelKeeps ==
  ASSUME IInv, RequestsAssumption, NEW t \in Threads, BackendCancel(t)
  PROVE  IInv'
  <1>p. /\ ServicesTyped /\ BusTyped /\ OpsTyped /\ TasksTyped /\ Hands /\ Over /\ Alone
        /\ HandlesKnown
        /\ CallsKnown /\ FailedAlone /\ SubsKnown /\ Held /\ ActiveHeld /\ EndsOnce
        /\ CancelsStarted
        /\ Confirmed /\ ToldOnce
    BY InvParts
  <1>c. op[t].pc = "cancel" /\ op[t].c \in Calls
    BY <1>p DEF BackendCancel, At, Hands, ServicesTyped
  <1>o. PICK c \in Calls : op[t].c = c
    BY <1>c
  <1>0. /\ op[t].pc = "cancel" /\ TakeEntry(t, c, "end", "Cancelled") /\ "Cancelled" \in Terminal
        /\ confirmed' = (IF c \in DOMAIN entries THEN confirmed \cup {c} ELSE confirmed)
        /\ UNCHANGED <<active, closing, accepted, outcome, subs, calling, connected, portal, tasks, begun,
                       told, faults>>
    BY <1>o DEF BackendCancel, At, Services, Bus, Terminal
  <1>1. c \in Calls /\ ~closing /\ c \in begun
    BY <1>p, <1>0, <1>o DEF Hands, ServicesTyped, Over
  <1>2. \A u \in Threads : op[u].pc \in Beginning => op[u].c # c
    BY <1>p, <1>0, <1>o DEF Alone, Beginning
  <1>3. /\ BusTyped' /\ OpsTyped' /\ Hands' /\ Over' /\ Alone' /\ CallsKnown' /\ FailedAlone'
        /\ SubsKnown' /\ Held' /\ ActiveHeld' /\ EndsOnce' /\ CancelsStarted'
        /\ \A d \in Calls, u \in Threads : Does(u, d, {"end"}) /\ op[u].code = "Cancelled" =>
              Does(u, d, {"end"})' /\ op'[u].code = "Cancelled"
        /\ c \in DOMAIN entries => c \in active /\ Does(t, c, {"end"})' /\ op'[t].code = "Cancelled"
    BY <1>0, <1>1, <1>2, <1>o, Taken DEF Does
  <1>4. ServicesTyped' /\ TasksTyped'
    <2>1. confirmed' \subseteq begun'
      BY <1>p, <1>0, <1>1 DEF ServicesTyped
    <2> QED
      BY <1>p, <1>0, <2>1 DEF ServicesTyped, TasksTyped
  <1>5. HandlesKnown' /\ ToldOnce'
    <2>1. Later({})
      BY <1>p, <1>0, NothingPosted
    <2>2. HandlesKnown'
      BY <1>p, <1>0, <2>1, HandlesKept DEF Called, HandlesKnown
    <2> QED
      BY <1>p, <1>0, <2>2 DEF ToldOnce, Settled
  <1>6. Confirmed'
    <2>1. ASSUME NEW d \in confirmed'
          PROVE  IF d \in active' THEN \E u \in Threads : Does(u, d, {"end"})' /\ op'[u].code = "Cancelled"
                 ELSE outcome'[d] = "Cancelled"
      <3>1. CASE d = c /\ c \in DOMAIN entries
        BY <1>0, <1>3, <3>1 DEF Does
      <3>2. CASE d \in confirmed
        BY <1>p, <1>0, <1>1, <1>3, <3>2 DEF Confirmed, ServicesTyped
      <3> QED
        BY <1>0, <2>1, <3>1, <3>2
    <2> QED
      BY <2>1 DEF Confirmed, Does
  <1> QED
    BY <1>3, <1>4, <1>5, <1>6 DEF IInv

\* A task that calls nobody back is run.
LEMMA Ran ==
  ASSUME IInv, RequestsAssumption, NEW kind \in {"reply", "response"}, Runs(kind),
         UNCHANGED <<active, closing, accepted, outcome, calling, portal, begun, told, confirmed, faults>>
  PROVE  /\ ServicesTyped' /\ TasksTyped' /\ HandlesKnown' /\ ToldOnce'
         /\ Next_ \in Tasks /\ Called(Next_.c) /\ op[UI].pc = "idle"
         /\ kind = "reply" => Next_.c \notin calling /\ Next_.what \in {"failed", portal[Next_.c].handle}
         /\ \A u \in Threads : op[u].pc \in Beginning => op[u].c # Next_.c
  <1>p. ServicesTyped /\ TasksTyped /\ HandlesKnown /\ ToldOnce /\ Alone
    BY InvParts
  <1>1. /\ Earlier /\ 1 \in 1..Len(tasks) /\ Next_ = tasks[1] /\ Next_ \in Tasks
        /\ Next_.kind = kind /\ op[UI].pc = "idle"
    BY <1>p, TaskRun
  <1>2. ServicesTyped' /\ TasksTyped'
    BY <1>p, <1>1 DEF ServicesTyped, Earlier
  <1>3. HandlesKnown'
    BY <1>p, <1>1, HandlesRun
  <1>4. ToldOnce'
    BY <1>p, <1>1, ToldRun
  <1>5. Called(Next_.c) /\ kind = "reply" => Next_.c \notin calling /\ Next_.what \in {"failed", portal[Next_.c].handle}
    BY <1>p, <1>1 DEF HandlesKnown, Called
  <1>6. Called(Next_.c)
    BY <1>p, <1>1 DEF HandlesKnown, Called
  <1>7. \A u \in Threads : op[u].pc \in Beginning => op[u].c # Next_.c
    BY <1>p, <1>6 DEF Alone, Called
  <1> QED
    BY <1>1, <1>2, <1>3, <1>4, <1>5, <1>6, <1>7

\* A request ends: what it had on the bus goes, and it is settled.
LEMMA EndKeeps ==
  ASSUME IInv, RequestsAssumption, NEW t \in Threads, End(t)
  PROVE  IInv'
  <1>p. /\ ServicesTyped /\ BusTyped /\ OpsTyped /\ TasksTyped /\ Hands /\ Over /\ Alone
        /\ HandlesKnown
        /\ CallsKnown /\ FailedAlone /\ SubsKnown /\ Held /\ ActiveHeld /\ EndsOnce
        /\ CancelsStarted
        /\ Confirmed /\ ToldOnce
    BY InvParts
  <1>c. op[t].pc = "end" /\ op[t].c \in Calls /\ op[t].code \in Terminal /\ op[t].entry \in Entries
    BY <1>p DEF End, At, Hands, ServicesTyped
  <1>o. PICK c \in Calls, code \in Terminal, entry \in Entries :
           op[t].c = c /\ op[t].code = code /\ op[t].entry = entry
    BY <1>c
  <1>0. /\ op[t].pc = "end" /\ Return(t) /\ subs' = subs \ {<<c, entry.sub>>}
        /\ portal' = (IF code = "Cancelled" /\ portal[c].handle = entry.sub
                      THEN [portal EXCEPT ![c].dialog = "closed"] ELSE portal)
        /\ UNCHANGED <<closing, accepted, entries, connected, begun, told, confirmed>>
    BY <1>o DEF End, At, History, Take
  <1>1. c \in begun /\ ~closing /\ c \notin DOMAIN entries /\ entry.sub \in Handles
    <2>1. c \notin DOMAIN entries
      BY <1>p, <1>0, <1>o DEF Held, Does
    <2> QED
      BY <1>p, <1>0, <1>o, <2>1 DEF Hands, ServicesTyped, Over, Entries
  <1>2. op' \in [Threads -> Ops] /\ op'[t].pc = "idle" /\ \A u \in Threads \ {t} : op'[u] = op[u]
    BY <1>p, <1>0, OpReturns
  <1>w. /\ \A u \in Threads : op[u].pc \in Beginning \cup {"failed", "install", "store"} => u # t
        /\ \A u \in Threads \ {t} : ~Does(u, c, {"end"})
    BY <1>p, <1>0, <1>o DEF Beginning, EndsOnce, Does
  <1>3. /\ \/ c \in active /\ active' = active \ {c} /\ outcome' = [outcome EXCEPT ![c] = code]
           \/ c \notin active /\ active' = active /\ outcome' = outcome
        /\ calling' = IF entry.method THEN calling \ {c} ELSE calling
        /\ \E new : /\ Later(new) /\ faults' \in 0..MaxFaults
                    /\ \A x \in new : \/ c \in active /\ x = Task("done", c, code)
                                      \/ c \in calling \ calling' /\ x = Task("reply", c, "failed")
    <2>1. CASE entry.method /\ c \in active
      <3>1. /\ active' = active \ {c} /\ outcome' = [outcome EXCEPT ![c] = code]
            /\ calling' = calling \ {c}
            /\ Posted(Withdrawn(c) \o Result(c, code))
        BY <1>0, <1>1, <1>o, <2>1 DEF Take, End
      <3>2. Later({Task("done", c, code)} \cup IF c \in calling THEN {Task("reply", c, "failed")} ELSE {})
            /\ faults' \in 0..MaxFaults
        BY <1>p, <1>1, <3>1, ResultPosted
      <3> QED
        BY <2>1, <3>1, <3>2
    <2>2. CASE entry.method /\ c \notin active
      <3>1. /\ active' = active /\ outcome' = outcome /\ Posted(Withdrawn(c))
            /\ calling' = calling \ {c}
        BY <1>0, <1>1, <1>o, <2>2 DEF Take, End
      <3>2. /\ Later(IF c \in calling THEN {Task("reply", c, "failed")} ELSE {})
            /\ faults' \in 0..MaxFaults
        BY <1>p, <1>1, <3>1, WithdrawnPosted
      <3> QED
        BY <2>2, <3>1, <3>2
    <2>3. CASE ~entry.method /\ c \in active
      <3>1. /\ active' = active \ {c} /\ outcome' = [outcome EXCEPT ![c] = code]
            /\ calling' = calling
            /\ Posted(<<Task("done", c, code)>>)
        BY <1>0, <1>1, <1>o, <2>3 DEF End, Result
      <3>2. Task("done", c, code) \in Tasks
        BY DEF Task, Tasks
      <3>3. Later({Task("done", c, code)}) /\ faults' \in 0..MaxFaults
        BY <1>p, <3>1, <3>2, OnePosted
      <3> QED
        BY <2>3, <3>1, <3>3
    <2>4. CASE ~entry.method /\ c \notin active
      <3>1. /\ active' = active /\ outcome' = outcome /\ calling' = calling /\ tasks' = tasks
            /\ Smoothly
        BY <1>0, <1>1, <1>o, <2>4 DEF End
      <3>2. Later({}) /\ faults' \in 0..MaxFaults
        BY <1>p, <3>1, NothingPosted DEF Smoothly, ServicesTyped
      <3> QED
        BY <2>4, <3>1, <3>2
    <2> QED
      BY <2>1, <2>2, <2>3, <2>4
  <1>4. /\ portal' \in [Calls -> Portals]
        /\ \A d \in Calls : /\ portal'[d].handle = portal[d].handle
                            /\ portal'[d].dialog = "unknown" <=> portal[d].dialog = "unknown"
    <2>1. CASE code = "Cancelled" /\ portal[c].handle = entry.sub
      <3>1. portal[c].dialog # "unknown" /\ portal[c] \in Portals
        BY <1>p, <1>1, <2>1 DEF HandlesKnown, Handles, BusTyped
      <3>2. /\ portal'[c] = [portal[c] EXCEPT !.dialog = "closed"] /\ portal' \in [Calls -> Portals]
            /\ \A d \in Calls \ {c} : portal'[d] = portal[d]
        BY <1>p, <1>0, <2>1, <3>1 DEF BusTyped, Portals
      <3>3. portal'[c].handle = portal[c].handle /\ portal'[c].dialog = "closed"
        BY <3>1, <3>2 DEF Portals
      <3>4. ASSUME NEW d \in Calls
            PROVE  /\ portal'[d].handle = portal[d].handle
                   /\ portal'[d].dialog = "unknown" <=> portal[d].dialog = "unknown"
        <4>1. CASE d = c
          BY <3>1, <3>3, <4>1
        <4>2. CASE d # c
          BY <3>2, <4>2
        <4> QED
          BY <4>1, <4>2
      <3>5. portal' \in [Calls -> Portals]
        BY <3>2
      <3> QED
        BY <3>4, <3>5, Zenon
    <2>2. CASE ~(code = "Cancelled" /\ portal[c].handle = entry.sub)
      BY <1>p, <1>0, <2>2 DEF BusTyped
    <2> QED
      BY <2>1, <2>2
  <1>5. calling' \subseteq calling /\ \A d \in calling \ calling' : d = c /\ entry.method
    BY <1>3
  <1>6. ServicesTyped' /\ TasksTyped' /\ HandlesKnown' /\ ToldOnce'
    BY <1>0, <1>1, <1>3, <1>4, <1>5, Settles
  <1>7. BusTyped' /\ OpsTyped'
    <2>1. IsFiniteSet(calling')
      BY <1>p, <1>5, FS_Subset DEF BusTyped
    <2> QED
      BY <1>p, <1>0, <1>2, <1>4, <1>5, <2>1 DEF BusTyped, OpsTyped
  <1>8. Hands' /\ Over'
    <2>1. \A u \in Threads : op[u].pc # "idle" => op[u].c \in Calls
      BY <1>p DEF Hands, ServicesTyped
    <2> QED
      BY <1>p, <1>0, <1>1, <1>2, <1>4, <2>1 DEF Hands, Over
  <1>9. Alone'
    <2>1. \A u \in Threads : op[u].pc \in Beginning => op[u].c \in Calls /\ op[u].c # c
      BY <1>p, <1>0, <1>o, <1>w DEF Alone, Beginning, ServicesTyped
    <2> QED
      BY <1>p, <1>0, <1>w, <1>2, <1>3, <1>4, <2>1 DEF Alone, Beginning
  <1>10. CallsKnown' /\ FailedAlone'
    <2>1. CallsKnown'
      <3>1. ASSUME NEW d \in calling'
            PROVE  /\ Called(d)'
                   /\ \/ \E u \in Threads : op'[u].c = d /\ op'[u].pc = "store"
                      \/ d \in DOMAIN entries' /\ entries'[d].method
                      \/ \E u \in Threads : op'[u].c = d /\ op'[u].pc = "end" /\ op'[u].entry.method
        <4>1. d \in calling /\ (d = c => ~entry.method)
          BY <1>3, <3>1
        <4>2. Called(d)'
          BY <1>p, <1>4, <4>1 DEF CallsKnown, Called, BusTyped
        <4>3. \/ \E u \in Threads : Does(u, d, {"store"})
              \/ d \in DOMAIN entries /\ entries[d].method
              \/ \E u \in Threads : Does(u, d, {"end"}) /\ op[u].entry.method
          BY <1>p, <4>1 DEF CallsKnown
        <4>4. \A u \in Threads : Does(u, d, {"end"}) /\ op[u].entry.method => u # t
          BY <1>o, <4>1 DEF Does
        <4> QED
          BY <1>0, <1>w, <1>2, <4>2, <4>3, <4>4 DEF Does
      <3> QED
        BY <3>1 DEF CallsKnown, Does, Called
    <2>2. FailedAlone'
      BY <1>p, <1>5, <1>2 DEF FailedAlone
    <2> QED
      BY <2>1, <2>2
  <1>11. SubsKnown'
    <2>1. ASSUME NEW s \in subs'
          PROVE  \/ s[1] \in DOMAIN entries /\ entries[s[1]].sub = s[2]
                 \/ \E u \in Threads \ {t} : Does(u, s[1], {"register"}) /\ s[2] = "predicted"
                 \/ \E u \in Threads \ {t} : Does(u, s[1], {"end"}) /\ op[u].entry.sub = s[2]
                 \/ UI # t /\ Does(UI, s[1], {"install"}) /\ op[UI].code = s[2]
      <3>1. s \in subs /\ s = <<s[1], s[2]>> /\ s # <<c, entry.sub>>
        BY <1>p, <1>0, <2>1 DEF BusTyped
      <3>2. ~(Does(t, s[1], {"end"}) /\ op[t].entry.sub = s[2])
        BY <1>o, <3>1 DEF Does
      <3> QED
        BY <1>p, <1>0, <3>1, <3>2 DEF SubsKnown, Does
    <2> QED
      BY <1>0, <1>2, <2>1 DEF SubsKnown, Does, RequestsAssumption
  <1>12. Held'
    <2>1. \A d \in DOMAIN entries : d # c /\ d \in Calls /\ d \in active'
      BY <1>p, <1>1, <1>3 DEF OpsTyped, Held
    <2> QED
      BY <1>p, <1>0, <1>2, <1>4, <2>1 DEF Held, Does, RequestsAssumption
  <1>13. ActiveHeld'
    BY <1>p, <1>0, <1>o, <1>2, <1>3 DEF ActiveHeld, Does
  <1>14. EndsOnce' /\ CancelsStarted'
    BY <1>p, <1>0, <1>2 DEF EndsOnce, CancelsStarted, Cancels, Does, Starting, Beginning
  <1>15. Confirmed'
    <2>1. c \in active /\ c \in confirmed => code = "Cancelled"
      BY <1>p, <1>1, <1>o, <1>w DEF Confirmed, Does
    <2>2. ASSUME NEW d \in confirmed
          PROVE  IF d \in active' THEN \E u \in Threads : op'[u].c = d /\ op'[u].pc = "end" /\ op'[u].code = "Cancelled"
                 ELSE outcome'[d] = "Cancelled"
      <3>1. d \in Calls
        BY <1>p, <2>2 DEF ServicesTyped
      <3>2. CASE d = c
        BY <1>p, <1>1, <1>3, <2>1, <3>2 DEF Confirmed, ServicesTyped
      <3>3. CASE d # c
        BY <1>p, <1>1, <1>o, <1>2, <1>3, <3>1, <3>3 DEF Confirmed, ServicesTyped, Does
      <3> QED
        BY <3>2, <3>3
    <2> QED
      BY <1>0, <2>2 DEF Confirmed, Does
  <1> QED
    BY <1>6, <1>7, <1>8, <1>9, <1>10, <1>11, <1>12, <1>13, <1>14, <1>15 DEF IInv

\* The reply is known: the request goes on, listens to another handle, or ends.
LEMMA ReplyKeeps ==
  ASSUME IInv, RequestsAssumption, Reply
  PROVE  IInv'
  <1>p. /\ ServicesTyped /\ BusTyped /\ OpsTyped /\ TasksTyped /\ Hands /\ Over /\ Alone
        /\ HandlesKnown
        /\ CallsKnown /\ FailedAlone /\ SubsKnown /\ Held /\ ActiveHeld /\ EndsOnce
        /\ CancelsStarted
        /\ Confirmed /\ ToldOnce
    BY InvParts
  <1>0. /\ Runs("reply")
        /\ UNCHANGED <<active, closing, accepted, outcome, subs, calling, connected, portal, begun, told,
                       confirmed, faults>>
    BY DEF Reply, Services, Bus, History
  <1>1. /\ ServicesTyped' /\ TasksTyped' /\ HandlesKnown' /\ ToldOnce'
        /\ Next_ \in Tasks /\ Called(Next_.c) /\ op[UI].pc = "idle"
        /\ Next_.c \notin calling /\ Next_.what \in {"failed", portal[Next_.c].handle}
        /\ \A u \in Threads : op[u].pc \in Beginning => op[u].c # Next_.c
    BY <1>0, Ran
  <1>o. PICK c \in Calls, what \in Handles \cup {"none", "failed"} : Next_.c = c /\ Next_.what = what
    BY <1>p, <1>1, TaskFields DEF BusTyped, Portals
  <1>u. UI \in Threads
    BY DEF RequestsAssumption
  <1>w. \A u \in Threads : op[u].pc # "idle" => u # UI
    BY <1>1
  <1>2. CASE UNCHANGED <<op, entries>>
    <2>1. BusTyped' /\ OpsTyped' /\ Hands' /\ Over' /\ Alone'
      BY <1>p, <1>0, <1>2 DEF BusTyped, OpsTyped, Hands, Over, Alone
    <2>2. CallsKnown' /\ FailedAlone' /\ SubsKnown' /\ Held' /\ ActiveHeld'
      BY <1>p, <1>0, <1>2 DEF CallsKnown, FailedAlone, SubsKnown, Held, ActiveHeld, Called, Does
    <2>3. EndsOnce' /\ CancelsStarted' /\ Confirmed'
      BY <1>p, <1>0, <1>2 DEF EndsOnce, CancelsStarted, Confirmed, Cancels, Does
    <2> QED
      BY <1>1, <2>1, <2>2, <2>3 DEF IInv
  <1>3. CASE ~closing /\ TakeEntry(UI, c, "end", "Error")
    <2>1. /\ BusTyped' /\ OpsTyped' /\ Hands' /\ Over' /\ Alone' /\ CallsKnown' /\ FailedAlone'
          /\ SubsKnown' /\ Held' /\ ActiveHeld' /\ EndsOnce' /\ CancelsStarted'
          /\ \A d \in Calls, u \in Threads : Does(u, d, {"end"}) /\ op[u].code = "Cancelled" =>
                Does(u, d, {"end"})' /\ op'[u].code = "Cancelled"
      <3>1. "Error" \in Terminal /\ "Error" # "Cancelled"
        BY DEF Terminal
      <3> QED
        BY <1>0, <1>1, <1>o, <1>u, <1>3, <3>1, Taken
    <2>2. Confirmed'
      BY <1>p, <1>0, <2>1 DEF Confirmed, Does, ServicesTyped
    <2> QED
      BY <1>1, <2>1, <2>2 DEF IInv
  <1>4. CASE /\ c \in DOMAIN entries /\ ~closing /\ what # "failed"
             /\ entries' = [entries EXCEPT ![c].method = FALSE]
             /\ IF entries[c].sub = what THEN UNCHANGED op
                ELSE op' = [op EXCEPT ![UI] = Doing("subscribe2", c, what)]
    <2>1. /\ DOMAIN entries' = DOMAIN entries /\ entries' \in [DOMAIN entries' -> Entries]
          /\ \A d \in DOMAIN entries : entries'[d].sub = entries[d].sub
          /\ \A d \in DOMAIN entries \ {c} : entries'[d] = entries[d]
      <3>1. entries \in [DOMAIN entries -> Entries] /\ FALSE \in BOOLEAN
        BY <1>p DEF OpsTyped
      <3>2. entries[c] \in Entries
        BY <1>4, <3>1
      <3>3. DOMAIN entries' = DOMAIN entries /\ entries'[c] = [entries[c] EXCEPT !.method = FALSE]
            /\ \A d \in DOMAIN entries \ {c} : entries'[d] = entries[d]
        BY <1>4, <3>1
      <3>4. entries'[c].sub = entries[c].sub /\ entries'[c] \in Entries
        BY <3>2, <3>3 DEF Entries
      <3>5. entries' \in [DOMAIN entries' -> Entries]
        BY <1>4, <3>1, <3>3, <3>4
      <3> QED
        BY <3>3, <3>4, <3>5
    <2>2. what = portal[c].handle /\ c \in active /\ c \in accepted /\ entries[c].sub \in {"predicted", what}
          /\ what \in Handles /\ \A u \in Threads : ~Does(u, c, {"subscribe", "register", "failed", "end"})
      BY <1>p, <1>1, <1>4, <1>o DEF Held, ServicesTyped, HandlesKnown, Called, Handles
    <2>3. /\ op' \in [Threads -> Ops] /\ \A u \in Threads \ {UI} : op'[u] = op[u]
          /\ \/ op'[UI].pc = "idle"
             \/ /\ op'[UI].pc = "subscribe2" /\ op'[UI].c = c /\ op'[UI].code = "other"
                /\ what = "other" /\ entries[c].sub = "predicted"
      <3>1. CASE entries[c].sub = what
        BY <1>p, <1>1, <1>4, <3>1 DEF OpsTyped
      <3>2. CASE entries[c].sub # what
        <4> DEFINE x == Doing("subscribe2", c, what)
        <4>1. x \in Ops /\ x.pc = "subscribe2" /\ x.c = c /\ x.code = what
          BY <2>2, OpDoing DEF Pcs
        <4>2. op' = [op EXCEPT ![UI] = x]
          BY <1>4, <3>2
        <4> HIDE DEF x
        <4>3. what = "other" /\ entries[c].sub = "predicted"
          BY <2>2, <3>2 DEF Handles
        <4> QED
          BY <1>p, <1>u, <4>1, <4>2, <4>3, OpSet
      <3> QED
        BY <3>1, <3>2
    <2>6. BusTyped' /\ OpsTyped'
      BY <1>p, <1>0, <2>1, <2>3 DEF BusTyped, OpsTyped
    <2>7. Hands' /\ Over'
      BY <1>p, <1>0, <1>u, <1>w, <1>4, <2>2, <2>3 DEF Hands, Over
    <2>8. Alone'
      BY <1>p, <1>0, <1>o, <1>1, <1>w, <2>1, <2>3 DEF Alone, Beginning
    <2>9. CallsKnown' /\ FailedAlone'
      <3>1. CallsKnown'
        BY <1>p, <1>0, <1>1, <1>o, <1>w, <2>1, <2>3 DEF CallsKnown, Called, Does
      <3>2. FailedAlone'
        BY <1>p, <1>0, <2>3 DEF FailedAlone
      <3> QED
        BY <3>1, <3>2
    <2>10. SubsKnown'
      BY <1>p, <1>0, <1>u, <1>w, <2>1, <2>3 DEF SubsKnown, Does
    <2>11. Held'
      BY <1>p, <1>0, <1>u, <1>w, <2>1, <2>2, <2>3 DEF Held, Does
    <2>12. ActiveHeld'
      BY <1>p, <1>0, <1>w, <2>1, <2>3 DEF ActiveHeld, Does
    <2>13. EndsOnce' /\ CancelsStarted'
      BY <1>p, <1>0, <2>3 DEF EndsOnce, CancelsStarted, Cancels, Does, Starting, Beginning
    <2>14. Confirmed'
      BY <1>p, <1>0, <1>w, <2>3 DEF Confirmed, Does
    <2> QED
      BY <1>1, <2>6, <2>7, <2>8, <2>9, <2>10, <2>11, <2>12, <2>13, <2>14 DEF IInv
  <1> QED
    BY <1>o, <1>2, <1>3, <1>4 DEF Reply

\* The signal is known: the request it is of ends.
LEMMA ResponseKeeps ==
  ASSUME IInv, RequestsAssumption, Response
  PROVE  IInv'
  <1>p. /\ ServicesTyped /\ BusTyped /\ OpsTyped /\ TasksTyped /\ Hands /\ Over /\ Alone
        /\ HandlesKnown
        /\ CallsKnown /\ FailedAlone /\ SubsKnown /\ Held /\ ActiveHeld /\ EndsOnce
        /\ CancelsStarted
        /\ Confirmed /\ ToldOnce
    BY InvParts
  <1>0. /\ Runs("response")
        /\ UNCHANGED <<active, closing, accepted, outcome, subs, calling, connected, portal, begun, told,
                       confirmed, faults>>
    BY DEF Response, Services, Bus, History
  <1>1. /\ ServicesTyped' /\ TasksTyped' /\ HandlesKnown' /\ ToldOnce'
        /\ Next_ \in Tasks /\ op[UI].pc = "idle"
        /\ \A u \in Threads : op[u].pc \in Beginning => op[u].c # Next_.c
    BY <1>0, Ran
  <1>o. PICK c \in Calls : Next_.c = c
    BY <1>1, TaskFields
  <1>u. UI \in Threads
    BY DEF RequestsAssumption
  <1>2. CASE UNCHANGED <<op, entries>>
    <2>1. BusTyped' /\ OpsTyped' /\ Hands' /\ Over' /\ Alone'
      BY <1>p, <1>0, <1>2 DEF BusTyped, OpsTyped, Hands, Over, Alone
    <2>2. CallsKnown' /\ FailedAlone' /\ SubsKnown' /\ Held' /\ ActiveHeld'
      BY <1>p, <1>0, <1>2 DEF CallsKnown, FailedAlone, SubsKnown, Held, ActiveHeld, Called, Does
    <2>3. EndsOnce' /\ CancelsStarted' /\ Confirmed'
      BY <1>p, <1>0, <1>2 DEF EndsOnce, CancelsStarted, Confirmed, Cancels, Does
    <2> QED
      BY <1>1, <2>1, <2>2, <2>3 DEF IInv
  <1>3. CASE ~closing /\ TakeEntry(UI, c, "end", "Result")
    <2>1. /\ BusTyped' /\ OpsTyped' /\ Hands' /\ Over' /\ Alone' /\ CallsKnown' /\ FailedAlone'
          /\ SubsKnown' /\ Held' /\ ActiveHeld' /\ EndsOnce' /\ CancelsStarted'
          /\ \A d \in Calls, u \in Threads : Does(u, d, {"end"}) /\ op[u].code = "Cancelled" =>
                Does(u, d, {"end"})' /\ op'[u].code = "Cancelled"
      <3>1. "Result" \in Terminal /\ "Result" # "Cancelled"
        BY DEF Terminal
      <3> QED
        BY <1>0, <1>1, <1>o, <1>u, <1>3, <3>1, Taken
    <2>2. Confirmed'
      BY <1>p, <1>0, <2>1 DEF Confirmed, Does, ServicesTyped
    <2> QED
      BY <1>1, <2>1, <2>2 DEF IInv
  <1> QED
    BY <1>o, <1>2, <1>3 DEF Response

\* The other handle is listened to, or the request ends.
LEMMA Subscribe2Keeps ==
  ASSUME IInv, RequestsAssumption, Subscribe2
  PROVE  IInv'
  <1>p. /\ ServicesTyped /\ BusTyped /\ OpsTyped /\ TasksTyped /\ Hands /\ Over /\ Alone
        /\ HandlesKnown
        /\ CallsKnown /\ FailedAlone /\ SubsKnown /\ Held /\ ActiveHeld /\ EndsOnce
        /\ CancelsStarted
        /\ Confirmed /\ ToldOnce
    BY InvParts
  <1>u. UI \in Threads
    BY DEF RequestsAssumption
  <1>0. /\ op[UI].pc = "subscribe2" /\ (Fault \/ Smoothly)
        /\ UNCHANGED <<active, closing, accepted, outcome, calling, connected, portal, tasks, begun, told, confirmed>>
    BY DEF Subscribe2, At, Services, History
  <1>o. PICK c \in Calls : op[UI].c = c
    BY <1>p, <1>u, <1>0 DEF Hands, ServicesTyped
  <1>1. ~closing /\ c \in accepted /\ op[UI].code = "other" /\ portal[c].handle = "other"
    BY <1>p, <1>u, <1>0, <1>o DEF Hands, Over
  <1>2. \A u \in Threads : op[u].pc \in Beginning => op[u].c # c /\ u # UI
    BY <1>p, <1>u, <1>0, <1>o DEF Alone, Beginning
  <1>4. ServicesTyped' /\ TasksTyped' /\ HandlesKnown' /\ ToldOnce'
    BY <1>0, Quiet
  <1>3. CASE subs' = subs \cup {<<c, op[UI].code>>} /\ Become(UI, "install") /\ UNCHANGED entries
    <2>1. /\ op' \in [Threads -> Ops] /\ op'[UI].pc = "install" /\ op'[UI].c = c
          /\ op'[UI].code = "other"
          /\ \A u \in Threads \ {UI} : op'[u] = op[u]
      BY <1>p, <1>u, <1>o, <1>1, <1>3, OpGoes DEF Pcs
    <2>w. \A u \in Threads : op[u].pc \in Beginning \cup {"end", "install", "store", "failed"} => u # UI
      BY <1>0 DEF Beginning
    <2>2. BusTyped' /\ OpsTyped'
      BY <1>p, <1>0, <1>1, <1>3, <2>1 DEF BusTyped, OpsTyped, Handles
    <2>3. Hands' /\ Over' /\ Alone'
      <3>1. Hands' /\ Over'
        BY <1>p, <1>0, <1>u, <1>1, <2>1 DEF Hands, Over
      <3>2. Alone'
        BY <1>p, <1>0, <1>2, <1>3, <2>1 DEF Alone, Beginning
      <3> QED
        BY <3>1, <3>2
    <2>4. CallsKnown' /\ FailedAlone'
      <3>1. CallsKnown'
        BY <1>p, <1>0, <1>3, <2>w, <2>1 DEF CallsKnown, Called, Does
      <3>2. FailedAlone'
        BY <1>p, <1>0, <2>1 DEF FailedAlone
      <3> QED
        BY <3>1, <3>2
    <2>5. SubsKnown'
      BY <1>p, <1>u, <1>1, <1>3, <2>w, <2>1 DEF SubsKnown, Does, Beginning
    <2>6. Held'
      BY <1>p, <1>0, <1>u, <1>o, <1>3, <2>1 DEF Held, Does
    <2>7. ActiveHeld'
      BY <1>p, <1>0, <1>3, <2>w, <2>1 DEF ActiveHeld, Does, Beginning
    <2>8. EndsOnce' /\ CancelsStarted'
      BY <1>p, <1>0, <2>1 DEF EndsOnce, CancelsStarted, Cancels, Does, Starting, Beginning
    <2>9. Confirmed'
      BY <1>p, <1>0, <2>w, <2>1 DEF Confirmed, Does
    <2> QED
      BY <1>4, <2>2, <2>3, <2>4, <2>5, <2>6, <2>7, <2>8, <2>9 DEF IInv
  <1>5. CASE TakeEntry(UI, c, "end", "Error") /\ subs' = subs
    <2>1. /\ BusTyped' /\ OpsTyped' /\ Hands' /\ Over' /\ Alone' /\ CallsKnown' /\ FailedAlone'
          /\ SubsKnown' /\ Held' /\ ActiveHeld' /\ EndsOnce' /\ CancelsStarted'
          /\ \A d \in Calls, u \in Threads : Does(u, d, {"end"}) /\ op[u].code = "Cancelled" =>
                Does(u, d, {"end"})' /\ op'[u].code = "Cancelled"
      <3>1. "Error" \in Terminal /\ "Error" # "Cancelled"
        BY DEF Terminal
      <3> QED
        BY <1>0, <1>1, <1>2, <1>o, <1>u, <1>5, <3>1, Taken
    <2>2. Confirmed'
      BY <1>p, <1>0, <2>1 DEF Confirmed, Does, ServicesTyped
    <2> QED
      BY <1>4, <2>1, <2>2 DEF IInv
  <1> QED
    BY <1>o, <1>3, <1>5 DEF Subscribe2

\* The replacement is the request's, or dropped when that has gone.
LEMMA InstallKeeps ==
  ASSUME IInv, RequestsAssumption, Install
  PROVE  IInv'
  <1>p. /\ ServicesTyped /\ BusTyped /\ OpsTyped /\ TasksTyped /\ Hands /\ Over /\ Alone
        /\ HandlesKnown
        /\ CallsKnown /\ FailedAlone /\ SubsKnown /\ Held /\ ActiveHeld /\ EndsOnce
        /\ CancelsStarted
        /\ Confirmed /\ ToldOnce
    BY InvParts
  <1>u. UI \in Threads
    BY DEF RequestsAssumption
  <1>0. /\ op[UI].pc = "install" /\ Return(UI) /\ UNCHANGED faults
        /\ UNCHANGED <<active, closing, accepted, outcome, calling, connected, portal, tasks, begun, told, confirmed>>
    BY DEF Install, At, Services, History
  <1>o. PICK c \in Calls : op[UI].c = c
    BY <1>p, <1>u, <1>0 DEF Hands, ServicesTyped
  <1>1. op[UI].code = "other" /\ portal[c].handle = "other"
    BY <1>p, <1>u, <1>0, <1>o DEF Hands
  <1>2. op' \in [Threads -> Ops] /\ op'[UI].pc = "idle" /\ \A u \in Threads \ {UI} : op'[u] = op[u]
    BY <1>p, <1>u, <1>0, OpReturns
  <1>w. \A u \in Threads : op[u].pc \in Beginning \cup {"end", "store", "failed"} => u # UI
    BY <1>0 DEF Beginning
  <1>3. /\ DOMAIN entries' = DOMAIN entries /\ entries' \in [DOMAIN entries' -> Entries]
        /\ \A d \in DOMAIN entries \ {c} : entries'[d] = entries[d]
        /\ \A d \in DOMAIN entries : entries'[d].method = entries[d].method
        /\ \/ c \in DOMAIN entries /\ entries'[c].sub = "other" /\ subs' = subs \ {<<c, "predicted">>}
           \/ c \notin DOMAIN entries /\ subs' = subs \ {<<c, "other">>}
    <2>1. CASE c \in DOMAIN entries
      <3>1. entries \in [DOMAIN entries -> Entries]
        BY <1>p DEF OpsTyped
      <3>2. entries[c] \in Entries
        BY <2>1, <3>1
      <3>3. entries' = [entries EXCEPT ![c].sub = "other"] /\ subs' = subs \ {<<c, "predicted">>}
        BY <1>o, <1>1, <2>1 DEF Install
      <3>4. DOMAIN entries' = DOMAIN entries /\ entries'[c] = [entries[c] EXCEPT !.sub = "other"]
            /\ \A d \in DOMAIN entries \ {c} : entries'[d] = entries[d]
        BY <2>1, <3>1, <3>3
      <3>5. /\ entries'[c].sub = "other" /\ entries'[c].method = entries[c].method
            /\ entries'[c] \in Entries
        BY <3>2, <3>4 DEF Entries, Handles
      <3>6. entries' \in [DOMAIN entries' -> Entries]
        BY <2>1, <3>1, <3>3, <3>4, <3>5
      <3>7. \A d \in DOMAIN entries : entries'[d].method = entries[d].method
        BY <3>4, <3>5
      <3> QED
        BY <2>1, <3>3, <3>4, <3>5, <3>6, <3>7
    <2>2. CASE c \notin DOMAIN entries
      <3>1. entries' = entries /\ subs' = subs \ {<<c, "other">>}
        BY <1>o, <1>1, <2>2 DEF Install
      <3> QED
        BY <1>p, <2>2, <3>1 DEF OpsTyped
    <2> QED
      BY <2>1, <2>2
  <1>4. ServicesTyped' /\ TasksTyped' /\ HandlesKnown' /\ ToldOnce'
    BY <1>0, Quiet DEF Smoothly
  <1>5. BusTyped' /\ OpsTyped'
    BY <1>p, <1>0, <1>2, <1>3 DEF BusTyped, OpsTyped
  <1>6. Hands' /\ Over'
    BY <1>p, <1>0, <1>u, <1>2, <1>3 DEF Hands, Over
  <1>7. Alone'
    BY <1>p, <1>0, <1>w, <1>2, <1>3 DEF Alone, Beginning
  <1>8. CallsKnown' /\ FailedAlone'
    <2>1. CallsKnown'
      BY <1>p, <1>0, <1>w, <1>2, <1>3 DEF CallsKnown, Called, Does
    <2>2. FailedAlone'
      BY <1>p, <1>0, <1>2 DEF FailedAlone
    <2> QED
      BY <2>1, <2>2
  <1>9. SubsKnown'
    <2>1. ASSUME NEW s \in subs'
          PROVE  \/ s[1] \in DOMAIN entries' /\ entries'[s[1]].sub = s[2]
                 \/ \E t \in Threads : Does(t, s[1], {"register"}) /\ s[2] = "predicted"
                 \/ \E t \in Threads : Does(t, s[1], {"end"}) /\ op[t].entry.sub = s[2]
      <3>1. s \in subs /\ s = <<s[1], s[2]>>
        BY <1>p, <1>3, <2>1 DEF BusTyped
      <3>2. \/ s[1] \in DOMAIN entries /\ entries[s[1]].sub = s[2]
            \/ \E t \in Threads : Does(t, s[1], {"register"}) /\ s[2] = "predicted"
            \/ \E t \in Threads : Does(t, s[1], {"end"}) /\ op[t].entry.sub = s[2]
            \/ s[1] = c /\ s[2] = "other"
        BY <1>p, <1>o, <1>1, <3>1 DEF SubsKnown, Does
      <3>3. CASE s[1] \in DOMAIN entries /\ entries[s[1]].sub = s[2]
        <4>1. CASE s[1] # c
          BY <1>3, <3>3, <4>1
        <4>2. CASE s[1] = c
          <5>1. entries[c].sub = "predicted"
            BY <1>p, <1>0, <1>o, <3>3, <4>2 DEF Held, Does
          <5> QED
            BY <1>3, <2>1, <3>1, <3>3, <4>2, <5>1
        <4> QED
          BY <4>1, <4>2
      <3>4. CASE s[1] = c /\ s[2] = "other"
        BY <1>3, <2>1, <3>1, <3>4
      <3> QED
        BY <3>2, <3>3, <3>4
    <2> QED
      BY <1>w, <1>2, <2>1 DEF SubsKnown, Does, Beginning
  <1>10. Held'
    BY <1>p, <1>0, <1>u, <1>1, <1>2, <1>3 DEF Held, Does
  <1>11. ActiveHeld'
    BY <1>p, <1>0, <1>w, <1>2, <1>3 DEF ActiveHeld, Does, Beginning
  <1>12. EndsOnce' /\ CancelsStarted'
    BY <1>p, <1>0, <1>2 DEF EndsOnce, CancelsStarted, Cancels, Does, Starting, Beginning
  <1>13. Confirmed'
    BY <1>p, <1>0, <1>w, <1>2 DEF Confirmed, Does
  <1> QED
    BY <1>4, <1>5, <1>6, <1>7, <1>8, <1>9, <1>10, <1>11, <1>12, <1>13 DEF IInv

\* Nobody's operation nor entry is touched.
LEMMA OthersKept ==
  ASSUME IInv, calling' \subseteq calling,
         \A d \in Calls : /\ portal'[d].handle = portal[d].handle
                          /\ portal'[d].dialog = "unknown" <=> portal[d].dialog = "unknown",
         UNCHANGED <<active, closing, accepted, outcome, entries, op, subs, confirmed>>
  PROVE  /\ OpsTyped' /\ Hands' /\ Over' /\ Alone' /\ CallsKnown' /\ FailedAlone' /\ SubsKnown'
         /\ Held'
         /\ ActiveHeld' /\ EndsOnce' /\ CancelsStarted' /\ Confirmed'
  <1>p. /\ ServicesTyped /\ BusTyped /\ OpsTyped /\ Hands /\ Over /\ Alone /\ CallsKnown
        /\ FailedAlone
        /\ SubsKnown /\ Held /\ ActiveHeld /\ EndsOnce /\ CancelsStarted /\ Confirmed
    BY InvParts
  <1>1. \A u \in Threads : op[u].pc # "idle" => op[u].c \in Calls
    BY <1>p DEF Hands, ServicesTyped
  <1>2. OpsTyped' /\ Hands' /\ Over'
    BY <1>p, <1>1 DEF OpsTyped, Hands, Over
  <1>3. Alone'
    BY <1>p, <1>1 DEF Alone, Beginning
  <1>4. CallsKnown' /\ FailedAlone'
    BY <1>p DEF CallsKnown, FailedAlone, Called, Does, BusTyped
  <1>5. SubsKnown' /\ ActiveHeld'
    BY <1>p DEF SubsKnown, ActiveHeld, Does
  <1>6. Held'
    BY <1>p DEF Held, Does, OpsTyped
  <1>7. EndsOnce' /\ CancelsStarted' /\ Confirmed'
    BY <1>p DEF EndsOnce, CancelsStarted, Confirmed, Cancels, Does
  <1> QED
    BY <1>2, <1>3, <1>4, <1>5, <1>6, <1>7

\* The callback is called, unless the services have gone.
LEMMA DoneKeeps ==
  ASSUME IInv, RequestsAssumption, Done
  PROVE  IInv'
  <1>p. /\ ServicesTyped /\ BusTyped /\ TasksTyped /\ HandlesKnown /\ ToldOnce
    BY InvParts
  <1>0. /\ Runs("done") /\ told' = (IF closing THEN told ELSE [told EXCEPT ![Next_.c] = @ + 1])
        /\ UNCHANGED <<active, closing, accepted, outcome, entries, op, subs, calling, connected, portal, begun,
                       confirmed, faults>>
    BY DEF Done, Services, Bus
  <1>1. /\ Earlier /\ 1 \in 1..Len(tasks) /\ Next_ = tasks[1] /\ Next_ \in Tasks
        /\ Next_.kind = "done"
    BY <1>p, <1>0, TaskRun
  <1>o. PICK c \in Calls : Next_.c = c
    BY <1>1, TaskFields
  <1>2. /\ Settled(c) /\ told[c] = 0
        /\ \A l \in 1..Len(tasks) : tasks[l].kind = "done" /\ tasks[l].c = c => l = 1
    BY <1>p, <1>1, <1>o DEF ToldOnce, Settled
  <1>3. told' \in [Calls -> 0..1] /\ (told'[c] = 0 \/ told'[c] = 1) /\ \A d \in Calls \ {c} : told'[d] = told[d]
    BY <1>p, <1>0, <1>o, <1>2 DEF ServicesTyped
  <1>4. ServicesTyped' /\ BusTyped' /\ TasksTyped'
    BY <1>p, <1>0, <1>1, <1>3 DEF ServicesTyped, BusTyped, Earlier
  <1>5. HandlesKnown'
    BY <1>p, <1>0, <1>1, HandlesRun
  <1>6. \A d \in Calls : Settled(d)' <=> Settled(d)
    BY <1>0 DEF Settled
  <1>7. ToldOnce'
    <2>1. ASSUME NEW d \in Calls
          PROVE  /\ (told'[d] # 0 => Settled(d)')
                 /\ (d \in active' \/ d \notin begun' => outcome'[d] = "none")
      BY <1>p, <1>0, <1>2, <1>3, <1>6 DEF ToldOnce
    <2>2. ASSUME NEW k \in 1..Len(tasks'), tasks'[k].kind = "done"
          PROVE  /\ Settled(tasks[k].c)' /\ told'[tasks'[k].c] = 0
                 /\ \A l \in 1..Len(tasks') : tasks'[l].kind = "done" /\ tasks'[l].c = tasks'[k].c => k = l
      <3>0. \A l \in 1..Len(tasks') : l + 1 \in 1..Len(tasks) /\ tasks'[l] = tasks[l + 1]
        BY <1>1 DEF Earlier
      <3>1. /\ k + 1 \in 1..Len(tasks) /\ tasks[k + 1] = tasks'[k] /\ tasks[k + 1].kind = "done"
            /\ tasks[k + 1].c \in Calls /\ k + 1 # 1
        BY <1>p, <2>2, <3>0, TaskFields DEF TasksTyped
      <3>2. tasks[k + 1].c # c
        BY <1>2, <3>1
      <3>3. Settled(tasks[k + 1].c) /\ told[tasks[k + 1].c] = 0
        BY <1>p, <3>1 DEF ToldOnce, Settled
      <3>4. Settled(tasks[k].c)' /\ told'[tasks'[k].c] = 0
        BY <1>0, <1>3, <3>1, <3>2, <3>3 DEF Settled
      <3>5. ASSUME NEW l \in 1..Len(tasks'), tasks'[l].kind = "done", tasks'[l].c = tasks'[k].c
            PROVE  k = l
        <4>1. /\ tasks[l + 1].kind = "done" /\ l + 1 \in 1..Len(tasks)
              /\ tasks[l + 1].c = tasks[k + 1].c
          BY <3>0, <3>1, <3>5
        <4>2. k + 1 = l + 1
          BY <1>p, <3>1, <4>1 DEF ToldOnce, Settled
        <4> QED
          BY <4>2
      <3> QED
        BY <3>4, <3>5
    <2> QED
      BY <2>1, <2>2 DEF ToldOnce, Settled
  <1>8. /\ OpsTyped' /\ Hands' /\ Over' /\ Alone' /\ CallsKnown' /\ FailedAlone' /\ SubsKnown'
        /\ Held'
        /\ ActiveHeld' /\ EndsOnce' /\ CancelsStarted' /\ Confirmed'
    BY <1>0, OthersKept
  <1> QED
    BY <1>4, <1>5, <1>7, <1>8 DEF IInv

\* Nobody is at work: whatever is on the bus is the backend's, and goes with it.
LEMMA DestroyKeeps ==
  ASSUME IInv, RequestsAssumption, Destroy
  PROVE  IInv'
  <1>p. /\ ServicesTyped /\ BusTyped /\ OpsTyped /\ TasksTyped /\ Hands /\ Over /\ Alone
        /\ HandlesKnown
        /\ CallsKnown /\ FailedAlone /\ SubsKnown /\ Held /\ ActiveHeld /\ EndsOnce
        /\ CancelsStarted
        /\ Confirmed /\ ToldOnce
    BY InvParts
  <1>0. /\ \A t \in Threads : op[t].pc = "idle"
        /\ closing' = TRUE /\ active' = {} /\ entries' = [c \in {} |-> 0]
        /\ subs' = subs \ {<<c, entries[c].sub>> : c \in DOMAIN entries}
        /\ calling' = calling \ {c \in DOMAIN entries : entries[c].method}
        /\ portal' = [c \in Calls |-> IF c \in DOMAIN entries /\ portal[c].handle = entries[c].sub
                                      THEN [portal[c] EXCEPT !.dialog = "closed"] ELSE portal[c]]
        /\ UNCHANGED <<accepted, outcome, op, connected, tasks, begun, told, confirmed, faults>>
    BY DEF Destroy, At, History
  <1>u. UI \in Threads
    BY DEF RequestsAssumption
  <1>1. calling' = {}
    BY <1>p, <1>0 DEF CallsKnown, Does
  <1>2. subs' = {}
    <2>1. ASSUME NEW s \in subs PROVE s \in {<<c, entries[c].sub>> : c \in DOMAIN entries}
      <3>1. s = <<s[1], s[2]>>
        BY <1>p DEF BusTyped
      <3>2. s[1] \in DOMAIN entries /\ entries[s[1]].sub = s[2]
        BY <1>p, <1>0, <1>u DEF SubsKnown, Does
      <3> QED
        BY <3>1, <3>2
    <2> QED
      BY <1>0, <2>1
  <1>3. portal' \in [Calls -> Portals]
        /\ \A d \in Calls : portal'[d].handle = portal[d].handle
                            /\ (portal'[d].dialog = "unknown" <=> portal[d].dialog = "unknown")
    <2>1. ASSUME NEW d \in Calls
          PROVE  /\ portal'[d] \in Portals /\ portal'[d].handle = portal[d].handle
                 /\ portal'[d].dialog = "unknown" <=> portal[d].dialog = "unknown"
      <3>0. portal[d] \in Portals
        BY <1>p DEF BusTyped
      <3>1. CASE d \in DOMAIN entries /\ portal[d].handle = entries[d].sub
        <4>1. portal'[d] = [portal[d] EXCEPT !.dialog = "closed"]
          BY <1>0, <3>1
        <4>2. portal[d].dialog # "unknown"
          BY <1>p, <3>1 DEF HandlesKnown, OpsTyped, Entries, Handles
        <4> QED
          BY <3>0, <4>1, <4>2 DEF Portals
      <3>2. CASE ~(d \in DOMAIN entries /\ portal[d].handle = entries[d].sub)
        <4>1. portal'[d] = portal[d]
          BY <1>0, <3>2
        <4> QED
          BY <3>0, <4>1
      <3> QED
        BY <3>1, <3>2
    <2>2. portal' \in [Calls -> Portals]
      <3>1. \A d \in Calls : portal'[d] \in Portals
        BY <2>1
      <3> QED
        BY <1>0, <3>1
    <2> QED
      BY <2>1, <2>2
  <1>4. ServicesTyped' /\ BusTyped' /\ OpsTyped' /\ TasksTyped'
    <2>1. ServicesTyped'
      <3>1. closing' \in BOOLEAN
        BY <1>0
      <3> QED
        BY <1>p, <1>0, <3>1 DEF ServicesTyped
    <2>2. BusTyped'
      BY <1>p, <1>0, <1>1, <1>2, <1>3, FS_EmptySet DEF BusTyped
    <2>3. OpsTyped' /\ TasksTyped'
      BY <1>p, <1>0 DEF OpsTyped, TasksTyped
    <2> QED
      BY <2>1, <2>2, <2>3
  <1>5. Hands' /\ Over' /\ Alone'
    BY <1>0 DEF Hands, Over, Alone, Beginning
  <1>6. HandlesKnown' /\ ToldOnce'
    <2>1. Later({})
      BY <1>p, <1>0, NothingPosted
    <2>2. HandlesKnown'
      <3>1. /\ \A d \in Calls : Called(d) => Called(d)' /\ portal'[d].handle = portal[d].handle
            /\ \A d \in Calls : portal'[d].dialog = "unknown" <=> portal'[d].handle = "none"
            /\ \A d \in Calls : Called(d)' => d \in begun'
            /\ \A d \in calling' : d \in calling \/ ~Called(d)
        BY <1>p, <1>0, <1>1, <1>3 DEF Called, HandlesKnown
      <3> QED
        BY <1>p, <2>1, <3>1, HandlesKept
    <2>3. \A d \in Calls : Settled(d) => Settled(d)'
      BY <1>0 DEF Settled
    <2>4. \A d \in Calls : d \in active' \/ d \notin begun' => outcome'[d] = "none"
      BY <1>p, <1>0 DEF ToldOnce
    <2>5. ToldOnce'
      BY <1>p, <1>0, <2>1, <2>3, <2>4, ToldKept
    <2> QED
      BY <2>2, <2>5
  <1>7. /\ CallsKnown' /\ FailedAlone' /\ SubsKnown' /\ Held' /\ ActiveHeld' /\ EndsOnce'
        /\ CancelsStarted'
    BY <1>0, <1>1, <1>2
       DEF CallsKnown, FailedAlone, SubsKnown, Held, ActiveHeld, EndsOnce, CancelsStarted, Cancels
  <1>8. Confirmed'
    BY <1>0 DEF Confirmed
  <1> QED
    BY <1>4, <1>5, <1>6, <1>7, <1>8 DEF IInv

\* The reply is posted, once: the call is over with it.
LEMMA PortalRepliesKeeps ==
  ASSUME IInv, RequestsAssumption, NEW c \in Calls, NEW what \in Handles \cup {"failed"},
         PortalReplies(c, what)
  PROVE  IInv'
  <1>p. /\ ServicesTyped /\ BusTyped /\ TasksTyped /\ HandlesKnown /\ CallsKnown /\ ToldOnce
    BY InvParts
  <1> DEFINE x == Task("reply", c, what)
  <1>0. /\ c \in calling /\ calling' = calling \ {c} /\ what \in {portal[c].handle, "failed"}
        /\ Posted(<<x>>)
        /\ UNCHANGED <<active, closing, accepted, outcome, entries, op, subs, connected, portal, begun, told,
                       confirmed>>
    BY DEF PortalReplies, Services, History
  <1>1. x \in Tasks /\ x.kind = "reply" /\ x.c = c /\ x.what = what
    BY DEF Task, Tasks
  <1> HIDE DEF x
  <1>2. Later({x}) /\ faults' \in 0..MaxFaults
    BY <1>p, <1>0, <1>1, OnePosted
  <1>3. ServicesTyped' /\ BusTyped' /\ TasksTyped'
    <2>1. IsFiniteSet(calling')
      BY <1>p, <1>0, FS_RemoveElement DEF BusTyped
    <2> QED
      BY <1>p, <1>0, <1>2, <2>1 DEF ServicesTyped, BusTyped, Later
  <1>4. HandlesKnown'
    BY <1>p, <1>0, <1>1, <1>2, HandlesKept DEF Called, HandlesKnown, CallsKnown
  <1>5. ToldOnce'
    <2>3. \A d \in Calls : Settled(d) => Settled(d)'
      BY <1>0 DEF Settled
    <2>4. \A d \in Calls : d \in active' \/ d \notin begun' => outcome'[d] = "none"
      BY <1>p, <1>0 DEF ToldOnce
    <2>5. \A y \in {x} : y.kind # "done"
      BY <1>1
    <2> QED
      BY <1>p, <1>0, <1>2, <2>3, <2>4, <2>5, ToldKept
  <1>6. /\ OpsTyped' /\ Hands' /\ Over' /\ Alone' /\ CallsKnown' /\ FailedAlone' /\ SubsKnown'
        /\ Held'
        /\ ActiveHeld' /\ EndsOnce' /\ CancelsStarted' /\ Confirmed'
    BY <1>0, OthersKept
  <1> QED
    BY <1>3, <1>4, <1>5, <1>6 DEF IInv

\* The signal is posted to those who listen to the handle of the dialog.
LEMMA PortalRespondsKeeps ==
  ASSUME IInv, RequestsAssumption, NEW c \in Calls, PortalResponds(c)
  PROVE  IInv'
  <1>p. /\ ServicesTyped /\ BusTyped /\ TasksTyped /\ HandlesKnown /\ CallsKnown /\ ToldOnce
    BY InvParts
  <1> DEFINE x == Task("response", c, portal[c].handle)
  <1>0. /\ portal[c].dialog = "open"
        /\ UNCHANGED <<active, closing, accepted, outcome, entries, op, subs, calling, connected, begun, told,
                       confirmed>>
    BY DEF PortalResponds, Services, History
  <1>1. /\ portal[c].handle \in Handles /\ Called(c)
        /\ x \in Tasks /\ x.kind = "response" /\ x.c = c /\ x.what = portal[c].handle
    <2>1. portal[c] \in Portals /\ portal[c].handle # "none"
      BY <1>p, <1>0 DEF BusTyped, HandlesKnown
    <2> QED
      BY <1>0, <2>1 DEF Task, Tasks, Portals, Called
  <1> HIDE DEF x
  <1>2. \E what \in {"answered", "closed"} : portal' = [portal EXCEPT ![c].dialog = what]
    BY DEF PortalResponds
  <1>3. /\ portal' \in [Calls -> Portals]
        /\ \A d \in Calls : portal'[d].handle = portal[d].handle
                            /\ (portal'[d].dialog = "unknown" <=> portal[d].dialog = "unknown")
    <2>1. PICK what \in {"answered", "closed"} : portal' = [portal EXCEPT ![c].dialog = what]
      BY <1>2
    <2>2. portal[c] \in Portals
      BY <1>p DEF BusTyped
    <2>3. portal'[c] = [portal[c] EXCEPT !.dialog = what] /\ \A d \in Calls \ {c} : portal'[d] = portal[d]
      BY <1>p, <2>1 DEF BusTyped
    <2>4. /\ portal'[c] \in Portals /\ portal'[c].handle = portal[c].handle
          /\ portal'[c].dialog # "unknown"
      BY <2>2, <2>3 DEF Portals
    <2>5. portal' \in [Calls -> Portals]
      BY <1>p, <2>1, <2>3, <2>4 DEF BusTyped
    <2>6. \A d \in Calls : portal'[d].handle = portal[d].handle
                            /\ (portal'[d].dialog = "unknown" <=> portal[d].dialog = "unknown")
      BY <1>0, <2>3, <2>4
    <2> QED
      BY <2>5, <2>6, Zenon
  <1>4. \E new : /\ Later(new) /\ new \subseteq {x} /\ faults' \in 0..MaxFaults
    <2>1. CASE tasks' = Append(tasks, x) /\ Smoothly
      <3>1. Posted(<<x>>)
        BY <1>p, <1>1, <2>1 DEF Posted, TasksTyped
      <3> QED
        BY <1>p, <1>1, <3>1, OnePosted
    <2>2. CASE UNCHANGED tasks /\ (Fault \/ Smoothly)
      BY <1>p, <2>2, NothingPosted, Faulty
    <2> QED
      BY <2>1, <2>2 DEF PortalResponds, x
  <1>5. PICK new : /\ Later(new) /\ new \subseteq {x} /\ faults' \in 0..MaxFaults
    BY <1>4
  <1>6. ServicesTyped' /\ BusTyped' /\ TasksTyped'
    BY <1>p, <1>0, <1>3, <1>5 DEF ServicesTyped, BusTyped, Later
  <1>7. HandlesKnown'
    BY <1>p, <1>0, <1>1, <1>3, <1>5, HandlesKept, SMTT(20) DEF Called, HandlesKnown, CallsKnown
  <1>8. ToldOnce'
    <2>3. \A d \in Calls : Settled(d) => Settled(d)'
      BY <1>0 DEF Settled
    <2>4. \A d \in Calls : d \in active' \/ d \notin begun' => outcome'[d] = "none"
      BY <1>p, <1>0 DEF ToldOnce
    <2>5. \A y \in new : y.kind # "done"
      BY <1>1, <1>5
    <2> QED
      BY <1>p, <1>0, <1>5, <2>3, <2>4, <2>5, ToldKept
  <1>9. /\ OpsTyped' /\ Hands' /\ Over' /\ Alone' /\ CallsKnown' /\ FailedAlone' /\ SubsKnown'
        /\ Held'
        /\ ActiveHeld' /\ EndsOnce' /\ CancelsStarted' /\ Confirmed'
    BY <1>0, <1>3, OthersKept
  <1> QED
    BY <1>6, <1>7, <1>8, <1>9 DEF IInv

\* A finite set is put into a sequence.
LEMMA SetInSeq ==
  ASSUME NEW S, IsFiniteSet(S)
  PROVE  SetToSeq(S) \in Seq(S)
  <1>1. Cardinality(S) \in Nat /\ ExistsBijection(1..Cardinality(S), S)
    BY FS_CardinalityType
  <1>2. PICK f \in Bijection(1..Cardinality(S), S) : TRUE
    BY <1>1 DEF ExistsBijection
  <1>3. f \in [1..Cardinality(S) -> S] /\ IsInjective(f)
    BY <1>2 DEF Bijection, Injection, IsInjective
  <1>4. SetToSeq(S) \in [1..Cardinality(S) -> S]
    BY <1>3 DEF SetToSeq
  <1> QED
    BY <1>1, <1>4

\* Every call without a reply fails.
LEMMA BusLostKeeps ==
  ASSUME IInv, RequestsAssumption, BusLost
  PROVE  IInv'
  <1>p. /\ ServicesTyped /\ BusTyped /\ TasksTyped /\ HandlesKnown /\ CallsKnown /\ ToldOnce
    BY InvParts
  <1> DEFINE S == {Task("reply", c, "failed") : c \in calling}
  <1>0. /\ connected' = FALSE /\ Fault /\ tasks' = tasks \o SetToSeq(S) /\ calling' = {}
        /\ UNCHANGED <<active, closing, accepted, outcome, entries, op, subs, portal, begun, told, confirmed>>
    BY DEF BusLost, Services, History
  <1>1. \A x \in S : x \in Tasks /\ x.kind = "reply" /\ x.c \in calling /\ x.what = "failed"
    BY <1>p DEF Task, Tasks, BusTyped
  <1>2. IsFiniteSet(S)
    <2> DEFINE f == [c \in calling |-> Task("reply", c, "failed")]
    <2>1. f \in Surjection(calling, S)
      BY DEF Surjection
    <2> HIDE DEF f, S
    <2> QED
      BY <1>p, <2>1, FS_Surjection DEF BusTyped
  <1> HIDE DEF S
  <1>3. SetToSeq(S) \in Seq(S)
    BY <1>2, SetInSeq
  <1>4. Later(S)
    <2> DEFINE w == SetToSeq(S)
    <2>0. w \in Seq(S) /\ tasks' = tasks \o w /\ tasks \in Seq(Tasks)
      BY <1>p, <1>0, <1>3 DEF TasksTyped
    <2> HIDE DEF w
    <2>1. /\ w \in Seq(Tasks) /\ tasks' \in Seq(Tasks) /\ Len(tasks') = Len(tasks) + Len(w)
          /\ \A k \in 1..Len(tasks) : tasks'[k] = tasks[k]
          /\ Len(tasks) \in Nat /\ Len(w) \in Nat
      <3>1. \A k \in 1..Len(w) : w[k] \in Tasks
        BY <1>1, <2>0
      <3>2. w \in Seq(Tasks)
        BY <2>0, <3>1, SMTT(20)
      <3> QED
        BY <2>0, <3>2
    <2>2. \A k \in 1..Len(tasks') \ 1..Len(tasks) : tasks'[k] \in S /\ tasks'[k].kind = "reply"
      <3>1. ASSUME NEW k \in 1..Len(tasks') \ 1..Len(tasks)
            PROVE  tasks'[k] = w[k - Len(tasks)] /\ k - Len(tasks) \in 1..Len(w)
        BY <2>0, <2>1
      <3> QED
        BY <1>1, <2>0, <3>1
    <2>3. "reply" # "done"
      OBVIOUS
    <2> QED
      BY <2>1, <2>2, <2>3 DEF Later, TasksTyped
  <1>5. ServicesTyped' /\ BusTyped' /\ TasksTyped'
    <2>1. faults' \in 0..MaxFaults
      BY <1>p, <1>0, Faulty
    <2>2. connected' \in BOOLEAN /\ IsFiniteSet(calling')
      BY <1>0, FS_EmptySet
    <2> QED
      BY <1>p, <1>0, <1>4, <2>1, <2>2 DEF ServicesTyped, BusTyped, Later
  <1>6. HandlesKnown'
    <2>1. /\ \A d \in Calls : Called(d) => Called(d)' /\ portal'[d].handle = portal[d].handle
          /\ \A d \in Calls : portal'[d].dialog = "unknown" <=> portal'[d].handle = "none"
          /\ \A d \in Calls : Called(d)' => d \in begun'
          /\ \A d \in calling' : d \in calling \/ ~Called(d)
      BY <1>p, <1>0 DEF Called, HandlesKnown
    <2>2. \A x \in S : /\ x.kind \in {"reply", "response"} => Called(x.c)'
                       /\ x.kind = "response" => x.what = portal'[x.c].handle
                       /\ x.kind = "reply" => x.what \in {"failed", portal'[x.c].handle}
                                              /\ x.c \notin calling'
      BY <1>p, <1>0, <1>1 DEF Called, CallsKnown
    <2> QED
      BY <1>p, <1>4, <2>1, <2>2, HandlesKept
  <1>7. ToldOnce'
    <2>3. \A d \in Calls : Settled(d) => Settled(d)'
      BY <1>0 DEF Settled
    <2>4. \A d \in Calls : d \in active' \/ d \notin begun' => outcome'[d] = "none"
      BY <1>p, <1>0 DEF ToldOnce
    <2>5. \A y \in S : y.kind # "done"
      BY <1>1
    <2> QED
      BY <1>p, <1>0, <1>4, <2>3, <2>4, <2>5, ToldKept
  <1>8. /\ OpsTyped' /\ Hands' /\ Over' /\ Alone' /\ CallsKnown' /\ FailedAlone' /\ SubsKnown'
        /\ Held'
        /\ ActiveHeld' /\ EndsOnce' /\ CancelsStarted' /\ Confirmed'
    BY <1>0, OthersKept
  <1> QED
    BY <1>5, <1>6, <1>7, <1>8 DEF IInv

\* Every step keeps it.
LEMMA InvStep ==
  ASSUME RequestsAssumption, IInv, [Next]_vars
  PROVE  IInv'
  <1>1. CASE UNCHANGED vars
    <2>0. UNCHANGED <<active, closing, entries, op, subs, calling, connected, portal, tasks, begun, accepted,
                      outcome, told, confirmed, faults>>
      BY <1>1 DEF vars
    <2>1. ServicesTyped' /\ TasksTyped' /\ HandlesKnown' /\ ToldOnce'
      BY <2>0, Quiet DEF Smoothly
    <2>2. /\ OpsTyped' /\ Hands' /\ Over' /\ Alone' /\ CallsKnown' /\ FailedAlone' /\ SubsKnown'
          /\ Held'
          /\ ActiveHeld' /\ EndsOnce' /\ CancelsStarted' /\ Confirmed'
      BY <2>0, OthersKept
    <2>3. BusTyped'
      BY <2>0, InvParts DEF BusTyped
    <2> QED
      BY <2>1, <2>2, <2>3 DEF IInv
  <1>2. ASSUME NEW t \in Threads, Goes(t)
        PROVE  IInv'
    BY <1>2, SubscribeKeeps, RegisterKeeps, CallKeeps, StoreKeeps, FailedKeeps, BackendCancelKeeps,
       EndKeeps DEF Goes
  <1>3. ASSUME NEW t \in Threads, NEW c \in Calls, Start(t, c) \/ Cancel(t, c)
        PROVE  IInv'
    BY <1>3, StartKeeps, CancelKeeps
  <1>4. CASE Replaces \/ RunsTask \/ Destroy
    BY <1>4, Subscribe2Keeps, InstallKeeps, ReplyKeeps, ResponseKeeps, DoneKeeps, DestroyKeeps
       DEF Replaces, RunsTask
  <1>5. ASSUME NEW c \in Calls,
               PortalResponds(c) \/ \E what \in Handles \cup {"failed"} : PortalReplies(c, what)
        PROVE  IInv'
    BY <1>5, PortalRespondsKeeps, PortalRepliesKeeps
  <1>6. CASE BusLost
    BY <1>6, BusLostKeeps
  <1> QED
    BY <1>1, <1>2, <1>3, <1>4, <1>5, <1>6 DEF Next

\* What the runs check follows from it.
LEMMA InvSound ==
  ASSUME RequestsAssumption, IInv
  PROVE  BusHoldsNothingElse /\ BothHoldTheRequest /\ CancelTellsTheTruth /\ CalledOnce
  <1>p. /\ ServicesTyped /\ BusTyped /\ OpsTyped /\ Hands /\ Over /\ CallsKnown /\ SubsKnown /\ Held
        /\ ActiveHeld
        /\ Confirmed
    BY InvParts
  <1>1. \A t \in Threads, d \in Calls, S \in SUBSET (Pcs \ {"idle"}) : Does(t, d, S) => t \in With(d)
    BY DEF Does, With
  <1>2. BusHoldsNothingElse
    <2>1. ASSUME NEW s \in subs PROVE (s[1] \in DOMAIN entries /\ entries[s[1]].sub = s[2]) \/ With(s[1]) # {}
      BY <1>p DEF SubsKnown, Does, With, RequestsAssumption
    <2>2. ASSUME NEW c \in calling PROVE c \in DOMAIN entries \cup {d \in Calls : With(d) # {}}
      BY <1>p DEF CallsKnown, Does, With, BusTyped
    <2> QED
      BY <2>1, <2>2 DEF BusHoldsNothingElse
  <1>3. BothHoldTheRequest
    <2>1. ASSUME NEW c \in Calls, With(c) = {}, c \in active PROVE c \in DOMAIN entries
      BY <1>p, <2>1 DEF ActiveHeld, Does, With
    <2>2. \A c \in DOMAIN entries : c \in active
      BY <1>p DEF Held
    <2> QED
      BY <2>1, <2>2 DEF BothHoldTheRequest
  <1>4. CancelTellsTheTruth
    BY <1>p DEF Confirmed, CancelTellsTheTruth
  <1>5. CalledOnce
    <2>1. \A c \in Calls : told[c] \in 0..1
      BY <1>p DEF ServicesTyped
    <2> QED
      BY <2>1 DEF CalledOnce
  <1> QED
    BY <1>2, <1>3, <1>4, <1>5

LEMMA InvTyped ==
  ASSUME RequestsAssumption, IInv
  PROVE  TypeOK
  <1>p. /\ ServicesTyped /\ BusTyped /\ OpsTyped /\ HandlesKnown /\ CallsKnown
    BY InvParts
  <1>1. active \cup accepted \cup confirmed \cup calling \subseteq begun /\ begun \subseteq Calls
    BY <1>p DEF ServicesTyped, BusTyped, CallsKnown, HandlesKnown
  <1>2. portal \in [Calls -> [handle : Handles \cup {"none"}, dialog : {"unknown", "open", "answered", "closed"}]]
    BY <1>p DEF BusTyped, Portals
  <1>3. /\ told \in [Calls -> 0..2]
        /\ outcome \in [Calls -> {"none", "Result", "Error", "Cancelled", "Busy"}]
    <2>1. told \in [Calls -> 0..1] /\ outcome \in [Calls -> Terminal \cup {"none", "Busy"}]
      BY <1>p DEF ServicesTyped
    <2>2. \A n \in 0..1 : n \in 0..2
      OBVIOUS
    <2>3. Terminal \cup {"none", "Busy"} = {"none", "Result", "Error", "Cancelled", "Busy"}
      BY DEF Terminal
    <2> QED
      BY <2>1, <2>2, <2>3
  <1>4. DOMAIN entries \subseteq Calls /\ subs \subseteq Calls \X Handles /\ {closing, connected} \subseteq BOOLEAN
        /\ faults \in 0..MaxFaults
    BY <1>p DEF ServicesTyped, BusTyped, OpsTyped
  <1> QED
    BY <1>1, <1>2, <1>3, <1>4 DEF TypeOK
-----------------------------------------------------------------------------
(***************************************************************************)
(* The contract: taking a request accepts it, completing settles it, the     *)
(* task of the result tells, and destruction leaves.                         *)
(***************************************************************************)
ServicesNext == [Contract!ContractNext]_(Contract!contractVars)

LEMMA ContractBegins == Init => Contract!ContractInit
  BY DEF Init, Contract!ContractInit

\* A step that takes, settles, calls back and destroys nothing says nothing.
LEMMA SaysNothing ==
  ASSUME UNCHANGED <<accepted, outcome, told, closing>>
  PROVE  ServicesNext
  <1>1. UNCHANGED Contract!contractVars
    BY DEF Contract!contractVars
  <1> QED
    BY <1>1 DEF ServicesNext

\* Completing an active request settles it.
LEMMA Completes ==
  ASSUME IInv, NEW c \in Calls, NEW code \in Terminal, UNCHANGED <<accepted, told, closing>>,
         (c \in active /\ outcome' = [outcome EXCEPT ![c] = code]) \/ outcome' = outcome
  PROVE  ServicesNext
  <1>p. ServicesTyped /\ ToldOnce
    BY InvParts
  <1>1. CASE outcome' = outcome
    BY <1>1, SaysNothing
  <1>2. CASE c \in active /\ outcome' = [outcome EXCEPT ![c] = code]
    <2>1. c \in accepted /\ outcome[c] = "none" /\ outcome'[c] # "none"
          /\ \A d \in Calls \ {c} : outcome'[d] = outcome[d]
      BY <1>p, <1>2 DEF ServicesTyped, ToldOnce, Terminal
    <2>2. {d \in accepted' : outcome'[d] # "none"} = {d \in accepted : outcome[d] # "none"} \cup {c}
      BY <1>p, <2>1 DEF ServicesTyped
    <2>3. Contract!Settle(c)
      BY <2>1, <2>2 DEF Contract!Settle
    <2> QED
      BY <2>3 DEF ServicesNext, Contract!ContractNext
  <1> QED
    BY <1>1, <1>2

LEMMA ContractStep ==
  ASSUME RequestsAssumption, IInv, [Next]_vars
  PROVE  ServicesNext
  <1>p. /\ ServicesTyped /\ TasksTyped /\ Hands /\ ToldOnce
    BY InvParts
  <1>1. CASE UNCHANGED vars
    BY <1>1, SaysNothing DEF vars
  <1>2. ASSUME NEW t \in Threads, NEW c \in Calls, Start(t, c)
        PROVE  ServicesNext
    <2>1. /\ c \notin begun /\ ~closing /\ closing' = closing /\ told' = told /\ c \notin accepted
          /\ outcome[c] = "none"
      BY <1>p, <1>2 DEF Start, ServicesTyped, ToldOnce
    <2>2. CASE accepted' = accepted \cup {c} /\ outcome' = outcome
      <3>1. {d \in accepted' : outcome'[d] # "none"} = {d \in accepted : outcome[d] # "none"}
        BY <2>1, <2>2
      <3>2. {d \in accepted' : told'[d] > 0} = {d \in accepted : told[d] > 0}
        BY <1>p, <2>1, <2>2 DEF ToldOnce, Settled, ServicesTyped
      <3>3. [d \in Calls |-> IF d \in accepted' THEN "services" ELSE "nobody"]
               = [[d \in Calls |-> IF d \in accepted THEN "services" ELSE "nobody"] EXCEPT ![c] = "services"]
        BY <2>2
      <3>4. Contract!Accept(c, "services")
        BY <2>1, <3>1, <3>2, <3>3 DEF Contract!Accept
      <3> QED
        BY <3>4 DEF ServicesNext, Contract!ContractNext
    <2>3. CASE accepted' = accepted /\ outcome' = [outcome EXCEPT ![c] = "Busy"]
      <3>1. \A d \in accepted : outcome'[d] = outcome[d]
        BY <1>p, <2>1, <2>3 DEF ServicesTyped
      <3>2. UNCHANGED Contract!contractVars
        BY <2>1, <2>3, <3>1 DEF Contract!contractVars
      <3> QED
        BY <3>2 DEF ServicesNext
    <2> QED
      BY <1>2, <2>2, <2>3 DEF Start
  <1>3. ASSUME NEW t \in Threads, Failed(t) \/ End(t)
        PROVE  ServicesNext
    <2>1. op[t].c \in Calls /\ op[t].code \in Terminal
      BY <1>p, <1>3 DEF Failed, End, At, Hands, ServicesTyped
    <2>2. PICK c \in Calls, code \in Terminal : op[t].c = c /\ op[t].code = code
      BY <2>1
    <2>3. /\ UNCHANGED <<accepted, told, closing>>
          /\ (c \in active /\ outcome' = [outcome EXCEPT ![c] = code]) \/ outcome' = outcome
      BY <1>3, <2>2 DEF Failed, End, Take, History
    <2> QED
      BY <2>3, Completes
  <1>4. ASSUME NEW t \in Threads,
               Subscribe(t) \/ Register(t) \/ Call(t) \/ Store(t) \/ BackendCancel(t)
        PROVE  ServicesNext
    <2>1. UNCHANGED <<accepted, outcome, told, closing>>
      BY <1>4 DEF Subscribe, Register, Call, Store, BackendCancel, Services, History
    <2> QED
      BY <2>1, SaysNothing
  <1>5. ASSUME NEW t \in Threads, NEW c \in Calls, Cancel(t, c)
        PROVE  ServicesNext
    BY <1>5, SaysNothing DEF Cancel, Services, History
  <1>6. CASE Subscribe2 \/ Install \/ Reply \/ Response
    <2>1. UNCHANGED <<accepted, outcome, told, closing>>
      BY <1>6 DEF Subscribe2, Install, Reply, Response, Services, History
    <2> QED
      BY <2>1, SaysNothing
  <1>7. CASE Done
    <2>0. /\ Runs("done") /\ told' = (IF closing THEN told ELSE [told EXCEPT ![Next_.c] = @ + 1])
          /\ UNCHANGED <<accepted, outcome, closing>>
      BY <1>7 DEF Done, Services
    <2>1. 1 \in 1..Len(tasks) /\ Next_ = tasks[1] /\ Next_ \in Tasks /\ Next_.kind = "done"
      BY <1>p, <2>0, TaskRun
    <2>2. PICK c \in Calls : Next_.c = c
      BY <2>1, TaskFields
    <2>3. Settled(c) /\ told[c] = 0
      BY <1>p, <2>1, <2>2 DEF ToldOnce, Settled
    <2>4. CASE closing
      BY <2>0, <2>4, SaysNothing
    <2>5. CASE ~closing
      <3>1. told'[c] = 1 /\ \A d \in Calls \ {c} : told'[d] = told[d]
        BY <1>p, <2>0, <2>2, <2>3, <2>5 DEF ServicesTyped
      <3>2. CASE c \in accepted
        <4>1. {d \in accepted' : told'[d] > 0} = {d \in accepted : told[d] > 0} \cup {c}
          BY <1>p, <2>0, <3>1, <3>2 DEF ServicesTyped
        <4>2. {d \in accepted' : outcome'[d] # "none"} = {d \in accepted : outcome[d] # "none"}
          BY <2>0
        <4>3. Contract!Tell(c)
          BY <2>0, <2>3, <2>5, <3>2, <4>1, <4>2 DEF Contract!Tell, Settled
        <4> QED
          BY <4>3 DEF ServicesNext, Contract!ContractNext
      <3>3. CASE c \notin accepted
        <4>1. {d \in accepted' : told'[d] > 0} = {d \in accepted : told[d] > 0}
          BY <1>p, <2>0, <3>1, <3>3 DEF ServicesTyped
        <4>2. UNCHANGED Contract!contractVars
          BY <2>0, <4>1 DEF Contract!contractVars
        <4> QED
          BY <4>2 DEF ServicesNext
      <3> QED
        BY <3>2, <3>3
    <2> QED
      BY <2>4, <2>5
  <1>8. CASE Destroy
    <2>1. ~closing /\ closing' = TRUE /\ UNCHANGED <<accepted, outcome, told>>
      BY <1>8 DEF Destroy, History
    <2>2. Contract!Leave("services")
      BY <2>1 DEF Contract!Leave
    <2> QED
      BY <2>2 DEF ServicesNext, Contract!ContractNext
  <1>9. ASSUME NEW c \in Calls,
               PortalResponds(c) \/ \E what \in Handles \cup {"failed"} : PortalReplies(c, what)
        PROVE  ServicesNext
    <2>1. UNCHANGED <<accepted, outcome, told, closing>>
      BY <1>9 DEF PortalResponds, PortalReplies, Services, History
    <2> QED
      BY <2>1, SaysNothing
  <1>10. CASE BusLost
    BY <1>10, SaysNothing DEF BusLost, Services, History
  <1> QED
    BY <1>1, <1>2, <1>3, <1>4, <1>5, <1>6, <1>7, <1>8, <1>9, <1>10
       DEF Next, Goes, Replaces, RunsTask
-----------------------------------------------------------------------------
(***************************************************************************)
(* The theorems.                                                            *)
(***************************************************************************)
LEMMA InvHolds ==
  ASSUME RequestsAssumption
  PROVE  Spec => []IInv
  <1>1. Init => IInv
    BY InvInit
  <1>2. IInv /\ [Next]_vars => IInv'
    BY InvStep
  <1> QED
    BY <1>1, <1>2, PTL DEF Spec

\* Every variable has its type, for any calls, threads and faults.
THEOREM RequestsAlwaysTyped ==
  ASSUME RequestsAssumption
  PROVE  Spec => []TypeOK
  <1>1. IInv => TypeOK
    BY InvTyped
  <1> QED
    BY <1>1, InvHolds, PTL

\* Whoever ends a request, and whatever fails meanwhile, the bus holds nothing of it
\* that is in nobody's hands.
THEOREM BusAlwaysHoldsNothingElse ==
  ASSUME RequestsAssumption
  PROVE  Spec => []BusHoldsNothingElse
  <1>1. IInv => BusHoldsNothingElse
    BY InvSound
  <1> QED
    BY <1>1, InvHolds, PTL

\* When nobody works on a request, the services and the backend agree whether it is
\* active.
THEOREM BothAlwaysHoldTheRequest ==
  ASSUME RequestsAssumption
  PROVE  Spec => []BothHoldTheRequest
  <1>1. IInv => BothHoldTheRequest
    BY InvSound
  <1> QED
    BY <1>1, InvHolds, PTL

\* Cancel returns true to the one that cancelled the request.
THEOREM CancelAlwaysTellsTheTruth ==
  ASSUME RequestsAssumption
  PROVE  Spec => []CancelTellsTheTruth
  <1>1. IInv => CancelTellsTheTruth
    BY InvSound
  <1> QED
    BY <1>1, InvHolds, PTL

\* The services implement the contract of a request: taken once, settled once by
\* whichever of failure, response, error and cancellation comes first, its callback
\* called at most once and after that, and never after the services were destroyed.
THEOREM RequestsImplementContract ==
  ASSUME RequestsAssumption
  PROVE  Spec => ImplementsRequestContract
  <1>1. Init => Contract!ContractInit
    BY ContractBegins
  <1>2. IInv /\ [Next]_vars => [Contract!ContractNext]_(Contract!contractVars)
    BY ContractStep DEF ServicesNext
  <1> QED
    BY <1>1, <1>2, InvHolds, PTL DEF Spec, ImplementsRequestContract, Contract!ContractSpec
=============================================================================
