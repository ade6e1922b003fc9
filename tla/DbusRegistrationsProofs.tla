----------------------- MODULE DbusRegistrationsProofs -----------------------
(***************************************************************************)
(* Proofs about DbusRegistrations, for any number of threads, clients,      *)
(* subscriptions and paths.  The invariant is built in layers, each proved  *)
(* with the help of those before it: how operations proceed (Typed), the    *)
(* shutdown (Stopping), the ids (Given), then what each property needs.     *)
(***************************************************************************)
EXTENDS DbusRegistrations, TLAPS

USE OwnerAssumption, ThreadsAssumption, IdsAssumption
-----------------------------------------------------------------------------
(***************************************************************************)
(* Operations.                                                              *)
(***************************************************************************)
OpsTyped == op \in [Actors -> Operations]

\* The operation of a is now at step st of kind k, for client c, with i in hand
\* and t to do; those of the others go on unchanged.
Becomes(a, k, st, c, i, t) ==
    /\ OpsTyped'
    /\ op'[a].kind = k /\ op'[a].step = st /\ op'[a].client = c
    /\ op'[a].id = i /\ op'[a].todo = t
    /\ \A b \in Actors \ {a} : op'[b] = op[b]

Tears(a) == op[a].kind \in {"release", "stop"}

\* An operation of a of kind k is at a step of its kind, with what the step needs
\* in hand.
Fits(a, k, st, c, i, t) ==
    /\ k \in {"none", "call"} => st = "none" /\ i = Nobody
    /\ k = "call" => a = "io"
    /\ k = "subscribe" => a # "io" /\ st = "wait" /\ i \in Subs
    /\ k = "unregister" => st \in {"raw", "idle", "restore"} /\ i \in Paths /\ c = OwnerOf[i]
    /\ k \in {"release", "stop"} =>
          /\ st \in {"subs", "unsub", "paths", "raw", "idle", "next", "halt", "join"}
          /\ st \in {"subs", "unsub", "paths", "raw", "idle"} => c \in Clients
          /\ st = "unsub" => i \in Subs /\ OwnerOf[i] = c
          /\ st \in {"raw", "idle"} => i \in Paths /\ OwnerOf[i] = c
          /\ st \in {"subs", "paths", "next", "halt", "join"} => i = Nobody
          /\ st \in {"halt", "join"} => k = "stop"
    /\ k # "stop" => t = {}

Shape ==
    \A a \in Actors : Fits(a, op[a].kind, op[a].step, op[a].client, op[a].id, op[a].todo)

Typed == TypeOK /\ Shape

\* What TypeOK says of the operations alone.
LEMMA OpsAreTyped ==
  ASSUME TypeOK
  PROVE  OpsTyped
  BY DEF TypeOK, OpsTyped

\* Begins starts an operation at a and leaves those of the others.
LEMMA Begun ==
  ASSUME TypeOK, NEW a \in Actors,
         NEW k \in {"none", "call", "subscribe", "unregister", "release", "stop"},
         NEW st \in Steps, NEW c \in Clients \cup {Nobody}, NEW i \in Ids \cup {Nobody},
         NEW t \in SUBSET Clients, Begins(a, k, st, c, i, t)
  PROVE  Becomes(a, k, st, c, i, t)
  BY OpsAreTyped DEF OpsTyped, Becomes, Begins, Operations

\* GoesTo moves the operation of a to another step.
LEMMA Gone ==
  ASSUME TypeOK, NEW a \in Actors, NEW st \in Steps, GoesTo(a, st)
  PROVE  Becomes(a, op[a].kind, st, op[a].client, op[a].id, op[a].todo)
  BY OpsAreTyped DEF OpsTyped, Becomes, GoesTo, Operations

\* GoesWith moves the operation of a to another step, with another id in hand.
LEMMA GoneWith ==
  ASSUME TypeOK, NEW a \in Actors, NEW st \in Steps, NEW i \in Ids \cup {Nobody},
         GoesWith(a, st, i)
  PROVE  Becomes(a, op[a].kind, st, op[a].client, i, op[a].todo)
  <1> DEFINE r == [op[a] EXCEPT !.step = st, !.id = i]
  <1>1. op \in [Actors -> Operations]
    BY OpsAreTyped DEF OpsTyped
  <1>2. /\ r \in Operations
        /\ r.kind = op[a].kind /\ r.step = st /\ r.client = op[a].client
        /\ r.id = i /\ r.todo = op[a].todo
    BY <1>1 DEF Operations
  <1>3. op' = [op EXCEPT ![a] = r]
    BY DEF GoesWith
  <1> HIDE DEF r
  <1> QED
    BY <1>1, <1>2, <1>3 DEF Becomes, OpsTyped

\* Returns ends the operation of a.
LEMMA Returned ==
  ASSUME TypeOK, NEW a \in Actors, Returns(a)
  PROVE  Becomes(a, "none", "none", Nobody, Nobody, {})
  <1>1. Idle \in Operations
    BY DEF Idle, Operations, Steps, Ids
  <1> QED
    BY <1>1, OpsAreTyped DEF OpsTyped, Becomes, Idle, Returns

\* The values of an operation's fields.
LEMMA Fields ==
  ASSUME TypeOK, NEW a \in Actors
  PROVE  /\ op[a].kind \in {"none", "call", "subscribe", "unregister", "release", "stop"}
         /\ op[a].step \in Steps /\ op[a].client \in Clients \cup {Nobody}
         /\ op[a].id \in Ids \cup {Nobody} /\ op[a].todo \subseteq Clients
  BY DEF TypeOK, Operations

\* The values of the sets.
LEMMA Sets ==
  ASSUME TypeOK
  PROVE  /\ members \subseteq Clients /\ released \subseteq Clients /\ disturbed \subseteq Clients
         /\ signals \subseteq Subs /\ active \subseteq Subs /\ rules \subseteq Subs
         /\ cancelled \subseteq Subs /\ paths \subseteq Paths /\ live \subseteq Paths
         /\ table \subseteq Paths /\ silenced \subseteq Paths /\ inFlight \subseteq {io.path}
  BY DEF TypeOK

\* What an operation at a step is, and has in hand.
LEMMA AtStep ==
  ASSUME Typed, NEW a \in Actors
  PROVE  /\ op[a].step \in {"raw", "idle"} =>
               /\ op[a].kind = "unregister" \/ Tears(a)
               /\ op[a].id \in Paths /\ op[a].client = OwnerOf[op[a].id]
         /\ op[a].step = "restore" =>
               /\ op[a].kind = "unregister"
               /\ op[a].id \in Paths /\ op[a].client = OwnerOf[op[a].id]
         /\ op[a].step = "unsub" =>
               Tears(a) /\ op[a].id \in Subs /\ op[a].client = OwnerOf[op[a].id]
         /\ op[a].step \in {"subs", "paths"} =>
               Tears(a) /\ op[a].client \in Clients /\ op[a].id = Nobody
         /\ op[a].step = "next" => Tears(a) /\ op[a].id = Nobody
         /\ op[a].step \in {"halt", "join"} => op[a].kind = "stop" /\ op[a].id = Nobody
         /\ op[a].kind = "subscribe" => op[a].step = "wait" /\ op[a].id \in Subs
         /\ op[a].kind \notin {"unregister", "release", "stop"} => op[a].step \in {"none", "wait"}
  BY Fields DEF Typed, Shape, Fits, Tears

\* A path is in the hands of those who unregister it or release its owner.
LEMMA PathInHand ==
  ASSUME Typed, NEW a \in Actors, op[a].id \in Paths
  PROVE  \/ op[a].kind = "unregister"
         \/ Tears(a) /\ op[a].client = OwnerOf[op[a].id]
  BY Fields DEF Typed, Shape, Fits, Tears, Nobody

\* Who may call has nothing in hand.
LEMMA CallersAreFree ==
  ASSUME Typed, NEW a \in Actors, CanCall(a)
  PROVE  /\ op[a].kind \in {"none", "call"} /\ op[a].step = "none" /\ op[a].id = Nobody
         /\ op[a].todo = {} /\ ~Tears(a)
  BY DEF CanCall, Typed, Shape, Fits, Idle, Tears

\* An operation that moves to a fitting step leaves the shape of all.
LEMMA ShapeMoves ==
  ASSUME Shape, NEW a \in Actors, NEW k, NEW st, NEW c, NEW i, NEW t,
         Becomes(a, k, st, c, i, t), Fits(a, k, st, c, i, t)
  PROVE  Shape'
  BY DEF Shape, Becomes
-----------------------------------------------------------------------------
(***************************************************************************)
(* What each action does to the operations.                                 *)
(***************************************************************************)
\* A client thread that subscribes waits; a handler is done at once.
LEMMA SubscribeOp ==
  ASSUME Typed, NEW a \in Actors, NEW s \in Subs, Subscribe(a, s)
  PROVE  \/ a # "io" /\ Becomes(a, "subscribe", "wait", Nobody, s, {})
         \/ a = "io" /\ Becomes(a, "none", "none", Nobody, Nobody, {})
  BY Begun, Returned DEF Typed, Subscribe, Ids, Steps

\* An unregistration takes the path and waits for its handler, or fails: the surface takes
\* the path back, a release gives up.
LEMMA RawUnregisterOp ==
  ASSUME Typed, NEW a \in Actors, RawUnregister(a)
  PROVE  \/ /\ Becomes(a, op[a].kind, "idle", op[a].client, op[a].id, op[a].todo)
            /\ paths' = paths \ {op[a].id}
         \/ /\ op[a].kind = "unregister"
            /\ Becomes(a, "unregister", "restore", op[a].client, op[a].id, op[a].todo)
            /\ paths' = paths
         \/ /\ Tears(a)
            /\ Becomes(a, op[a].kind, "next", op[a].client, Nobody, op[a].todo)
            /\ paths' = paths
            /\ ~conn \/ stopping \/ op[a].id \notin paths \/ op[a].client \in disturbed'
  BY Gone, GoneWith, AtStep DEF Typed, RawUnregister, AfterFailure, Steps

\* Once no handler runs, unregister returns and a release looks for the next path.
LEMMA AwaitIdleOp ==
  ASSUME Typed, NEW a \in Actors, AwaitIdle(a)
  PROVE  \/ /\ op[a].kind = "unregister"
            /\ Becomes(a, "none", "none", Nobody, Nobody, {})
         \/ /\ Tears(a)
            /\ Becomes(a, op[a].kind, "paths", op[a].client, Nobody, op[a].todo)
  BY Returned, GoneWith, AtStep DEF Typed, AwaitIdle, Steps

\* A release finds a subscription of its client, or goes on to the paths.
LEMMA FindSignalOp ==
  ASSUME Typed, NEW a \in Actors, FindSignal(a)
  PROVE  \/ \E s \in Owned(op[a].client, signals) :
               Becomes(a, op[a].kind, "unsub", op[a].client, s, op[a].todo)
         \/ /\ Owned(op[a].client, signals) = {}
            /\ Becomes(a, op[a].kind, "paths", op[a].client, Nobody, op[a].todo)
  <1>1. op[a].id = Nobody
    BY AtStep DEF FindSignal
  <1>2. Owned(op[a].client, signals) \subseteq Ids
    BY DEF Typed, TypeOK, Owned, Ids
  <1> QED
    BY <1>1, <1>2, Gone, GoneWith DEF Typed, FindSignal, Steps

\* A release finds a path of its client, or is done.
LEMMA FindOwnPathOp ==
  ASSUME Typed, NEW a \in Actors, FindOwnPath(a)
  PROVE  \/ \E p \in Owned(op[a].client, paths) :
               Becomes(a, op[a].kind, "raw", op[a].client, p, op[a].todo)
         \/ /\ Owned(op[a].client, paths) = {}
            /\ Becomes(a, op[a].kind, "next", op[a].client, Nobody, op[a].todo)
  <1>1. op[a].id = Nobody
    BY AtStep DEF FindOwnPath
  <1>2. Owned(op[a].client, paths) \subseteq Ids
    BY DEF Typed, TypeOK, Owned, Ids
  <1> QED
    BY <1>1, <1>2, Gone, GoneWith DEF Typed, FindOwnPath, Steps

\* A release drops the subscription it found, or goes on to the paths.
LEMMA ReleaseSignalOp ==
  ASSUME Typed, NEW a \in Actors, ReleaseSignal(a)
  PROVE  \/ /\ Unsubscribable(op[a].id)
            /\ Becomes(a, op[a].kind, "subs", op[a].client, Nobody, op[a].todo)
         \/ /\ ~Unsubscribable(op[a].id)
            /\ Becomes(a, op[a].kind, "paths", op[a].client, Nobody, op[a].todo)
  BY GoneWith DEF Typed, ReleaseSignal, Steps

\* A release returns; stop() goes on with the next client or halts the transport.
LEMMA ReleaseEndsOp ==
  ASSUME Typed, NEW a \in Actors, ReleaseEnds(a)
  PROVE  \/ op[a].kind = "release" /\ Becomes(a, "none", "none", Nobody, Nobody, {})
         \/ /\ op[a].kind = "stop"
            /\ \E c \in op[a].todo : Becomes(a, "stop", "subs", c, Nobody, op[a].todo \ {c})
         \/ /\ op[a].kind = "stop"
            /\ Becomes(a, "stop", "halt", Nobody, Nobody, {})
  <1>1. op[a].todo \subseteq Clients
    BY Fields DEF Typed
  <1> QED
    BY <1>1, Returned, Begun DEF Typed, ReleaseEnds, Steps

\* The I/O thread returns from stop(), any other thread goes on to join it.
LEMMA HaltOp ==
  ASSUME Typed, NEW a \in Actors, Halt(a)
  PROVE  \/ SeenAsIo(a) /\ Becomes(a, "none", "none", Nobody, Nobody, {})
         \/ /\ ~SeenAsIo(a) /\ stopping'
            /\ Becomes(a, op[a].kind, "join", op[a].client, op[a].id, op[a].todo)
  BY Returned, Gone DEF Typed, Halt, Steps

\* unregister_object_path has the path in hand.
LEMMA UnregisterOp ==
  ASSUME Typed, NEW a \in Actors, NEW p \in Paths, Unregister(a, p)
  PROVE  Becomes(a, "unregister", "raw", OwnerOf[p], p, {})
  <1>1. OwnerOf[p] \in Clients
    OBVIOUS
  <1> QED
    BY <1>1, Begun DEF Typed, Unregister, Steps, Ids

\* release_client begins with the subscriptions.
LEMMA ReleaseOp ==
  ASSUME Typed, NEW a \in Actors, NEW c \in Clients, Release(a, c)
  PROVE  Becomes(a, "release", "subs", c, Nobody, {})
  BY Begun DEF Typed, Release, Steps

\* stop() has the members of the surface to release.
LEMMA StopOp ==
  ASSUME Typed, NEW a \in Actors, Stop(a)
  PROVE  Becomes(a, "stop", "next", Nobody, Nobody, members)
  <1>1. members \subseteq Clients
    BY DEF Typed, TypeOK
  <1> QED
    BY <1>1, Begun DEF Typed, Stop, Steps

\* The destructor halts the transport.
LEMMA DestroyOp ==
  ASSUME Typed, NEW a \in Actors, Destroy(a)
  PROVE  Becomes(a, "stop", "halt", Nobody, Nobody, {})
  BY Begun DEF Typed, Destroy, Steps

\* A handler decides to call the surface.
LEMMA HandlerCallsOp ==
  ASSUME Typed, HandlerCalls
  PROVE  Becomes("io", "call", "none", Nobody, Nobody, {})
  BY Begun DEF Typed, HandlerCalls, Actors, Steps
-----------------------------------------------------------------------------
(***************************************************************************)
(* Types and shapes.                                                        *)
(***************************************************************************)
\* Every step leaves operations of the declared form.
LEMMA OpsStep ==
  ASSUME Typed, [Next]_vars
  PROVE  OpsTyped'
  <1> USE DEF Typed
  <1>1. ASSUME NEW a \in Actors, SubscribeEnds(a) PROVE OpsTyped'
    BY <1>1, Returned, OpsAreTyped
       DEF SubscribeEnds, Becomes, OpsTyped
  <1>2. ASSUME NEW a \in Actors, RawUnregister(a) PROVE OpsTyped'
    BY <1>2, RawUnregisterOp, OpsAreTyped
       DEF RawUnregister, Becomes, OpsTyped
  <1>3. ASSUME NEW a \in Actors, AwaitIdle(a) PROVE OpsTyped'
    BY <1>3, AwaitIdleOp, OpsAreTyped
       DEF AwaitIdle, Becomes, OpsTyped
  <1>4. ASSUME NEW a \in Actors, Restore(a) PROVE OpsTyped'
    BY <1>4, Returned, OpsAreTyped
       DEF Restore, Becomes, OpsTyped
  <1>5. ASSUME NEW a \in Actors, FindSignal(a) PROVE OpsTyped'
    BY <1>5, FindSignalOp, OpsAreTyped
       DEF FindSignal, Becomes, OpsTyped
  <1>6. ASSUME NEW a \in Actors, ReleaseSignal(a) PROVE OpsTyped'
    BY <1>6, ReleaseSignalOp, OpsAreTyped
       DEF ReleaseSignal, Becomes, OpsTyped
  <1>7. ASSUME NEW a \in Actors, FindOwnPath(a) PROVE OpsTyped'
    BY <1>7, FindOwnPathOp, OpsAreTyped
       DEF FindOwnPath, Becomes, OpsTyped
  <1>8. ASSUME NEW a \in Actors, ReleaseEnds(a) PROVE OpsTyped'
    BY <1>8, ReleaseEndsOp, OpsAreTyped
       DEF ReleaseEnds, Becomes, OpsTyped
  <1>9. ASSUME NEW a \in Actors, Halt(a) PROVE OpsTyped'
    BY <1>9, HaltOp, OpsAreTyped
       DEF Halt, Becomes, OpsTyped
  <1>10. ASSUME NEW a \in Actors, Join(a) PROVE OpsTyped'
    BY <1>10, Returned, OpsAreTyped
       DEF Join, Becomes, OpsTyped
  <1>11. ASSUME NEW a \in Actors, a = "io", CallRefused PROVE OpsTyped'
    BY <1>11, Returned, OpsAreTyped
       DEF CallRefused, Becomes, OpsTyped
  <1>12. ASSUME NEW a \in Actors, NEW s \in Subs, Subscribe(a, s) PROVE OpsTyped'
    BY <1>12, SubscribeOp, CallersAreFree, OpsAreTyped
       DEF Subscribe, Becomes, OpsTyped
  <1>13. ASSUME NEW a \in Actors, NEW s \in Subs, Unsubscribe(a, s) PROVE OpsTyped'
    BY <1>13, Returned, CallersAreFree, OpsAreTyped
       DEF Unsubscribe, Becomes, OpsTyped
  <1>14. ASSUME NEW a \in Actors, NEW p \in Paths, Register(a, p) PROVE OpsTyped'
    BY <1>14, Returned, CallersAreFree, OpsAreTyped
       DEF Register, Becomes, OpsTyped
  <1>15. ASSUME NEW a \in Actors, NEW p \in Paths, Unregister(a, p) PROVE OpsTyped'
    BY <1>15, UnregisterOp, CallersAreFree, OpsAreTyped
       DEF Unregister, Becomes, OpsTyped
  <1>16. ASSUME NEW a \in Actors, NEW c \in Clients, Release(a, c) PROVE OpsTyped'
    BY <1>16, ReleaseOp, CallersAreFree, OpsAreTyped
       DEF Release, Becomes, OpsTyped
  <1>17. ASSUME NEW a \in Actors, Stop(a) PROVE OpsTyped'
    BY <1>17, StopOp, CallersAreFree, OpsAreTyped
       DEF Stop, Becomes, OpsTyped
  <1>18. ASSUME NEW a \in Actors, Destroy(a) PROVE OpsTyped'
    BY <1>18, DestroyOp, OpsAreTyped
       DEF Destroy, Becomes, OpsTyped
  <1>19. ASSUME NEW s \in Subs, Install(s) \/ Conclude(s) \/ SignalArrives(s) \/
               RunDelivery(s) \/ StartDelivery(s)
        PROVE  OpsTyped'
    BY <1>19, OpsAreTyped
       DEF Install, Conclude, SignalArrives, RunDelivery, StartDelivery, OpsTyped
  <1>20. ASSUME NEW p \in Paths, FindPath(p) PROVE OpsTyped'
    BY <1>20, OpsAreTyped
       DEF FindPath, OpsTyped
  <1>21. CASE EnterHandler \/ HandlerReturns \/ LoopEnds
    BY <1>21, OpsAreTyped
       DEF EnterHandler, HandlerReturns, LoopEnds, OpsTyped
  <1>22. CASE HandlerCalls
    BY <1>22, HandlerCallsOp, OpsAreTyped
       DEF HandlerCalls, Becomes, OpsTyped
  <1>23. CASE UNCHANGED vars
    BY <1>23, OpsAreTyped
       DEF vars, OpsTyped
  <1> QED
    BY <1>1, <1>2, <1>3, <1>4, <1>5, <1>6, <1>7, <1>8, <1>9, <1>10, <1>11, <1>12, <1>13, <1>14,
       <1>15, <1>16, <1>17, <1>18, <1>19, <1>20, <1>21, <1>22, <1>23
       DEF Next, GoesOn, Calls

\* Every step keeps the type invariant.
LEMMA TypeStep ==
  ASSUME Typed, [Next]_vars
  PROVE  TypeOK'
  <1> USE DEF Typed
  <1>0. OpsTyped'
    BY OpsStep
  <1>1. ASSUME NEW a \in Actors, SubscribeEnds(a) PROVE TypeOK'
    <2>1. op[a].id \in Subs
      BY <1>1, AtStep DEF SubscribeEnds
    <2>2. /\ filter' \in BOOLEAN /\ signals' \subseteq Subs /\ slots' \subseteq Ids
          /\ cmd' \in {cmd, [cmd EXCEPT ![op[a].id] = "none"]}
          /\ cancelled' \subseteq Subs /\ quiet' \subseteq Subs
      BY <1>1, <2>1 DEF SubscribeEnds, Undo, Discards, Hears, TypeOK
    <2>3. UNCHANGED <<surfaceVars, lifeVars, active, rules, posted, begun, pathVars, used, io,
                      released, silenced, disturbed>>
      BY <1>1 DEF SubscribeEnds
    <2> QED
      BY <1>0, <2>2, <2>3 DEF surfaceVars, lifeVars, pathVars, TypeOK, OpsTyped
  <1>2. ASSUME NEW a \in Actors, RawUnregister(a) PROVE TypeOK'
    BY <1>2, <1>0
       DEF RawUnregister, surfaceVars, lifeVars, signalVars, TypeOK, Ids, Nobody, OpsTyped
  <1>3. ASSUME NEW a \in Actors, AwaitIdle(a) PROVE TypeOK'
    BY <1>3, <1>0, AtStep
       DEF AwaitIdle, surfaceVars, lifeVars, signalVars, pathVars, TypeOK, Ids, Nobody, OpsTyped
  <1>4. ASSUME NEW a \in Actors, Restore(a) PROVE TypeOK'
    BY <1>4, <1>0, AtStep
       DEF Restore, lifeVars, signalVars, pathVars, historyVars, TypeOK, Ids, Nobody, OpsTyped
  <1>5. ASSUME NEW a \in Actors, FindSignal(a) \/ FindOwnPath(a) \/ Halt(a) \/ Join(a)
        PROVE  TypeOK'
    BY <1>5, <1>0
       DEF FindSignal, surfaceVars, lifeVars, signalVars, pathVars, historyVars, FindOwnPath,
           Halt, Join, Hears, TypeOK, Ids, Nobody, OpsTyped
  <1>6. ASSUME NEW a \in Actors, ReleaseSignal(a) PROVE TypeOK'
    BY <1>6, <1>0
       DEF ReleaseSignal, Unsubscribable, DropSignal, surfaceVars, lifeVars, pathVars,
           historyVars, TypeOK, Ids, Nobody, OpsTyped
  <1>7. ASSUME NEW a \in Actors, ReleaseEnds(a) PROVE TypeOK'
    BY <1>7, <1>0
       DEF ReleaseEnds, Hears, Owned, surfaceVars, lifeVars, signalVars, pathVars, TypeOK, Ids,
           Nobody, OpsTyped
  <1>8. ASSUME NEW a \in Actors, a = "io", CallRefused PROVE TypeOK'
    BY <1>8, <1>0
       DEF CallRefused, surfaceVars, lifeVars, signalVars, pathVars, historyVars, TypeOK, Ids,
           Nobody, OpsTyped
  <1>9. ASSUME NEW a \in Actors, NEW s \in Subs, Subscribe(a, s) \/ Unsubscribe(a, s)
        PROVE  TypeOK'
    <2>1. CASE Subscribe(a, s)
      BY <2>1, <1>0
         DEF Subscribe, surfaceVars, lifeVars, pathVars, historyVars, TypeOK, Ids, OpsTyped
    <2>2. CASE Unsubscribe(a, s)
      BY <2>2, <1>0
         DEF Unsubscribe, DropSignal, Hears, surfaceVars, lifeVars, pathVars, TypeOK, OpsTyped
    <2> QED
      BY <1>9, <2>1, <2>2
  <1>10. ASSUME NEW a \in Actors, NEW p \in Paths, Register(a, p) \/ Unregister(a, p)
        PROVE  TypeOK'
    BY <1>10, <1>0
       DEF Register, Accepting, lifeVars, signalVars, historyVars, Unregister, pathVars, TypeOK,
           Ids, Nobody, OpsTyped
  <1>11. ASSUME NEW a \in Actors, NEW c \in Clients, Release(a, c) PROVE TypeOK'
    BY <1>11, <1>0
       DEF Release, lifeVars, signalVars, pathVars, historyVars, TypeOK, Ids, Nobody, OpsTyped
  <1>12. ASSUME NEW a \in Actors, Stop(a) \/ Destroy(a) PROVE TypeOK'
    BY <1>12, <1>0
       DEF Stop, lifeVars, signalVars, pathVars, historyVars, Destroy, surfaceVars, TypeOK, Ids,
           Nobody, OpsTyped
  <1>13. ASSUME NEW s \in Subs, Install(s) \/ Conclude(s) \/ SignalArrives(s) \/
               RunDelivery(s) \/ StartDelivery(s)
        PROVE  TypeOK'
    BY <1>13, <1>0
       DEF Install, surfaceVars, lifeVars, pathVars, historyVars, Conclude, SignalArrives,
           RunDelivery, StartDelivery, TypeOK, Ids, Nobody, OpsTyped
  <1>14. ASSUME NEW p \in Paths, FindPath(p) PROVE TypeOK'
    BY <1>14, <1>0
       DEF FindPath, surfaceVars, lifeVars, signalVars, pathVars, historyVars, TypeOK, Ids,
           Nobody, OpsTyped
  <1>15. CASE EnterHandler \/ HandlerCalls \/ HandlerReturns \/ LoopEnds
    BY <1>15, <1>0
       DEF EnterHandler, surfaceVars, lifeVars, signalVars, historyVars, HandlerCalls, pathVars,
           HandlerReturns, LoopEnds, TypeOK, Ids, Nobody, OpsTyped
  <1>16. CASE UNCHANGED vars
    BY <1>16, <1>0
       DEF vars, surfaceVars, lifeVars, signalVars, pathVars, historyVars, TypeOK, Ids, Nobody,
           OpsTyped
  <1> QED
    BY <1>1, <1>2, <1>3, <1>4, <1>5, <1>6, <1>7, <1>8, <1>9, <1>10, <1>11, <1>12, <1>13, <1>14,
       <1>15, <1>16
       DEF Next, GoesOn, Calls

\* Every operation stays at a step of its kind, with what the step needs in hand.
LEMMA ShapeStep ==
  ASSUME Typed, [Next]_vars
  PROVE  Shape'
  <1> USE DEF Typed
  <1>1. ASSUME NEW a \in Actors, SubscribeEnds(a) PROVE Shape'
    <2>1. Fits(a, "none", "none", Nobody, Nobody, {})
      BY DEF Fits
    <2> QED
      BY <1>1, <2>1, Returned, ShapeMoves DEF SubscribeEnds
  <1>2. ASSUME NEW a \in Actors, RawUnregister(a) PROVE Shape'
    <2>1. /\ op[a].kind = "unregister" \/ Tears(a)
          /\ op[a].id \in Paths /\ op[a].client = OwnerOf[op[a].id]
      BY <1>2, AtStep DEF RawUnregister
    <2>2. Fits(a, op[a].kind, "idle", op[a].client, op[a].id, op[a].todo)
      BY <2>1 DEF Shape, Fits, Tears
    <2>3. op[a].kind = "unregister" =>
             Fits(a, "unregister", "restore", op[a].client, op[a].id, op[a].todo)
      BY <2>1 DEF Shape, Fits
    <2>4. Tears(a) => Fits(a, op[a].kind, "next", op[a].client, Nobody, op[a].todo)
      BY <2>1 DEF Shape, Fits, Tears
    <2> QED
      BY <1>2, <2>2, <2>3, <2>4, RawUnregisterOp, ShapeMoves
  <1>3. ASSUME NEW a \in Actors, AwaitIdle(a) PROVE Shape'
    <2>1. op[a].id \in Paths /\ op[a].client = OwnerOf[op[a].id]
      BY <1>3, AtStep DEF AwaitIdle
    <2>2. Fits(a, "none", "none", Nobody, Nobody, {})
      BY DEF Fits
    <2>3. Tears(a) => Fits(a, op[a].kind, "paths", op[a].client, Nobody, op[a].todo)
      BY <2>1 DEF Fits, Shape, Tears
    <2> QED
      BY <1>3, <2>2, <2>3, AwaitIdleOp, ShapeMoves
  <1>4. ASSUME NEW a \in Actors, Restore(a) PROVE Shape'
    BY <1>4, Returned, AtStep, Fields, ShapeMoves
       DEF Restore, Becomes, Shape, Fits, Tears
  <1>5. ASSUME NEW a \in Actors, FindSignal(a) PROVE Shape'
    <2>1. Tears(a) /\ op[a].client \in Clients /\ op[a].id = Nobody /\ op[a].step = "subs"
      BY <1>5, AtStep DEF FindSignal
    <2>2. ASSUME NEW s \in Owned(op[a].client, signals)
          PROVE  Fits(a, op[a].kind, "unsub", op[a].client, s, op[a].todo)
      BY <2>1 DEF Owned, TypeOK, Shape, Fits, Tears
    <2>3. Fits(a, op[a].kind, "paths", op[a].client, Nobody, op[a].todo)
      BY <2>1 DEF Shape, Fits, Tears
    <2> QED
      BY <1>5, <2>2, <2>3, FindSignalOp, ShapeMoves
  <1>6. ASSUME NEW a \in Actors, ReleaseSignal(a) PROVE Shape'
    BY <1>6, ReleaseSignalOp, AtStep, Fields, ShapeMoves
       DEF ReleaseSignal, Becomes, Shape, Fits, Tears
  <1>7. ASSUME NEW a \in Actors, FindOwnPath(a) PROVE Shape'
    <2>1. Tears(a) /\ op[a].client \in Clients /\ op[a].id = Nobody /\ op[a].step = "paths"
      BY <1>7, AtStep DEF FindOwnPath
    <2>2. ASSUME NEW p \in Owned(op[a].client, paths)
          PROVE  Fits(a, op[a].kind, "raw", op[a].client, p, op[a].todo)
      BY <2>1 DEF Owned, TypeOK, Shape, Fits, Tears
    <2>3. Fits(a, op[a].kind, "next", op[a].client, Nobody, op[a].todo)
      BY <2>1 DEF Shape, Fits, Tears
    <2> QED
      BY <1>7, <2>2, <2>3, FindOwnPathOp, ShapeMoves
  <1>8. ASSUME NEW a \in Actors, ReleaseEnds(a) PROVE Shape'
    <2>1. op[a].todo \subseteq Clients
      BY Fields
    <2>2. /\ Fits(a, "none", "none", Nobody, Nobody, {})
          /\ Fits(a, "stop", "halt", Nobody, Nobody, {})
      BY DEF Fits
    <2>3. \A c \in op[a].todo : Fits(a, "stop", "subs", c, Nobody, op[a].todo \ {c})
      BY <2>1 DEF Fits
    <2> QED
      BY <1>8, <2>2, <2>3, ReleaseEndsOp, ShapeMoves
  <1>9. ASSUME NEW a \in Actors, Halt(a) PROVE Shape'
    <2>1. op[a].kind = "stop" /\ op[a].id = Nobody
      BY <1>9, AtStep DEF Halt
    <2>2. Fits(a, "none", "none", Nobody, Nobody, {})
      BY DEF Fits
    <2>3. Fits(a, op[a].kind, "join", op[a].client, op[a].id, op[a].todo)
      BY <2>1 DEF Fits
    <2> QED
      BY <1>9, <2>2, <2>3, HaltOp, ShapeMoves
  <1>10. ASSUME NEW a \in Actors, Join(a) PROVE Shape'
    BY <1>10, Returned, AtStep, Fields, ShapeMoves
       DEF Join, Becomes, Shape, Fits, Tears
  <1>11. ASSUME NEW a \in Actors, a = "io", CallRefused PROVE Shape'
    BY <1>11, Returned, AtStep, Fields, ShapeMoves
       DEF CallRefused, Becomes, Shape, Fits, Tears
  <1>12. ASSUME NEW a \in Actors, NEW s \in Subs, Subscribe(a, s) PROVE Shape'
    <2>1. a # "io" => Fits(a, "subscribe", "wait", Nobody, s, {})
      BY DEF Fits
    <2>2. Fits(a, "none", "none", Nobody, Nobody, {})
      BY DEF Fits
    <2> QED
      BY <1>12, <2>1, <2>2, SubscribeOp, ShapeMoves
  <1>13. ASSUME NEW a \in Actors, NEW s \in Subs, Unsubscribe(a, s) PROVE Shape'
    <2>1. Fits(a, "none", "none", Nobody, Nobody, {})
      BY DEF Fits
    <2> QED
      BY <1>13, <2>1, Returned, ShapeMoves DEF Unsubscribe
  <1>14. ASSUME NEW a \in Actors, NEW p \in Paths, Register(a, p) PROVE Shape'
    BY <1>14, Returned, CallersAreFree, AtStep, Fields, ShapeMoves
       DEF Register, Becomes, Shape, Fits, Tears
  <1>15. ASSUME NEW a \in Actors, NEW p \in Paths, Unregister(a, p) PROVE Shape'
    <2>1. Fits(a, "unregister", "raw", OwnerOf[p], p, {})
      BY DEF Fits
    <2> QED
      BY <1>15, <2>1, UnregisterOp, ShapeMoves
  <1>16. ASSUME NEW a \in Actors, NEW c \in Clients, Release(a, c) PROVE Shape'
    <2>1. Fits(a, "release", "subs", c, Nobody, {})
      BY DEF Fits
    <2> QED
      BY <1>16, <2>1, ReleaseOp, ShapeMoves
  <1>17. ASSUME NEW a \in Actors, Stop(a) PROVE Shape'
    <2>1. Fits(a, "stop", "next", Nobody, Nobody, members)
      BY DEF Fits
    <2> QED
      BY <1>17, <2>1, StopOp, ShapeMoves
  <1>18. ASSUME NEW a \in Actors, Destroy(a) PROVE Shape'
    BY <1>18, DestroyOp, AtStep, Fields, ShapeMoves
       DEF Destroy, Becomes, Shape, Fits, Tears
  <1>19. ASSUME NEW s \in Subs, Install(s) \/ Conclude(s) \/ SignalArrives(s) \/
               RunDelivery(s) \/ StartDelivery(s)
        PROVE  Shape'
    BY <1>19, AtStep, Fields, ShapeMoves
       DEF Install, Conclude, SignalArrives, RunDelivery, StartDelivery, Shape, Fits, Tears
  <1>20. ASSUME NEW p \in Paths, FindPath(p) PROVE Shape'
    BY <1>20, AtStep, Fields, ShapeMoves
       DEF FindPath, Shape, Fits, Tears
  <1>21. CASE EnterHandler \/ HandlerReturns \/ LoopEnds
    BY <1>21, AtStep, Fields, ShapeMoves
       DEF EnterHandler, HandlerReturns, LoopEnds, Shape, Fits, Tears
  <1>22. CASE HandlerCalls
    BY <1>22, HandlerCallsOp, AtStep, Fields, ShapeMoves
       DEF HandlerCalls, Becomes, Shape, Fits, Tears
  <1>23. CASE UNCHANGED vars
    BY <1>23, AtStep, Fields, ShapeMoves
       DEF vars, Shape, Fits, Tears
  <1> QED
    BY <1>1, <1>2, <1>3, <1>4, <1>5, <1>6, <1>7, <1>8, <1>9, <1>10, <1>11, <1>12, <1>13, <1>14,
       <1>15, <1>16, <1>17, <1>18, <1>19, <1>20, <1>21, <1>22, <1>23
       DEF Next, GoesOn, Calls
-----------------------------------------------------------------------------
(***************************************************************************)
(* Shutdown.                                                                *)
(***************************************************************************)
\* Who waits for the I/O thread waits alone, and nobody waits once stop() has
\* taken the thread over.
Waiting ==
    /\ \A a, b \in Actors : op[a].kind = "subscribe" /\ op[b].kind = "subscribe" => a = b
    /\ stopping \/ ~conn => LocksFree

\* One operation at a time stops, when nothing else can be registered, and takes
\* the I/O thread over.
Stopping ==
    /\ \A a, b \in Actors : op[a].kind = "stop" /\ op[b].kind = "stop" => a = b
    /\ \A a \in Actors : op[a].kind = "stop" => closing /\ conn
    /\ \A a \in Actors : op[a].step = "join" => stopping

Stopped ==
    /\ stopping \/ ~conn => closing
    /\ stopping => handle = "moved" /\ stopReq
    /\ loop = "done" => \A s \in Subs : cmd[s] \notin {"queued", "installed", "failed"}
    /\ ~conn => ~stopping /\ signals = {} /\ paths = {}

\* subscribe_signal holds both mutexes, so a second waiter cannot come and nothing that needs
\* a mutex, the shutdown above all, happens meanwhile.
LEMMA WaitingStep ==
  ASSUME Typed, Waiting, Stopping, [Next]_vars
  PROVE  Waiting'
  <1> USE DEF Typed, Waiting
  <1>1. ASSUME NEW a \in Actors, SubscribeEnds(a) PROVE Waiting'
    BY <1>1, Returned, AtStep
       DEF SubscribeEnds, Undo, surfaceVars, lifeVars, pathVars, historyVars, Becomes,
           LocksFree, Tears
  <1>2. ASSUME NEW a \in Actors, RawUnregister(a) PROVE Waiting'
    BY <1>2, RawUnregisterOp, AtStep
       DEF RawUnregister, surfaceVars, lifeVars, signalVars, Becomes, LocksFree, Tears
  <1>3. ASSUME NEW a \in Actors, AwaitIdle(a) PROVE Waiting'
    BY <1>3, AwaitIdleOp, AtStep, SMTT(20)
       DEF AwaitIdle, surfaceVars, lifeVars, signalVars, pathVars, Becomes, LocksFree, Tears
  <1>4. ASSUME NEW a \in Actors, Restore(a) PROVE Waiting'
    BY <1>4, Returned, AtStep
       DEF Restore, lifeVars, signalVars, pathVars, historyVars, Becomes, LocksFree, Tears
  <1>5. ASSUME NEW a \in Actors, FindSignal(a) PROVE Waiting'
    BY <1>5, FindSignalOp, AtStep
       DEF FindSignal, surfaceVars, lifeVars, signalVars, pathVars, historyVars, Becomes,
           LocksFree, Tears
  <1>6. ASSUME NEW a \in Actors, ReleaseSignal(a) PROVE Waiting'
    BY <1>6, ReleaseSignalOp, AtStep
       DEF ReleaseSignal, Unsubscribable, DropSignal, surfaceVars, lifeVars, pathVars,
           historyVars, Becomes, LocksFree, Tears
  <1>7. ASSUME NEW a \in Actors, FindOwnPath(a) PROVE Waiting'
    BY <1>7, FindOwnPathOp, AtStep
       DEF FindOwnPath, surfaceVars, lifeVars, signalVars, pathVars, historyVars, Becomes,
           LocksFree, Tears
  <1>8. ASSUME NEW a \in Actors, ReleaseEnds(a) PROVE Waiting'
    <2>1. op[a].kind # "subscribe" /\ UNCHANGED <<conn, stopping>>
      BY <1>8, AtStep
         DEF ReleaseEnds, lifeVars
    <2> QED
      BY <1>8, <2>1, ReleaseEndsOp, AtStep
         DEF Becomes, Waiting, LocksFree, Tears
  <1>9. ASSUME NEW a \in Actors, Halt(a) PROVE Waiting'
    <2>1. LocksFree /\ conn' = conn
      BY <1>9
         DEF Halt
    <2> QED
      BY <1>9, <2>1, HaltOp
         DEF Becomes, LocksFree
  <1>10. ASSUME NEW a \in Actors, Join(a) PROVE Waiting'
    BY <1>10, Returned, AtStep
       DEF Join, surfaceVars, historyVars, Becomes, LocksFree, Tears, Stopping
  <1>11. ASSUME NEW a \in Actors, a = "io", CallRefused PROVE Waiting'
    BY <1>11, Returned, AtStep
       DEF CallRefused, surfaceVars, lifeVars, signalVars, pathVars, historyVars, Becomes,
           LocksFree, Tears
  <1>12. ASSUME NEW a \in Actors, NEW s \in Subs, Subscribe(a, s) PROVE Waiting'
    <2>1. LocksFree /\ conn /\ ~stopping /\ UNCHANGED lifeVars
      BY <1>12
         DEF Subscribe, Accepting
    <2>2. CanCall(a)
      BY <1>12 DEF Subscribe
    <2> QED
      BY <1>12, <2>1, <2>2, SubscribeOp, CallersAreFree
         DEF Becomes, LocksFree, lifeVars
  <1>13. ASSUME NEW a \in Actors, NEW s \in Subs, Unsubscribe(a, s) PROVE Waiting'
    BY <1>13, Returned, CallersAreFree, AtStep
       DEF Unsubscribe, Unsubscribable, DropSignal, surfaceVars, lifeVars, pathVars,
           historyVars, Becomes, LocksFree, Tears
  <1>14. ASSUME NEW a \in Actors, NEW p \in Paths, Register(a, p) PROVE Waiting'
    BY <1>14, Returned, CallersAreFree, AtStep
       DEF Register, Accepting, lifeVars, signalVars, historyVars, Becomes, LocksFree, Tears
  <1>15. ASSUME NEW a \in Actors, NEW p \in Paths, Unregister(a, p) PROVE Waiting'
    BY <1>15, UnregisterOp, CallersAreFree, AtStep
       DEF Unregister, lifeVars, signalVars, pathVars, historyVars, Becomes, LocksFree, Tears
  <1>16. ASSUME NEW a \in Actors, NEW c \in Clients, Release(a, c) PROVE Waiting'
    BY <1>16, ReleaseOp, CallersAreFree, AtStep
       DEF Release, lifeVars, signalVars, pathVars, historyVars, Becomes, LocksFree, Tears
  <1>17. ASSUME NEW a \in Actors, Stop(a) PROVE Waiting'
    BY <1>17, StopOp, CallersAreFree, AtStep
       DEF Stop, lifeVars, signalVars, pathVars, historyVars, Becomes, LocksFree, Tears
  <1>18. ASSUME NEW a \in Actors, Destroy(a) PROVE Waiting'
    BY <1>18, DestroyOp, AtStep
       DEF Destroy, surfaceVars, lifeVars, signalVars, pathVars, historyVars, Becomes,
           LocksFree, Tears
  <1>19. ASSUME NEW s \in Subs, Install(s) \/ Conclude(s) \/ SignalArrives(s) \/
               RunDelivery(s) \/ StartDelivery(s)
        PROVE  Waiting'
    BY <1>19, AtStep
       DEF Install, surfaceVars, lifeVars, pathVars, historyVars, Conclude, SignalArrives,
           RunDelivery, StartDelivery, LocksFree, Tears
  <1>20. ASSUME NEW p \in Paths, FindPath(p) PROVE Waiting'
    BY <1>20, AtStep
       DEF FindPath, surfaceVars, lifeVars, signalVars, pathVars, historyVars, LocksFree, Tears
  <1>21. CASE EnterHandler \/ HandlerReturns \/ LoopEnds
    BY <1>21, AtStep
       DEF EnterHandler, surfaceVars, lifeVars, signalVars, historyVars, HandlerReturns,
           LoopEnds, pathVars, LocksFree, Tears
  <1>22. CASE HandlerCalls
    BY <1>22, HandlerCallsOp, AtStep
       DEF HandlerCalls, surfaceVars, lifeVars, signalVars, pathVars, historyVars, Becomes,
           LocksFree, Tears
  <1>23. CASE UNCHANGED vars
    BY <1>23, AtStep
       DEF vars, surfaceVars, lifeVars, signalVars, pathVars, historyVars, LocksFree, Tears
  <1> QED
    BY <1>1, <1>2, <1>3, <1>4, <1>5, <1>6, <1>7, <1>8, <1>9, <1>10, <1>11, <1>12, <1>13, <1>14,
       <1>15, <1>16, <1>17, <1>18, <1>19, <1>20, <1>21, <1>22, <1>23
       DEF Next, GoesOn, Calls

\* closing_ lets one stop() through; the destructor runs when nothing else does.
LEMMA StoppingStep ==
  ASSUME Typed, Stopping, Stopped, [Next]_vars
  PROVE  Stopping'
  <1> USE DEF Typed, Stopping
  <1>1. ASSUME NEW a \in Actors, SubscribeEnds(a) PROVE Stopping'
    BY <1>1, Returned, AtStep
       DEF SubscribeEnds, Undo, surfaceVars, lifeVars, pathVars, historyVars, Becomes, Tears
  <1>2. ASSUME NEW a \in Actors, RawUnregister(a) PROVE Stopping'
    BY <1>2, RawUnregisterOp, AtStep
       DEF RawUnregister, surfaceVars, lifeVars, signalVars, Becomes, Tears
  <1>3. ASSUME NEW a \in Actors, AwaitIdle(a) PROVE Stopping'
    <2>1. UNCHANGED <<closing, conn, stopping>>
      BY <1>3
         DEF AwaitIdle, surfaceVars, lifeVars
    <2> QED
      BY <1>3, <2>1, AwaitIdleOp
         DEF Becomes, Stopping
  <1>4. ASSUME NEW a \in Actors, Restore(a) PROVE Stopping'
    BY <1>4, Returned, AtStep
       DEF Restore, lifeVars, signalVars, pathVars, historyVars, Becomes, Tears
  <1>5. ASSUME NEW a \in Actors, FindSignal(a) PROVE Stopping'
    BY <1>5, FindSignalOp, AtStep
       DEF FindSignal, surfaceVars, lifeVars, signalVars, pathVars, historyVars, Becomes, Tears
  <1>6. ASSUME NEW a \in Actors, ReleaseSignal(a) PROVE Stopping'
    BY <1>6, ReleaseSignalOp, AtStep
       DEF ReleaseSignal, Unsubscribable, DropSignal, surfaceVars, lifeVars, pathVars,
           historyVars, Becomes, Tears
  <1>7. ASSUME NEW a \in Actors, FindOwnPath(a) PROVE Stopping'
    BY <1>7, FindOwnPathOp, AtStep
       DEF FindOwnPath, surfaceVars, lifeVars, signalVars, pathVars, historyVars, Becomes, Tears
  <1>8. ASSUME NEW a \in Actors, ReleaseEnds(a) PROVE Stopping'
    <2>1. op[a].step = "next" /\ UNCHANGED <<closing, conn, stopping>>
      BY <1>8, AtStep
         DEF ReleaseEnds, surfaceVars, lifeVars
    <2> QED
      BY <1>8, <2>1, ReleaseEndsOp, AtStep
         DEF Becomes, Stopping
  <1>9. ASSUME NEW a \in Actors, Halt(a) PROVE Stopping'
    <2>1. op[a].kind = "stop" /\ ~stopping /\ UNCHANGED <<closing, conn>>
      BY <1>9, AtStep
         DEF Halt, surfaceVars
    <2> QED
      BY <1>9, <2>1, HaltOp
         DEF Becomes
  <1>10. ASSUME NEW a \in Actors, Join(a) PROVE Stopping'
    BY <1>10, Returned, AtStep
       DEF Join, surfaceVars, historyVars, Becomes, Tears
  <1>11. ASSUME NEW a \in Actors, a = "io", CallRefused PROVE Stopping'
    BY <1>11, Returned, AtStep
       DEF CallRefused, surfaceVars, lifeVars, signalVars, pathVars, historyVars, Becomes, Tears
  <1>12. ASSUME NEW a \in Actors, NEW s \in Subs, Subscribe(a, s) PROVE Stopping'
    <2>1. UNCHANGED <<surfaceVars, lifeVars>>
      BY <1>12
         DEF Subscribe, Accepting
    <2>2. CanCall(a)
      BY <1>12 DEF Subscribe
    <2> QED
      BY <1>12, <2>1, <2>2, SubscribeOp, CallersAreFree
         DEF Becomes, surfaceVars, lifeVars
  <1>13. ASSUME NEW a \in Actors, NEW s \in Subs, Unsubscribe(a, s) PROVE Stopping'
    BY <1>13, Returned, CallersAreFree, AtStep
       DEF Unsubscribe, Unsubscribable, DropSignal, surfaceVars, lifeVars, pathVars,
           historyVars, Becomes, Tears
  <1>14. ASSUME NEW a \in Actors, NEW p \in Paths, Register(a, p) PROVE Stopping'
    BY <1>14, Returned, CallersAreFree, AtStep
       DEF Register, Accepting, lifeVars, signalVars, historyVars, Becomes, Tears
  <1>15. ASSUME NEW a \in Actors, NEW p \in Paths, Unregister(a, p) PROVE Stopping'
    BY <1>15, UnregisterOp, CallersAreFree, AtStep
       DEF Unregister, lifeVars, signalVars, pathVars, historyVars, Becomes, Tears
  <1>16. ASSUME NEW a \in Actors, NEW c \in Clients, Release(a, c) PROVE Stopping'
    BY <1>16, ReleaseOp, CallersAreFree, AtStep
       DEF Release, lifeVars, signalVars, pathVars, historyVars, Becomes, Tears
  <1>17. ASSUME NEW a \in Actors, Stop(a) PROVE Stopping'
    BY <1>17, StopOp, CallersAreFree, AtStep
       DEF Stop, lifeVars, signalVars, pathVars, historyVars, Becomes, Tears, Stopped
  <1>18. ASSUME NEW a \in Actors, Destroy(a) PROVE Stopping'
    BY <1>18, DestroyOp, AtStep
       DEF Destroy, surfaceVars, lifeVars, signalVars, pathVars, historyVars, Becomes, Tears
  <1>19. ASSUME NEW s \in Subs, Install(s) \/ Conclude(s) \/ SignalArrives(s) \/
               RunDelivery(s) \/ StartDelivery(s)
        PROVE  Stopping'
    BY <1>19, AtStep
       DEF Install, surfaceVars, lifeVars, pathVars, historyVars, Conclude, SignalArrives,
           RunDelivery, StartDelivery, Tears
  <1>20. ASSUME NEW p \in Paths, FindPath(p) PROVE Stopping'
    BY <1>20, AtStep
       DEF FindPath, surfaceVars, lifeVars, signalVars, pathVars, historyVars, Tears
  <1>21. CASE EnterHandler \/ HandlerReturns \/ LoopEnds
    BY <1>21, AtStep
       DEF EnterHandler, surfaceVars, lifeVars, signalVars, historyVars, HandlerReturns,
           LoopEnds, pathVars, Tears
  <1>22. CASE HandlerCalls
    BY <1>22, HandlerCallsOp, AtStep
       DEF HandlerCalls, surfaceVars, lifeVars, signalVars, pathVars, historyVars, Becomes,
           Tears
  <1>23. CASE UNCHANGED vars
    BY <1>23, AtStep
       DEF vars, surfaceVars, lifeVars, signalVars, pathVars, historyVars, Tears
  <1> QED
    BY <1>1, <1>2, <1>3, <1>4, <1>5, <1>6, <1>7, <1>8, <1>9, <1>10, <1>11, <1>12, <1>13, <1>14,
       <1>15, <1>16, <1>17, <1>18, <1>19, <1>20, <1>21, <1>22, <1>23
       DEF Next, GoesOn, Calls

\* The I/O thread is taken over only by a stop and the connection is closed only after it.
LEMMA StoppedStep ==
  ASSUME Typed, Stopping, Stopped, [Next]_vars
  PROVE  Stopped'
  <1> USE DEF Typed, Stopped
  <1>0. ASSUME NEW a \in Actors, SubscribeEnds(a) PROVE Stopped'
    <2>1. op[a].id \in Subs
      BY <1>0, AtStep DEF SubscribeEnds
    <2>2. \A t \in Subs : cmd'[t] \in {"none", cmd[t]}
      BY <1>0, <2>1 DEF SubscribeEnds, Discards, TypeOK
    <2>3. signals' \subseteq signals /\ UNCHANGED <<surfaceVars, lifeVars, pathVars>>
      BY <1>0 DEF SubscribeEnds, Undo
    <2> QED
      BY <2>2, <2>3 DEF surfaceVars, lifeVars, pathVars
  <1>1. ASSUME NEW a \in Actors, RawUnregister(a) \/ AwaitIdle(a) \/ Restore(a) \/
               FindSignal(a) \/ ReleaseSignal(a) \/ FindOwnPath(a) \/ ReleaseEnds(a)
        PROVE  Stopped'
    BY <1>1, Sets
       DEF surfaceVars, lifeVars, pathVars, historyVars, RawUnregister,
           signalVars, AwaitIdle, Restore, FindSignal, ReleaseSignal, Unsubscribable,
           DropSignal, FindOwnPath, ReleaseEnds
  <1>2. ASSUME NEW a \in Actors, Halt(a) PROVE Stopped'
    BY <1>2, Sets, AtStep
       DEF Halt, surfaceVars, signalVars, pathVars, historyVars, Stopping
  <1>3. ASSUME NEW a \in Actors, Join(a) PROVE Stopped'
    BY <1>3, Sets, AtStep
       DEF Join, surfaceVars, historyVars, Stopping
  <1>4. ASSUME NEW a \in Actors, a = "io", CallRefused PROVE Stopped'
    BY <1>4, Sets
       DEF CallRefused, surfaceVars, lifeVars, signalVars, pathVars, historyVars
  <1>5. ASSUME NEW a \in Actors, NEW s \in Subs, Subscribe(a, s) \/ Unsubscribe(a, s)
        PROVE  Stopped'
    BY <1>5, Sets
       DEF Subscribe, Accepting, surfaceVars, lifeVars, pathVars, historyVars, Unsubscribe,
           Unsubscribable, DropSignal
  <1>6. ASSUME NEW a \in Actors, NEW p \in Paths, Register(a, p) \/ Unregister(a, p)
        PROVE  Stopped'
    BY <1>6, Sets
       DEF Register, Accepting, lifeVars, signalVars, historyVars, Unregister, pathVars
  <1>7. ASSUME NEW a \in Actors, NEW c \in Clients, Release(a, c) PROVE Stopped'
    BY <1>7, Sets
       DEF Release, lifeVars, signalVars, pathVars, historyVars
  <1>8. ASSUME NEW a \in Actors, Stop(a) \/ Destroy(a) PROVE Stopped'
    BY <1>8, Sets
       DEF Stop, lifeVars, signalVars, pathVars, historyVars, Destroy, surfaceVars
  <1>9. ASSUME NEW s \in Subs, Install(s) \/ Conclude(s) \/ SignalArrives(s) \/
               RunDelivery(s) \/ StartDelivery(s)
        PROVE  Stopped'
    BY <1>9, Sets
       DEF Install, surfaceVars, lifeVars, pathVars, historyVars, Conclude, SignalArrives,
           RunDelivery, StartDelivery
  <1>10. ASSUME NEW p \in Paths, FindPath(p) PROVE Stopped'
    BY <1>10, Sets
       DEF FindPath, surfaceVars, lifeVars, signalVars, pathVars, historyVars
  <1>11. CASE EnterHandler \/ HandlerCalls \/ HandlerReturns \/ LoopEnds
    BY <1>11, Sets
       DEF EnterHandler, surfaceVars, lifeVars, signalVars, historyVars, HandlerCalls, pathVars,
           HandlerReturns, LoopEnds
  <1>12. CASE UNCHANGED vars
    BY <1>12, Sets
       DEF vars, surfaceVars, lifeVars, signalVars, pathVars, historyVars
  <1> QED
    BY <1>0, <1>1, <1>2, <1>3, <1>4, <1>5, <1>6, <1>7, <1>8, <1>9, <1>10, <1>11, <1>12
       DEF Next, GoesOn, Calls
-----------------------------------------------------------------------------
(***************************************************************************)
(* Ids.                                                                     *)
(***************************************************************************)
\* An id is given out once.
GivenOut ==
    /\ signals \cup active \cup rules \cup cancelled \subseteq used
    /\ paths \cup live \cup table \cup silenced \subseteq used
    /\ \A s \in Subs : cmd[s] # "none" => s \in used

InHand == \A a \in Actors : op[a].id # Nobody => op[a].id \in used

Given == GivenOut /\ InHand

\* Whatever a table, a command or a history knows has been given out.
LEMMA GivenOutStep ==
  ASSUME Typed, Given, [Next]_vars
  PROVE  GivenOut'
  <1> USE DEF Typed, Given
  <1>1. ASSUME NEW a \in Actors, SubscribeEnds(a) PROVE GivenOut'
    <2>1. op[a].id \in used
      BY <1>1, AtStep
         DEF SubscribeEnds, InHand, Nobody
    <2> QED
      BY <1>1, <2>1
         DEF SubscribeEnds, Undo, Discards, TypeOK, surfaceVars, lifeVars, pathVars, GivenOut
  <1>2. ASSUME NEW a \in Actors, RawUnregister(a) \/ FindSignal(a) \/ ReleaseSignal(a) \/
               FindOwnPath(a) \/ ReleaseEnds(a) \/ Halt(a) \/ Join(a)
        PROVE  GivenOut'
    BY <1>2
       DEF RawUnregister, surfaceVars, lifeVars, signalVars, FindSignal, pathVars, historyVars,
           ReleaseSignal, Unsubscribable, DropSignal, FindOwnPath, ReleaseEnds, Halt, Join,
           Owned, GivenOut
  <1>3. ASSUME NEW a \in Actors, AwaitIdle(a) PROVE GivenOut'
    <2>1. op[a].id \in used
      BY <1>3, AtStep
         DEF AwaitIdle, InHand, Nobody
    <2> QED
      BY <1>3, <2>1
         DEF AwaitIdle, surfaceVars, lifeVars, signalVars, pathVars, GivenOut
  <1>4. ASSUME NEW a \in Actors, Restore(a) PROVE GivenOut'
    <2>1. op[a].id \in used
      BY <1>4, AtStep
         DEF Restore, InHand, Nobody
    <2> QED
      BY <1>4, <2>1
         DEF Restore, lifeVars, signalVars, pathVars, historyVars, GivenOut
  <1>5. ASSUME NEW a \in Actors, a = "io", CallRefused PROVE GivenOut'
    BY <1>5
       DEF CallRefused, surfaceVars, lifeVars, signalVars, pathVars, historyVars, Owned,
           GivenOut
  <1>6. ASSUME NEW a \in Actors, NEW s \in Subs, Subscribe(a, s) PROVE GivenOut'
    BY <1>6
       DEF Subscribe, Accepting, surfaceVars, lifeVars, pathVars, historyVars, Owned, GivenOut,
           TypeOK
  <1>7. ASSUME NEW a \in Actors, NEW s \in Subs, Unsubscribe(a, s) PROVE GivenOut'
    BY <1>7
       DEF Unsubscribe, Unsubscribable, DropSignal, surfaceVars, lifeVars, pathVars,
           historyVars, Owned, GivenOut
  <1>8. ASSUME NEW a \in Actors, NEW p \in Paths, Register(a, p) \/ Unregister(a, p)
        PROVE  GivenOut'
    BY <1>8
       DEF Register, Accepting, lifeVars, signalVars, historyVars, Unregister, pathVars, Owned,
           GivenOut
  <1>9. ASSUME NEW a \in Actors, NEW c \in Clients, Release(a, c) PROVE GivenOut'
    BY <1>9
       DEF Release, lifeVars, signalVars, pathVars, historyVars, Owned, GivenOut
  <1>10. ASSUME NEW a \in Actors, Stop(a) \/ Destroy(a) PROVE GivenOut'
    BY <1>10
       DEF Stop, lifeVars, signalVars, pathVars, historyVars, Destroy, surfaceVars, Owned,
           GivenOut
  <1>11. ASSUME NEW s \in Subs, Install(s) PROVE GivenOut'
    BY <1>11
       DEF Install, surfaceVars, lifeVars, pathVars, historyVars, Owned, GivenOut, TypeOK
  <1>12. ASSUME NEW s \in Subs, Conclude(s) PROVE GivenOut'
    BY <1>12
       DEF Conclude, surfaceVars, lifeVars, pathVars, historyVars, Owned, GivenOut, TypeOK
  <1>13. ASSUME NEW s \in Subs, SignalArrives(s) \/ RunDelivery(s) \/ StartDelivery(s)
        PROVE  GivenOut'
    BY <1>13
       DEF SignalArrives, surfaceVars, lifeVars, pathVars, historyVars, RunDelivery, StartDelivery,
           Owned, GivenOut
  <1>14. ASSUME NEW p \in Paths, FindPath(p) PROVE GivenOut'
    BY <1>14
       DEF FindPath, surfaceVars, lifeVars, signalVars, pathVars, historyVars, Owned, GivenOut
  <1>15. CASE EnterHandler \/ HandlerCalls \/ HandlerReturns \/ LoopEnds
    BY <1>15
       DEF EnterHandler, surfaceVars, lifeVars, signalVars, historyVars, HandlerCalls, pathVars,
           HandlerReturns, LoopEnds, Owned, GivenOut
  <1>16. CASE UNCHANGED vars
    BY <1>16
       DEF vars, surfaceVars, lifeVars, signalVars, pathVars, historyVars, Owned, GivenOut
  <1> QED
    BY <1>1, <1>2, <1>3, <1>4, <1>5, <1>6, <1>7, <1>8, <1>9, <1>10, <1>11, <1>12, <1>13, <1>14,
       <1>15, <1>16
       DEF Next, GoesOn, Calls

\* Whatever an operation has in hand has been given out.
LEMMA InHandStep ==
  ASSUME Typed, Given, [Next]_vars
  PROVE  InHand'
  <1> USE DEF Typed, Given, InHand
  <1>1. ASSUME NEW a \in Actors, SubscribeEnds(a) PROVE InHand'
    BY <1>1, Returned
       DEF SubscribeEnds, Becomes, Owned
  <1>2. ASSUME NEW a \in Actors, RawUnregister(a) PROVE InHand'
    BY <1>2, RawUnregisterOp
       DEF RawUnregister, Becomes, Owned
  <1>3. ASSUME NEW a \in Actors, AwaitIdle(a) PROVE InHand'
    BY <1>3, AwaitIdleOp
       DEF AwaitIdle, Becomes, Owned
  <1>4. ASSUME NEW a \in Actors, Restore(a) PROVE InHand'
    BY <1>4, Returned
       DEF Restore, Becomes, Owned
  <1>5. ASSUME NEW a \in Actors, FindSignal(a) PROVE InHand'
    BY <1>5, FindSignalOp
       DEF FindSignal, Becomes, Owned, GivenOut
  <1>6. ASSUME NEW a \in Actors, ReleaseSignal(a) PROVE InHand'
    BY <1>6, ReleaseSignalOp
       DEF ReleaseSignal, Becomes, Owned
  <1>7. ASSUME NEW a \in Actors, FindOwnPath(a) PROVE InHand'
    BY <1>7, FindOwnPathOp
       DEF FindOwnPath, Becomes, Owned, GivenOut
  <1>8. ASSUME NEW a \in Actors, ReleaseEnds(a) PROVE InHand'
    BY <1>8, ReleaseEndsOp
       DEF ReleaseEnds, Becomes, Owned
  <1>9. ASSUME NEW a \in Actors, Halt(a) PROVE InHand'
    BY <1>9, HaltOp
       DEF Halt, Becomes, Owned
  <1>10. ASSUME NEW a \in Actors, Join(a) PROVE InHand'
    BY <1>10, Returned
       DEF Join, Becomes, Owned
  <1>11. ASSUME NEW a \in Actors, a = "io", CallRefused PROVE InHand'
    BY <1>11, Returned
       DEF CallRefused, Becomes, Owned
  <1>12. ASSUME NEW a \in Actors, NEW s \in Subs, Subscribe(a, s) PROVE InHand'
    BY <1>12, SubscribeOp, CallersAreFree
       DEF Subscribe, Becomes, Owned
  <1>13. ASSUME NEW a \in Actors, NEW s \in Subs, Unsubscribe(a, s) PROVE InHand'
    BY <1>13, Returned, CallersAreFree
       DEF Unsubscribe, Becomes, Owned
  <1>14. ASSUME NEW a \in Actors, NEW p \in Paths, Register(a, p) PROVE InHand'
    BY <1>14, Returned, CallersAreFree
       DEF Register, Becomes, Owned
  <1>15. ASSUME NEW a \in Actors, NEW p \in Paths, Unregister(a, p) PROVE InHand'
    BY <1>15, UnregisterOp, CallersAreFree
       DEF Unregister, Becomes, Owned, GivenOut
  <1>16. ASSUME NEW a \in Actors, NEW c \in Clients, Release(a, c) PROVE InHand'
    BY <1>16, ReleaseOp, CallersAreFree
       DEF Release, Becomes, Owned
  <1>17. ASSUME NEW a \in Actors, Stop(a) PROVE InHand'
    BY <1>17, StopOp, CallersAreFree
       DEF Stop, Becomes, Owned
  <1>18. ASSUME NEW a \in Actors, Destroy(a) PROVE InHand'
    BY <1>18, DestroyOp
       DEF Destroy, Becomes, Owned
  <1>19. ASSUME NEW s \in Subs, Install(s) \/ Conclude(s) \/ SignalArrives(s) \/
               RunDelivery(s) \/ StartDelivery(s)
        PROVE  InHand'
    BY <1>19
       DEF Install, Conclude, SignalArrives, RunDelivery, StartDelivery, Owned
  <1>20. ASSUME NEW p \in Paths, FindPath(p) PROVE InHand'
    BY <1>20
       DEF FindPath, Owned
  <1>21. CASE EnterHandler \/ HandlerReturns \/ LoopEnds
    BY <1>21
       DEF EnterHandler, HandlerReturns, LoopEnds, Owned
  <1>22. CASE HandlerCalls
    BY <1>22, HandlerCallsOp
       DEF HandlerCalls, Becomes, Owned
  <1>23. CASE UNCHANGED vars
    BY <1>23
       DEF vars, Owned
  <1> QED
    BY <1>1, <1>2, <1>3, <1>4, <1>5, <1>6, <1>7, <1>8, <1>9, <1>10, <1>11, <1>12, <1>13, <1>14,
       <1>15, <1>16, <1>17, <1>18, <1>19, <1>20, <1>21, <1>22, <1>23
       DEF Next, GoesOn, Calls
-----------------------------------------------------------------------------
(***************************************************************************)
(* Handlers of paths that are gone.                                         *)
(***************************************************************************)
\* A path that was waited for is not entered any more.
Silenced ==
    /\ live \subseteq paths
    /\ silenced \cap paths = {}
    /\ silenced \cap inFlight = {}

\* Who waits for a path has made it unreachable.
AwaitsGone == \A a \in Actors : op[a].step = "idle" => op[a].id \notin paths

\* A path is silent once its record is gone and its handler has returned: only active entries
\* are entered, and ids are not given out twice.
LEMMA SilencedStep ==
  ASSUME Typed, Given, Silenced, AwaitsGone, [Next]_vars
  PROVE  Silenced'
  <1> USE DEF Typed, Given, Silenced, AwaitsGone
  <1>1. ASSUME NEW a \in Actors, SubscribeEnds(a) \/ RawUnregister(a) \/ AwaitIdle(a) \/
               Restore(a) \/ FindSignal(a) \/ ReleaseSignal(a) \/ FindOwnPath(a) \/
               ReleaseEnds(a) \/ Halt(a) \/ Join(a)
        PROVE  Silenced'
    BY <1>1, Sets
       DEF SubscribeEnds, Undo, surfaceVars, lifeVars, pathVars, historyVars, RawUnregister,
           signalVars, AwaitIdle, Restore, FindSignal, ReleaseSignal, Unsubscribable,
           DropSignal, FindOwnPath, ReleaseEnds, Halt, Join, Owned
  <1>2. ASSUME NEW a \in Actors, a = "io", CallRefused PROVE Silenced'
    BY <1>2, Sets
       DEF CallRefused, surfaceVars, lifeVars, signalVars, pathVars, historyVars, Owned
  <1>3. ASSUME NEW a \in Actors, NEW s \in Subs, Subscribe(a, s) \/ Unsubscribe(a, s)
        PROVE  Silenced'
    BY <1>3, Sets
       DEF Subscribe, Accepting, surfaceVars, lifeVars, pathVars, historyVars, Unsubscribe,
           Unsubscribable, DropSignal, Owned
  <1>4. ASSUME NEW a \in Actors, NEW p \in Paths, Register(a, p) PROVE Silenced'
    BY <1>4, Sets
       DEF Register, Accepting, lifeVars, signalVars, historyVars, Owned, GivenOut
  <1>5. ASSUME NEW a \in Actors, NEW p \in Paths, Unregister(a, p) PROVE Silenced'
    BY <1>5, Sets
       DEF Unregister, lifeVars, signalVars, pathVars, historyVars, Owned
  <1>6. ASSUME NEW a \in Actors, NEW c \in Clients, Release(a, c) PROVE Silenced'
    BY <1>6, Sets
       DEF Release, lifeVars, signalVars, pathVars, historyVars, Owned
  <1>7. ASSUME NEW a \in Actors, Stop(a) \/ Destroy(a) PROVE Silenced'
    BY <1>7, Sets
       DEF Stop, lifeVars, signalVars, pathVars, historyVars, Destroy, surfaceVars, Owned
  <1>8. ASSUME NEW s \in Subs, Install(s) \/ Conclude(s) \/ SignalArrives(s) \/
               RunDelivery(s) \/ StartDelivery(s)
        PROVE  Silenced'
    BY <1>8, Sets
       DEF Install, surfaceVars, lifeVars, pathVars, historyVars, Conclude, SignalArrives,
           RunDelivery, StartDelivery, Owned
  <1>9. ASSUME NEW p \in Paths, FindPath(p) PROVE Silenced'
    BY <1>9, Sets
       DEF FindPath, surfaceVars, lifeVars, signalVars, pathVars, historyVars, Owned
  <1>10. CASE EnterHandler \/ HandlerCalls \/ HandlerReturns \/ LoopEnds
    BY <1>10, Sets
       DEF EnterHandler, surfaceVars, lifeVars, signalVars, historyVars, HandlerCalls, pathVars,
           HandlerReturns, LoopEnds, Owned
  <1>11. CASE UNCHANGED vars
    BY <1>11, Sets
       DEF vars, surfaceVars, lifeVars, signalVars, pathVars, historyVars, Owned
  <1> QED
    BY <1>1, <1>2, <1>3, <1>4, <1>5, <1>6, <1>7, <1>8, <1>9, <1>10, <1>11
       DEF Next, GoesOn, Calls

\* Whoever waits for the handler of a path has erased it, and nobody brings it back.
LEMMA AwaitsGoneStep ==
  ASSUME Typed, Given, AwaitsGone, [Next]_vars
  PROVE  AwaitsGone'
  <1> USE DEF Typed, Given, Silenced, AwaitsGone
  <1>1. ASSUME NEW a \in Actors, SubscribeEnds(a) PROVE AwaitsGone'
    BY <1>1, Returned, AtStep
       DEF SubscribeEnds, Undo, surfaceVars, lifeVars, pathVars, historyVars, Becomes, Owned
  <1>2. ASSUME NEW a \in Actors, RawUnregister(a) PROVE AwaitsGone'
    BY <1>2, RawUnregisterOp, AtStep
       DEF RawUnregister, surfaceVars, lifeVars, signalVars, Becomes, Owned
  <1>3. ASSUME NEW a \in Actors, AwaitIdle(a) PROVE AwaitsGone'
    BY <1>3, AwaitIdleOp, AtStep
       DEF AwaitIdle, surfaceVars, lifeVars, signalVars, pathVars, Becomes, Owned
  <1>4. ASSUME NEW a \in Actors, Restore(a) PROVE AwaitsGone'
    BY <1>4, Returned, AtStep
       DEF Restore, lifeVars, signalVars, pathVars, historyVars, Becomes, Owned
  <1>5. ASSUME NEW a \in Actors, FindSignal(a) PROVE AwaitsGone'
    BY <1>5, FindSignalOp, AtStep
       DEF FindSignal, surfaceVars, lifeVars, signalVars, pathVars, historyVars, Becomes, Owned
  <1>6. ASSUME NEW a \in Actors, ReleaseSignal(a) PROVE AwaitsGone'
    BY <1>6, ReleaseSignalOp, AtStep
       DEF ReleaseSignal, Unsubscribable, DropSignal, surfaceVars, lifeVars, pathVars,
           historyVars, Becomes, Owned
  <1>7. ASSUME NEW a \in Actors, FindOwnPath(a) PROVE AwaitsGone'
    BY <1>7, FindOwnPathOp, AtStep
       DEF FindOwnPath, surfaceVars, lifeVars, signalVars, pathVars, historyVars, Becomes, Owned
  <1>8. ASSUME NEW a \in Actors, ReleaseEnds(a) PROVE AwaitsGone'
    <2>1. UNCHANGED paths
      BY <1>8 DEF ReleaseEnds, pathVars
    <2> QED
      BY <1>8, <2>1, ReleaseEndsOp DEF Becomes, AwaitsGone
  <1>9. ASSUME NEW a \in Actors, Halt(a) PROVE AwaitsGone'
    <2>1. paths' = paths
      BY <1>9
         DEF Halt, pathVars
    <2> QED
      BY <1>9, <2>1, HaltOp
         DEF Becomes
  <1>10. ASSUME NEW a \in Actors, Join(a) PROVE AwaitsGone'
    BY <1>10, Returned, AtStep
       DEF Join, surfaceVars, historyVars, Becomes, Owned
  <1>11. ASSUME NEW a \in Actors, a = "io", CallRefused PROVE AwaitsGone'
    BY <1>11, Returned, AtStep
       DEF CallRefused, surfaceVars, lifeVars, signalVars, pathVars, historyVars, Becomes, Owned
  <1>12. ASSUME NEW a \in Actors, NEW s \in Subs, Subscribe(a, s) PROVE AwaitsGone'
    <2>1. paths' = paths
      BY <1>12
         DEF Subscribe, Accepting, pathVars
    <2>2. CanCall(a)
      BY <1>12 DEF Subscribe
    <2> QED
      BY <1>12, <2>1, <2>2, SubscribeOp, CallersAreFree
         DEF Becomes
  <1>13. ASSUME NEW a \in Actors, NEW s \in Subs, Unsubscribe(a, s) PROVE AwaitsGone'
    BY <1>13, Returned, CallersAreFree, AtStep
       DEF Unsubscribe, Unsubscribable, DropSignal, surfaceVars, lifeVars, pathVars,
           historyVars, Becomes, Owned
  <1>14. ASSUME NEW a \in Actors, NEW p \in Paths, Register(a, p) PROVE AwaitsGone'
    <2>1. p \notin used /\ paths' = paths \cup {p} /\ Returns(a)
      BY <1>14
         DEF Register, Accepting
    <2>2. CanCall(a)
      BY <1>14 DEF Register
    <2> QED
      BY <1>14, <2>1, <2>2, Returned, CallersAreFree
         DEF Becomes, InHand, GivenOut, Nobody
  <1>15. ASSUME NEW a \in Actors, NEW p \in Paths, Unregister(a, p) PROVE AwaitsGone'
    BY <1>15, UnregisterOp, CallersAreFree, AtStep
       DEF Unregister, lifeVars, signalVars, pathVars, historyVars, Becomes, Owned
  <1>16. ASSUME NEW a \in Actors, NEW c \in Clients, Release(a, c) PROVE AwaitsGone'
    BY <1>16, ReleaseOp, CallersAreFree, AtStep
       DEF Release, lifeVars, signalVars, pathVars, historyVars, Becomes, Owned
  <1>17. ASSUME NEW a \in Actors, Stop(a) PROVE AwaitsGone'
    BY <1>17, StopOp, CallersAreFree, AtStep
       DEF Stop, lifeVars, signalVars, pathVars, historyVars, Becomes, Owned
  <1>18. ASSUME NEW a \in Actors, Destroy(a) PROVE AwaitsGone'
    BY <1>18, DestroyOp, AtStep
       DEF Destroy, surfaceVars, lifeVars, signalVars, pathVars, historyVars, Becomes, Owned
  <1>19. ASSUME NEW s \in Subs, Install(s) \/ Conclude(s) \/ SignalArrives(s) \/
               RunDelivery(s) \/ StartDelivery(s)
        PROVE  AwaitsGone'
    BY <1>19, AtStep
       DEF Install, surfaceVars, lifeVars, pathVars, historyVars, Conclude, SignalArrives,
           RunDelivery, StartDelivery, Owned
  <1>20. ASSUME NEW p \in Paths, FindPath(p) PROVE AwaitsGone'
    BY <1>20, AtStep
       DEF FindPath, surfaceVars, lifeVars, signalVars, pathVars, historyVars, Owned
  <1>21. CASE EnterHandler \/ HandlerReturns \/ LoopEnds
    BY <1>21, AtStep
       DEF EnterHandler, surfaceVars, lifeVars, signalVars, historyVars, HandlerReturns,
           LoopEnds, pathVars, Owned
  <1>22. CASE HandlerCalls
    BY <1>22, HandlerCallsOp, AtStep
       DEF HandlerCalls, surfaceVars, lifeVars, signalVars, pathVars, historyVars, Becomes,
           Owned
  <1>23. CASE UNCHANGED vars
    BY <1>23, AtStep
       DEF vars, surfaceVars, lifeVars, signalVars, pathVars, historyVars, Owned
  <1> QED
    BY <1>1, <1>2, <1>3, <1>4, <1>5, <1>6, <1>7, <1>8, <1>9, <1>10, <1>11, <1>12, <1>13, <1>14,
       <1>15, <1>16, <1>17, <1>18, <1>19, <1>20, <1>21, <1>22, <1>23
       DEF Next, GoesOn, Calls
-----------------------------------------------------------------------------
(***************************************************************************)
(* Quotas.                                                                  *)
(***************************************************************************)
\* Every registration takes a slot and every removal gives it back, failures included.
LEMMA QuotasStep ==
  ASSUME Typed, QuotasAgree, [Next]_vars
  PROVE  QuotasAgree'
  <1> USE DEF Typed, QuotasAgree
  <1>1. ASSUME NEW a \in Actors, SubscribeEnds(a) PROVE QuotasAgree'
    BY <1>1, Sets, AtStep
       DEF SubscribeEnds, Undo, surfaceVars, lifeVars, pathVars, historyVars
  <1>2. ASSUME NEW a \in Actors, RawUnregister(a) PROVE QuotasAgree'
    BY <1>2, Sets, AtStep
       DEF RawUnregister, surfaceVars, lifeVars, signalVars
  <1>3. ASSUME NEW a \in Actors, AwaitIdle(a) \/ Restore(a) \/ FindSignal(a) \/
               FindOwnPath(a) \/ ReleaseEnds(a) \/ Halt(a) \/ Join(a)
        PROVE  QuotasAgree'
    BY <1>3, Sets
       DEF AwaitIdle, surfaceVars, lifeVars, signalVars, pathVars, Restore, historyVars,
           FindSignal, FindOwnPath, ReleaseEnds, Halt, Join
  <1>4. ASSUME NEW a \in Actors, ReleaseSignal(a) PROVE QuotasAgree'
    BY <1>4, Sets, AtStep
       DEF ReleaseSignal, Unsubscribable, DropSignal, surfaceVars, lifeVars, pathVars,
           historyVars
  <1>5. ASSUME NEW a \in Actors, a = "io", CallRefused PROVE QuotasAgree'
    BY <1>5, Sets
       DEF CallRefused, surfaceVars, lifeVars, signalVars, pathVars, historyVars
  <1>6. ASSUME NEW a \in Actors, NEW s \in Subs, Subscribe(a, s) \/ Unsubscribe(a, s)
        PROVE  QuotasAgree'
    BY <1>6, Sets
       DEF Subscribe, Accepting, surfaceVars, lifeVars, pathVars, historyVars, Unsubscribe,
           Unsubscribable, DropSignal
  <1>7. ASSUME NEW a \in Actors, NEW p \in Paths, Register(a, p) \/ Unregister(a, p)
        PROVE  QuotasAgree'
    BY <1>7, Sets
       DEF Register, Accepting, lifeVars, signalVars, historyVars, Unregister, pathVars
  <1>8. ASSUME NEW a \in Actors, NEW c \in Clients, Release(a, c) PROVE QuotasAgree'
    BY <1>8, Sets
       DEF Release, lifeVars, signalVars, pathVars, historyVars
  <1>9. ASSUME NEW a \in Actors, Stop(a) \/ Destroy(a) PROVE QuotasAgree'
    BY <1>9, Sets
       DEF Stop, lifeVars, signalVars, pathVars, historyVars, Destroy, surfaceVars
  <1>10. ASSUME NEW s \in Subs, Install(s) \/ Conclude(s) \/ SignalArrives(s) \/
               RunDelivery(s) \/ StartDelivery(s)
        PROVE  QuotasAgree'
    BY <1>10, Sets
       DEF Install, surfaceVars, lifeVars, pathVars, historyVars, Conclude, SignalArrives,
           RunDelivery, StartDelivery
  <1>11. ASSUME NEW p \in Paths, FindPath(p) PROVE QuotasAgree'
    BY <1>11, Sets
       DEF FindPath, surfaceVars, lifeVars, signalVars, pathVars, historyVars
  <1>12. CASE EnterHandler \/ HandlerCalls \/ HandlerReturns \/ LoopEnds
    BY <1>12, Sets
       DEF EnterHandler, surfaceVars, lifeVars, signalVars, historyVars, HandlerCalls, pathVars,
           HandlerReturns, LoopEnds
  <1>13. CASE UNCHANGED vars
    BY <1>13, Sets
       DEF vars, surfaceVars, lifeVars, signalVars, pathVars, historyVars
  <1> QED
    BY <1>1, <1>2, <1>3, <1>4, <1>5, <1>6, <1>7, <1>8, <1>9, <1>10, <1>11, <1>12, <1>13
       DEF Next, GoesOn, Calls
-----------------------------------------------------------------------------
(***************************************************************************)
(* Subscriptions.                                                           *)
(***************************************************************************)
Subscribing(t) == \E a \in Actors : op[a].kind = "subscribe" /\ op[a].id = t

\* How far a subscription has come: it is active only with a rule; a rule without
\* a subscription exists only while the setup is being concluded; a setup that
\* goes on is waited for, by somebody who has the subscription, or was given up,
\* and one that is ready is waited for and active.
SetupOf(t) ==
    /\ t \in active => t \in rules
    /\ t \in rules => t \in signals \/ cmd[t] = "installed"
    /\ t \in cancelled => t \notin signals
    /\ cmd[t] \in {"queued", "failed", "refused"} => t \notin rules
    /\ cmd[t] \in {"queued", "installed", "failed", "refused"} => t \notin active
    /\ cmd[t] = "installed" /\ t \notin cancelled => t \in rules
    /\ cmd[t] \in {"queued", "installed", "failed"} /\ t \notin cancelled => Subscribing(t)
    /\ cmd[t] = "ready" => t \in active /\ Subscribing(t)
    /\ Subscribing(t) => t \in signals /\ cmd[t] # "none"
    /\ t \in signals => t \in active \/ Subscribing(t)

Setup == (\A t \in Subs : SetupOf(t)) /\ filter = (signals # {})

\* The setup of t is where it was.
Untouched(t) ==
    /\ t \in active' <=> t \in active
    /\ t \in rules' <=> t \in rules
    /\ t \in signals' <=> t \in signals
    /\ t \in cancelled' <=> t \in cancelled
    /\ cmd'[t] = cmd[t]
    /\ Subscribing(t)' <=> Subscribing(t)

\* A setup that is not touched stays what it was.
LEMMA UntouchedSetup ==
  ASSUME NEW t \in Subs, SetupOf(t), Untouched(t)
  PROVE  SetupOf(t)'
  BY DEF SetupOf, Untouched

\* The actions that touch a subscription, or who waits for one.
Touches ==
    \/ \E a \in Actors : \/ SubscribeEnds(a) \/ ReleaseSignal(a) \/ Join(a)
                         \/ \E s \in Subs : Subscribe(a, s) \/ Unsubscribe(a, s)
    \/ \E s \in Subs : Install(s) \/ Conclude(s)
    \/ LoopEnds

\* Which operations wait is nobody else's business.
LEMMA WaitersStay ==
  ASSUME Typed, [Next]_vars, ~Touches
  PROVE  (\A t \in Subs : Untouched(t)) /\ UNCHANGED <<signals, filter>>
  <1> USE DEF Typed, Subscribing
  <1>1. ASSUME NEW a \in Actors, SubscribeEnds(a)
        PROVE  (\A t \in Subs : Untouched(t)) /\ UNCHANGED <<signals, filter>>
    BY <1>1 DEF Touches
  <1>2. ASSUME NEW a \in Actors, RawUnregister(a)
        PROVE  (\A t \in Subs : Untouched(t)) /\ UNCHANGED <<signals, filter>>
    BY <1>2, RawUnregisterOp, AtStep
       DEF RawUnregister, surfaceVars, lifeVars, signalVars, Becomes, Tears, Untouched
  <1>3. ASSUME NEW a \in Actors, AwaitIdle(a)
        PROVE  (\A t \in Subs : Untouched(t)) /\ UNCHANGED <<signals, filter>>
    <2>1. op[a].kind # "subscribe" /\ UNCHANGED signalVars
      BY <1>3, AtStep
         DEF AwaitIdle
    <2> QED
      BY <1>3, <2>1, AwaitIdleOp, AtStep
         DEF Becomes, Subscribing, signalVars, Untouched
  <1>4. ASSUME NEW a \in Actors, Restore(a)
        PROVE  (\A t \in Subs : Untouched(t)) /\ UNCHANGED <<signals, filter>>
    BY <1>4, Returned, AtStep
       DEF Restore, lifeVars, signalVars, pathVars, historyVars, Becomes, Tears, Untouched
  <1>5. ASSUME NEW a \in Actors, FindSignal(a)
        PROVE  (\A t \in Subs : Untouched(t)) /\ UNCHANGED <<signals, filter>>
    BY <1>5, FindSignalOp, AtStep
       DEF FindSignal, surfaceVars, lifeVars, signalVars, pathVars, historyVars, Becomes, Tears,
           Untouched
  <1>6. ASSUME NEW a \in Actors, ReleaseSignal(a)
        PROVE  (\A t \in Subs : Untouched(t)) /\ UNCHANGED <<signals, filter>>
    BY <1>6 DEF Touches
  <1>7. ASSUME NEW a \in Actors, FindOwnPath(a)
        PROVE  (\A t \in Subs : Untouched(t)) /\ UNCHANGED <<signals, filter>>
    BY <1>7, FindOwnPathOp, AtStep
       DEF FindOwnPath, surfaceVars, lifeVars, signalVars, pathVars, historyVars, Becomes,
           Tears, Untouched
  <1>8. ASSUME NEW a \in Actors, ReleaseEnds(a)
        PROVE  (\A t \in Subs : Untouched(t)) /\ UNCHANGED <<signals, filter>>
    <2>1. op[a].kind # "subscribe" /\ UNCHANGED signalVars
      BY <1>8, AtStep
         DEF ReleaseEnds, Tears
    <2> QED
      BY <1>8, <2>1, ReleaseEndsOp
         DEF Becomes, Subscribing, signalVars, Untouched
  <1>9. ASSUME NEW a \in Actors, Halt(a)
        PROVE  (\A t \in Subs : Untouched(t)) /\ UNCHANGED <<signals, filter>>
    <2>1. op[a].kind = "stop" /\ UNCHANGED signalVars
      BY <1>9, AtStep
         DEF Halt
    <2> QED
      BY <1>9, <2>1, HaltOp
         DEF Becomes, Subscribing, signalVars, Untouched
  <1>10. ASSUME NEW a \in Actors, Join(a)
        PROVE  (\A t \in Subs : Untouched(t)) /\ UNCHANGED <<signals, filter>>
    BY <1>10 DEF Touches
  <1>11. ASSUME NEW a \in Actors, a = "io", CallRefused
        PROVE  (\A t \in Subs : Untouched(t)) /\ UNCHANGED <<signals, filter>>
    <2>1. op[a].kind = "call" /\ UNCHANGED signalVars /\ Returns("io")
      BY <1>11
         DEF CallRefused
    <2> QED
      BY <1>11, <2>1, Returned
         DEF Becomes, Subscribing, signalVars, Untouched
  <1>12. ASSUME NEW a \in Actors, NEW s \in Subs, Subscribe(a, s)
        PROVE  (\A t \in Subs : Untouched(t)) /\ UNCHANGED <<signals, filter>>
    BY <1>12 DEF Touches
  <1>13. ASSUME NEW a \in Actors, NEW s \in Subs, Unsubscribe(a, s)
        PROVE  (\A t \in Subs : Untouched(t)) /\ UNCHANGED <<signals, filter>>
    BY <1>13 DEF Touches
  <1>14. ASSUME NEW a \in Actors, NEW p \in Paths, Register(a, p)
        PROVE  (\A t \in Subs : Untouched(t)) /\ UNCHANGED <<signals, filter>>
    BY <1>14, Returned, CallersAreFree, AtStep
       DEF Register, Accepting, lifeVars, signalVars, historyVars, Becomes, Tears, Untouched
  <1>15. ASSUME NEW a \in Actors, NEW p \in Paths, Unregister(a, p)
        PROVE  (\A t \in Subs : Untouched(t)) /\ UNCHANGED <<signals, filter>>
    BY <1>15, UnregisterOp, CallersAreFree, AtStep
       DEF Unregister, lifeVars, signalVars, pathVars, historyVars, Becomes, Tears, Untouched
  <1>16. ASSUME NEW a \in Actors, NEW c \in Clients, Release(a, c)
        PROVE  (\A t \in Subs : Untouched(t)) /\ UNCHANGED <<signals, filter>>
    BY <1>16, ReleaseOp, CallersAreFree, AtStep
       DEF Release, lifeVars, signalVars, pathVars, historyVars, Becomes, Tears, Untouched
  <1>17. ASSUME NEW a \in Actors, Stop(a)
        PROVE  (\A t \in Subs : Untouched(t)) /\ UNCHANGED <<signals, filter>>
    BY <1>17, StopOp, CallersAreFree, AtStep
       DEF Stop, lifeVars, signalVars, pathVars, historyVars, Becomes, Tears, Untouched
  <1>18. ASSUME NEW a \in Actors, Destroy(a)
        PROVE  (\A t \in Subs : Untouched(t)) /\ UNCHANGED <<signals, filter>>
    <2>1. op[a].kind = "none" /\ UNCHANGED signalVars
      BY <1>18
         DEF Destroy, Idle
    <2> QED
      BY <1>18, <2>1, DestroyOp
         DEF Becomes, Subscribing, signalVars, Untouched
  <1>19. ASSUME NEW s \in Subs, Install(s)
        PROVE  (\A t \in Subs : Untouched(t)) /\ UNCHANGED <<signals, filter>>
    BY <1>19 DEF Touches
  <1>20. ASSUME NEW s \in Subs, Conclude(s)
        PROVE  (\A t \in Subs : Untouched(t)) /\ UNCHANGED <<signals, filter>>
    BY <1>20 DEF Touches
  <1>21. ASSUME NEW s \in Subs, SignalArrives(s) \/ RunDelivery(s) \/ StartDelivery(s)
        PROVE  (\A t \in Subs : Untouched(t)) /\ UNCHANGED <<signals, filter>>
    BY <1>21, AtStep
       DEF SignalArrives, surfaceVars, lifeVars, pathVars, historyVars, RunDelivery, StartDelivery,
           Tears, Untouched
  <1>22. ASSUME NEW p \in Paths, FindPath(p)
        PROVE  (\A t \in Subs : Untouched(t)) /\ UNCHANGED <<signals, filter>>
    BY <1>22, AtStep
       DEF FindPath, surfaceVars, lifeVars, signalVars, pathVars, historyVars, Tears, Untouched
  <1>23. CASE EnterHandler \/ HandlerReturns
    BY <1>23, AtStep
       DEF EnterHandler, surfaceVars, lifeVars, signalVars, historyVars, HandlerReturns, Tears,
           Untouched
  <1>24. CASE HandlerCalls
    <2>1. "io" \in Actors /\ op["io"].kind = "none" /\ UNCHANGED signalVars
      BY <1>24
         DEF HandlerCalls, Actors, Idle
    <2> QED
      BY <1>24, <2>1, HandlerCallsOp
         DEF Becomes, Subscribing, signalVars, Untouched
  <1>25. CASE LoopEnds
    BY <1>25 DEF Touches
  <1>26. CASE UNCHANGED vars
    BY <1>26, AtStep
       DEF vars, surfaceVars, lifeVars, signalVars, pathVars, historyVars, Tears, Untouched
  <1> QED
    BY <1>1, <1>2, <1>3, <1>4, <1>5, <1>6, <1>7, <1>8, <1>9, <1>10, <1>11, <1>12, <1>13, <1>14,
       <1>15, <1>16, <1>17, <1>18, <1>19, <1>20, <1>21, <1>22, <1>23, <1>24, <1>25, <1>26
       DEF Next, GoesOn, Calls

\* The setup of a subscription goes through the I/O thread, the time-out of its subscriber and
\* the end of the loop without leaving a rule, an active entry or a filter behind.
LEMMA SetupStep ==
  ASSUME Typed, Given, Waiting, Stopping, Stopped, Setup, [Next]_vars
  PROVE  Setup'
  <1> USE DEF Typed, Setup
  <1>1. ASSUME NEW a \in Actors, NEW s \in Subs, Subscribe(a, s)
        PROVE  Setup'
    <2>1. /\ s \notin signals \cup active \cup rules \cup cancelled /\ cmd[s] = "none"
          /\ \A t \in Subs : ~Subscribing(t)
      BY <1>1 DEF Subscribe, Given, GivenOut, LocksFree, Subscribing
    <2>2. CanCall(a) /\ ~Subscribing(s)
      BY <1>1, <2>1 DEF Subscribe
    <2>3. CASE a # "io"
      <3>1. Becomes(a, "subscribe", "wait", Nobody, s, {})
        BY <1>1, <2>3, SubscribeOp
      <3>2. /\ signals' = signals \cup {s} /\ filter' = TRUE
            /\ cmd' = [cmd EXCEPT ![s] = "queued"]
            /\ UNCHANGED <<active, rules, cancelled>>
        BY <1>1, <2>3 DEF Subscribe
      <3>3. cmd'[s] = "queued" /\ \A t \in Subs \ {s} : cmd'[t] = cmd[t]
        BY <3>2 DEF TypeOK
      <3>4. \A t \in Subs : Subscribing(t)' <=> t = s
        BY <2>1, <3>1 DEF Becomes, Subscribing
      <3>5. SetupOf(s)'
        BY <2>1, <3>2, <3>3, <3>4 DEF SetupOf
      <3>6. \A t \in Subs \ {s} : Untouched(t)
        BY <2>1, <3>2, <3>3, <3>4 DEF Untouched
      <3> QED
        BY <3>2, <3>5, <3>6, UntouchedSetup
    <2>4. CASE a = "io"
      <3>1. Becomes(a, "none", "none", Nobody, Nobody, {})
        BY <1>1, <2>4, SubscribeOp
      <3>2. /\ signals' = signals \cup {s} /\ filter' = TRUE
            /\ active' = active \cup {s} /\ rules' = rules \cup {s}
            /\ UNCHANGED <<cmd, cancelled>>
        BY <1>1, <2>4 DEF Subscribe
      <3>3. \A t \in Subs : ~Subscribing(t)'
        BY <2>1, <3>1 DEF Becomes, Subscribing
      <3>4. SetupOf(s)'
        BY <2>1, <3>2, <3>3 DEF SetupOf
      <3>5. \A t \in Subs \ {s} : Untouched(t)
        BY <2>1, <3>2, <3>3 DEF Untouched
      <3> QED
        BY <3>2, <3>4, <3>5, UntouchedSetup
    <2> QED
      BY <2>3, <2>4
  <1>2. ASSUME NEW a \in Actors, SubscribeEnds(a)
        PROVE  Setup'
    <2>0. PICK s \in Subs : s = op[a].id
      BY <1>2, AtStep DEF SubscribeEnds
    <2>1. op[a].id = s /\ op[a].kind = "subscribe"
      BY <1>2, <2>0 DEF SubscribeEnds
    <2>2. Becomes(a, "none", "none", Nobody, Nobody, {})
      BY <1>2, Returned DEF SubscribeEnds
    <2>3. Subscribing(s) /\ \A t \in Subs : Subscribing(t) => t = s
      BY <2>1 DEF Subscribing, Waiting
    <2>4. \A t \in Subs : ~Subscribing(t)'
      BY <2>1, <2>2 DEF Becomes, Subscribing, Waiting
    <2>5. UNCHANGED <<active, rules>> /\ cmd[s] # "none"
      BY <1>2, <2>3 DEF SubscribeEnds, SetupOf
    <2>6. \/ cmd[s] = "ready" /\ Discards(s) /\ UNCHANGED <<signals, filter>>
          \/ cmd[s] = "refused" /\ Discards(s) /\ Undo(s)
          \/ /\ cmd[s] \notin {"ready", "refused"} /\ UNCHANGED cmd
             /\ cancelled' = cancelled \cup {s} /\ Undo(s)
      BY <1>2, <2>1 DEF SubscribeEnds
    <2>7. /\ cmd'[s] \in {"none", cmd[s]}
          /\ \A t \in Subs \ {s} : cmd'[t] = cmd[t] /\ (t \in cancelled' <=> t \in cancelled)
      BY <2>6 DEF Discards, TypeOK
    <2>8. CASE cmd[s] = "ready" /\ Discards(s) /\ UNCHANGED <<signals, filter>>
      <3>1. \A t \in Subs \ {s} : Untouched(t)
        BY <2>3, <2>4, <2>5, <2>7, <2>8 DEF Untouched
      <3>2. SetupOf(s)'
        <4>1. cmd'[s] = "none"
          BY <2>8 DEF Discards, TypeOK
        <4> QED
          BY <2>3, <2>4, <2>5, <2>8, <4>1 DEF SetupOf, Discards
      <3> QED
        BY <2>8, <3>1, <3>2, UntouchedSetup
    <2>9. CASE /\ Undo(s)
               /\ \/ cmd[s] = "refused" /\ Discards(s)
                  \/ /\ cmd[s] \notin {"ready", "refused"} /\ UNCHANGED cmd
                     /\ cancelled' = cancelled \cup {s}
      <3>1. \A t \in Subs \ {s} : Untouched(t)
        BY <2>3, <2>4, <2>5, <2>7, <2>9 DEF Untouched, Undo
      <3>2. /\ SetupOf(s) /\ cmd[s] \in {"queued", "installed", "failed", "refused"}
            /\ \/ cmd[s] = "refused" /\ cmd'[s] = "none"
               \/ cmd[s] # "refused" /\ cmd'[s] = cmd[s] /\ s \in cancelled'
        BY <2>1, <2>3, <2>5, <2>9 DEF TypeOK, Discards
      <3>3. s \notin signals' /\ ~Subscribing(s)'
        BY <2>1, <2>4, <2>9 DEF Undo
      <3>4. SetupOf(s)'
        BY <2>5, <3>2, <3>3 DEF SetupOf
      <3>5. filter' = (signals' # {})
        BY <2>1, <2>9, <2>3 DEF Undo, SetupOf
      <3> QED
        BY <3>1, <3>4, <3>5, UntouchedSetup
    <2> QED
      BY <2>6, <2>8, <2>9
  <1>3. ASSUME NEW s \in Subs, Install(s)
        PROVE  Setup'
    <2>1. cmd[s] = "queued" /\ UNCHANGED <<signals, active, filter, cancelled, op>>
      BY <1>3 DEF Install
    <2>2. \A t \in Subs : Subscribing(t)' <=> Subscribing(t)
      BY <2>1 DEF Subscribing
    <2>3. \/ cmd' = [cmd EXCEPT ![s] = "failed"] /\ rules' = rules
          \/ /\ s \notin cancelled
             /\ cmd' = [cmd EXCEPT ![s] = "installed"] /\ rules' = rules \cup {s}
      BY <1>3 DEF Install
    <2>4. /\ \A t \in Subs \ {s} : cmd'[t] = cmd[t]
          /\ \/ cmd'[s] = "failed" /\ rules' = rules
             \/ s \notin cancelled /\ cmd'[s] = "installed" /\ rules' = rules \cup {s}
      BY <2>3 DEF TypeOK
    <2>5. \A t \in Subs \ {s} : Untouched(t)
      BY <2>1, <2>2, <2>4 DEF Untouched
    <2>6. SetupOf(s)'
      BY <2>1, <2>2, <2>4 DEF SetupOf
    <2> QED
      BY <2>1, <2>5, <2>6, UntouchedSetup
  <1>4. ASSUME NEW s \in Subs, Conclude(s)
        PROVE  Setup'
    <2>1. /\ cmd[s] \in {"installed", "failed"}
          /\ UNCHANGED <<signals, filter, cancelled, op>>
      BY <1>4 DEF Conclude
    <2>2. \A t \in Subs : Subscribing(t)' <=> Subscribing(t)
      BY <2>1 DEF Subscribing
    <2>3. /\ \A t \in Subs \ {s} : cmd'[t] = cmd[t]
          /\ IF cmd[s] = "installed" /\ s \notin cancelled
             THEN cmd'[s] = "ready" /\ active' = active \cup {s} /\ rules' = rules
             ELSE cmd'[s] = "refused" /\ active' = active /\ rules' = rules \ {s}
      BY <1>4 DEF Conclude, TypeOK
    <2>4. \A t \in Subs \ {s} : Untouched(t)
      BY <2>1, <2>2, <2>3 DEF Untouched
    <2>5. SetupOf(s)'
      BY <2>1, <2>2, <2>3 DEF SetupOf
    <2> QED
      BY <2>1, <2>4, <2>5, UntouchedSetup
  <1>5. ASSUME NEW s \in Subs, Unsubscribable(s), DropSignal(s), UNCHANGED <<cmd, cancelled>>,
               LocksFree, \A t \in Subs : ~Subscribing(t)'
        PROVE  Setup'
    <2>1. \A t \in Subs : ~Subscribing(t)
      BY <1>5 DEF LocksFree, Subscribing
    <2>2. \A t \in Subs \ {s} : Untouched(t)
      BY <1>5, <2>1 DEF Untouched, DropSignal
    <2>3. SetupOf(s)'
      BY <1>5, <2>1 DEF SetupOf, DropSignal
    <2>4. filter' = (signals' # {})
      BY <1>5 DEF DropSignal, Unsubscribable
    <2> QED
      BY <2>2, <2>3, <2>4, UntouchedSetup
  <1>6. ASSUME NEW a \in Actors, NEW s \in Subs, Unsubscribe(a, s)
        PROVE  Setup'
    <2>1. Becomes(a, "none", "none", Nobody, Nobody, {}) /\ LocksFree
      BY <1>6, Returned DEF Unsubscribe
    <2>2. \A t \in Subs : ~Subscribing(t)'
      BY <2>1 DEF Becomes, Subscribing, LocksFree
    <2> QED
      BY <1>5, <1>6, <2>1, <2>2 DEF Unsubscribe
  <1>7. ASSUME NEW a \in Actors, ReleaseSignal(a)
        PROVE  Setup'
    <2>1. op[a].kind # "subscribe" /\ op[a].id \in Subs /\ LocksFree
      BY <1>7, AtStep DEF ReleaseSignal, Tears
    <2>2. \A t \in Subs : ~Subscribing(t)' /\ ~Subscribing(t)
      BY <1>7, <2>1, ReleaseSignalOp DEF Becomes, Subscribing, LocksFree
    <2>3. CASE Unsubscribable(op[a].id)
      BY <1>5, <1>7, <2>1, <2>2, <2>3 DEF ReleaseSignal
    <2>4. CASE ~Unsubscribable(op[a].id)
      <3>1. \A t \in Subs : Untouched(t) /\ UNCHANGED <<signals, filter>>
        BY <1>7, <2>2, <2>4 DEF ReleaseSignal, Untouched
      <3>2. UNCHANGED <<signals, filter>>
        BY <1>7, <2>4 DEF ReleaseSignal
      <3> QED
        BY <3>1, <3>2, UntouchedSetup
    <2> QED
      BY <2>3, <2>4
  <1>8. ASSUME NEW a \in Actors, Join(a)
        PROVE  Setup'
    <2>1. /\ signals' = {} /\ active' = {} /\ filter' = FALSE /\ rules' = {} /\ cmd' = cmd
          /\ \A t \in Subs : cmd[t] \notin {"queued", "installed", "failed"}
      BY <1>8 DEF Join, Stopped
    <2>2. Becomes(a, "none", "none", Nobody, Nobody, {}) /\ stopping
      BY <1>8, Returned DEF Join, Stopping
    <2>3. \A t \in Subs : ~Subscribing(t)' /\ ~Subscribing(t)
      BY <2>2 DEF Becomes, Subscribing, Waiting, LocksFree
    <2> QED
      BY <2>1, <2>3 DEF SetupOf
  <1>9. ASSUME LoopEnds
        PROVE  Setup'
    <2>1. UNCHANGED <<signals, active, rules, filter, cancelled, op>>
      BY <1>9 DEF LoopEnds
    <2>2. \A t \in Subs : cmd'[t] = IF cmd[t] = "queued" THEN "refused" ELSE cmd[t]
      BY <1>9 DEF LoopEnds
    <2>3. \A t \in Subs : Subscribing(t)' <=> Subscribing(t)
      BY <2>1 DEF Subscribing
    <2> QED
      BY <2>1, <2>2, <2>3 DEF SetupOf
  <1>10. CASE ~Touches
    <2>1. (\A t \in Subs : Untouched(t)) /\ UNCHANGED <<signals, filter>>
      BY <1>10, WaitersStay
    <2> QED
      BY <2>1, UntouchedSetup
  <1> QED
    BY <1>1, <1>2, <1>3, <1>4, <1>6, <1>7, <1>8, <1>9, <1>10 DEF Touches
-----------------------------------------------------------------------------
(***************************************************************************)
(* Who leaves.                                                              *)
(***************************************************************************)
\* A client is released by one operation, which took it out of the members.
Leaving ==
    /\ \A a \in Actors : Tears(a) => op[a].client \notin members
    /\ \A a, b \in Actors :
          Tears(a) /\ Tears(b) /\ op[a].client = op[b].client /\ op[a].client \in Clients => a = b

\* Those a stop has yet to release have left the members, too.
ToRelease ==
    \A a \in Actors :
       /\ op[a].todo \cap members = {}
       /\ \A b \in Actors : /\ Tears(b) => op[b].client \notin op[a].todo
                            /\ a # b => op[a].todo \cap op[b].todo = {}

ReleasedLeft == released \cap members = {}

\* A client is taken out of the members by the one operation that releases it.
LEMMA LeavingStep ==
  ASSUME Typed, Leaving, ToRelease, [Next]_vars
  PROVE  Leaving'
  <1> USE DEF Typed, Leaving
  <1>1. ASSUME NEW a \in Actors, SubscribeEnds(a) PROVE Leaving'
    BY <1>1, Returned, AtStep, Sets
       DEF SubscribeEnds, Undo, surfaceVars, lifeVars, pathVars, historyVars, Becomes, Tears,
           Nobody
  <1>2. ASSUME NEW a \in Actors, RawUnregister(a) PROVE Leaving'
    BY <1>2, RawUnregisterOp, AtStep, Sets, SMTT(20)
       DEF RawUnregister, surfaceVars, lifeVars, signalVars, Becomes, Tears, Nobody
  <1>3. ASSUME NEW a \in Actors, AwaitIdle(a) PROVE Leaving'
    <2>1. UNCHANGED members
      BY <1>3
         DEF AwaitIdle, surfaceVars
    <2> QED
      BY <1>3, <2>1, AwaitIdleOp
         DEF Becomes, Leaving, Nobody, Tears, surfaceVars
  <1>4. ASSUME NEW a \in Actors, Restore(a) PROVE Leaving'
    BY <1>4, Returned, AtStep, Sets
       DEF Restore, lifeVars, signalVars, pathVars, historyVars, Becomes, Tears, Nobody
  <1>5. ASSUME NEW a \in Actors, FindSignal(a) PROVE Leaving'
    BY <1>5, FindSignalOp, AtStep, Sets
       DEF FindSignal, surfaceVars, lifeVars, signalVars, pathVars, historyVars, Becomes, Tears,
           Nobody
  <1>6. ASSUME NEW a \in Actors, ReleaseSignal(a) PROVE Leaving'
    BY <1>6, ReleaseSignalOp, AtStep, Sets
       DEF ReleaseSignal, Unsubscribable, DropSignal, surfaceVars, lifeVars, pathVars,
           historyVars, Becomes, Tears, Nobody
  <1>7. ASSUME NEW a \in Actors, FindOwnPath(a) PROVE Leaving'
    BY <1>7, FindOwnPathOp, AtStep, Sets
       DEF FindOwnPath, surfaceVars, lifeVars, signalVars, pathVars, historyVars, Becomes,
           Tears, Nobody
  <1>8. ASSUME NEW a \in Actors, ReleaseEnds(a) PROVE Leaving'
    <2>1. Tears(a) /\ members \subseteq Clients /\ op[a].todo \subseteq Clients
      BY <1>8, AtStep, Fields, Sets
         DEF ReleaseEnds
    <2>2. UNCHANGED members
      BY <1>8 DEF ReleaseEnds, surfaceVars
    <2> QED
      BY <1>8, <2>1, <2>2, ReleaseEndsOp
         DEF Becomes, Leaving, ToRelease, Nobody, Tears
  <1>9. ASSUME NEW a \in Actors, Halt(a) PROVE Leaving'
    <2>1. UNCHANGED members
      BY <1>9
         DEF Halt, surfaceVars
    <2> QED
      BY <1>9, <2>1, HaltOp
         DEF Becomes, Leaving, Nobody, Tears, surfaceVars
  <1>10. ASSUME NEW a \in Actors, Join(a) PROVE Leaving'
    BY <1>10, Returned, AtStep, Sets
       DEF Join, surfaceVars, historyVars, Becomes, Tears, Nobody
  <1>11. ASSUME NEW a \in Actors, a = "io", CallRefused PROVE Leaving'
    BY <1>11, Returned, AtStep, Sets
       DEF CallRefused, surfaceVars, lifeVars, signalVars, pathVars, historyVars, Becomes,
           Tears, Nobody
  <1>12. ASSUME NEW a \in Actors, NEW s \in Subs, Subscribe(a, s) PROVE Leaving'
    <2>1. UNCHANGED members
      BY <1>12
         DEF Subscribe, Accepting, surfaceVars
    <2>2. CanCall(a)
      BY <1>12 DEF Subscribe
    <2> QED
      BY <1>12, <2>1, <2>2, SubscribeOp, CallersAreFree
         DEF Becomes, Leaving, Nobody, Tears, surfaceVars
  <1>13. ASSUME NEW a \in Actors, NEW s \in Subs, Unsubscribe(a, s) PROVE Leaving'
    BY <1>13, Returned, CallersAreFree, AtStep, Sets
       DEF Unsubscribe, Unsubscribable, DropSignal, surfaceVars, lifeVars, pathVars,
           historyVars, Becomes, Tears, Nobody
  <1>14. ASSUME NEW a \in Actors, NEW p \in Paths, Register(a, p) PROVE Leaving'
    BY <1>14, Returned, CallersAreFree, AtStep, Sets
       DEF Register, Accepting, lifeVars, signalVars, historyVars, Becomes, Tears, Nobody
  <1>15. ASSUME NEW a \in Actors, NEW p \in Paths, Unregister(a, p) PROVE Leaving'
    BY <1>15, UnregisterOp, CallersAreFree, AtStep, Sets
       DEF Unregister, lifeVars, signalVars, pathVars, historyVars, Becomes, Tears, Nobody
  <1>16. ASSUME NEW a \in Actors, NEW c \in Clients, Release(a, c) PROVE Leaving'
    BY <1>16, ReleaseOp, CallersAreFree, AtStep, Sets
       DEF Release, lifeVars, signalVars, pathVars, historyVars, Becomes, Tears, Nobody
  <1>17. ASSUME NEW a \in Actors, Stop(a) PROVE Leaving'
    BY <1>17, StopOp, CallersAreFree, AtStep, Sets
       DEF Stop, lifeVars, signalVars, pathVars, historyVars, Becomes, Tears, Nobody
  <1>18. ASSUME NEW a \in Actors, Destroy(a) PROVE Leaving'
    BY <1>18, DestroyOp, AtStep, Sets
       DEF Destroy, surfaceVars, lifeVars, signalVars, pathVars, historyVars, Becomes, Tears,
           Nobody
  <1>19. ASSUME NEW s \in Subs, Install(s) \/ Conclude(s) \/ SignalArrives(s) \/
               RunDelivery(s) \/ StartDelivery(s)
        PROVE  Leaving'
    BY <1>19, AtStep, Sets
       DEF Install, surfaceVars, lifeVars, pathVars, historyVars, Conclude, SignalArrives,
           RunDelivery, StartDelivery, Tears, Nobody
  <1>20. ASSUME NEW p \in Paths, FindPath(p) PROVE Leaving'
    BY <1>20, AtStep, Sets
       DEF FindPath, surfaceVars, lifeVars, signalVars, pathVars, historyVars, Tears, Nobody
  <1>21. CASE EnterHandler \/ HandlerReturns \/ LoopEnds
    BY <1>21, AtStep, Sets
       DEF EnterHandler, surfaceVars, lifeVars, signalVars, historyVars, HandlerReturns,
           LoopEnds, pathVars, Tears, Nobody
  <1>22. CASE HandlerCalls
    BY <1>22, HandlerCallsOp, AtStep, Sets
       DEF HandlerCalls, surfaceVars, lifeVars, signalVars, pathVars, historyVars, Becomes,
           Tears, Nobody
  <1>23. CASE UNCHANGED vars
    BY <1>23, AtStep, Sets
       DEF vars, surfaceVars, lifeVars, signalVars, pathVars, historyVars, Tears, Nobody
  <1> QED
    BY <1>1, <1>2, <1>3, <1>4, <1>5, <1>6, <1>7, <1>8, <1>9, <1>10, <1>11, <1>12, <1>13, <1>14,
       <1>15, <1>16, <1>17, <1>18, <1>19, <1>20, <1>21, <1>22, <1>23
       DEF Next, GoesOn, Calls

\* stop() takes over every remaining member, and nobody else can release those.
LEMMA ToReleaseStep ==
  ASSUME Typed, Leaving, ToRelease, [Next]_vars
  PROVE  ToRelease'
  <1> USE DEF Typed, Leaving, ToRelease
  <1>1. ASSUME NEW a \in Actors, SubscribeEnds(a) PROVE ToRelease'
    BY <1>1, Returned, AtStep, Sets
       DEF SubscribeEnds, Undo, surfaceVars, lifeVars, pathVars, historyVars, Becomes, Tears,
           Nobody
  <1>2. ASSUME NEW a \in Actors, RawUnregister(a) PROVE ToRelease'
    BY <1>2, RawUnregisterOp, AtStep, Sets
       DEF RawUnregister, surfaceVars, lifeVars, signalVars, Becomes, Tears, Nobody
  <1>3. ASSUME NEW a \in Actors, AwaitIdle(a) PROVE ToRelease'
    <2>1. UNCHANGED members
      BY <1>3
         DEF AwaitIdle, surfaceVars
    <2> QED
      BY <1>3, <2>1, AwaitIdleOp
         DEF Becomes, ToRelease, Tears, surfaceVars
  <1>4. ASSUME NEW a \in Actors, Restore(a) PROVE ToRelease'
    BY <1>4, Returned, AtStep, Sets
       DEF Restore, lifeVars, signalVars, pathVars, historyVars, Becomes, Tears, Nobody
  <1>5. ASSUME NEW a \in Actors, FindSignal(a) PROVE ToRelease'
    BY <1>5, FindSignalOp, AtStep, Sets
       DEF FindSignal, surfaceVars, lifeVars, signalVars, pathVars, historyVars, Becomes, Tears,
           Nobody
  <1>6. ASSUME NEW a \in Actors, ReleaseSignal(a) PROVE ToRelease'
    BY <1>6, ReleaseSignalOp, AtStep, Sets
       DEF ReleaseSignal, Unsubscribable, DropSignal, surfaceVars, lifeVars, pathVars,
           historyVars, Becomes, Tears, Nobody
  <1>7. ASSUME NEW a \in Actors, FindOwnPath(a) PROVE ToRelease'
    BY <1>7, FindOwnPathOp, AtStep, Sets
       DEF FindOwnPath, surfaceVars, lifeVars, signalVars, pathVars, historyVars, Becomes,
           Tears, Nobody
  <1>8. ASSUME NEW a \in Actors, ReleaseEnds(a) PROVE ToRelease'
    <2>1. Tears(a) /\ UNCHANGED members
      BY <1>8, AtStep, Fields
         DEF ReleaseEnds, surfaceVars
    <2> QED
      BY <1>8, <2>1, ReleaseEndsOp, AtStep, Fields
         DEF Becomes, Leaving, ToRelease, Nobody, Tears
  <1>9. ASSUME NEW a \in Actors, Halt(a) PROVE ToRelease'
    <2>1. UNCHANGED members
      BY <1>9
         DEF Halt, surfaceVars
    <2> QED
      BY <1>9, <2>1, HaltOp
         DEF Becomes, ToRelease, Tears, surfaceVars
  <1>10. ASSUME NEW a \in Actors, Join(a) PROVE ToRelease'
    BY <1>10, Returned, AtStep, Sets
       DEF Join, surfaceVars, historyVars, Becomes, Tears, Nobody
  <1>11. ASSUME NEW a \in Actors, a = "io", CallRefused PROVE ToRelease'
    BY <1>11, Returned, AtStep, Sets
       DEF CallRefused, surfaceVars, lifeVars, signalVars, pathVars, historyVars, Becomes,
           Tears, Nobody
  <1>12. ASSUME NEW a \in Actors, NEW s \in Subs, Subscribe(a, s) PROVE ToRelease'
    <2>1. UNCHANGED members
      BY <1>12
         DEF Subscribe, Accepting, surfaceVars
    <2>2. CanCall(a)
      BY <1>12 DEF Subscribe
    <2> QED
      BY <1>12, <2>1, <2>2, SubscribeOp, CallersAreFree
         DEF Becomes, ToRelease, Tears, surfaceVars
  <1>13. ASSUME NEW a \in Actors, NEW s \in Subs, Unsubscribe(a, s) PROVE ToRelease'
    BY <1>13, Returned, CallersAreFree, AtStep, Sets
       DEF Unsubscribe, Unsubscribable, DropSignal, surfaceVars, lifeVars, pathVars,
           historyVars, Becomes, Tears, Nobody
  <1>14. ASSUME NEW a \in Actors, NEW p \in Paths, Register(a, p) PROVE ToRelease'
    BY <1>14, Returned, CallersAreFree, AtStep, Sets
       DEF Register, Accepting, lifeVars, signalVars, historyVars, Becomes, Tears, Nobody
  <1>15. ASSUME NEW a \in Actors, NEW p \in Paths, Unregister(a, p) PROVE ToRelease'
    BY <1>15, UnregisterOp, CallersAreFree, AtStep, Sets
       DEF Unregister, lifeVars, signalVars, pathVars, historyVars, Becomes, Tears, Nobody
  <1>16. ASSUME NEW a \in Actors, NEW c \in Clients, Release(a, c) PROVE ToRelease'
    BY <1>16, ReleaseOp, CallersAreFree, AtStep, Sets
       DEF Release, lifeVars, signalVars, pathVars, historyVars, Becomes, Tears, Nobody
  <1>17. ASSUME NEW a \in Actors, Stop(a) PROVE ToRelease'
    <2>1. members' = {}
      BY <1>17
         DEF Stop
    <2>2. CanCall(a)
      BY <1>17 DEF Stop
    <2> QED
      BY <1>17, <2>1, <2>2, StopOp, CallersAreFree, Sets, Fields
         DEF Becomes, ToRelease, Leaving, Tears, Nobody
  <1>18. ASSUME NEW a \in Actors, Destroy(a) PROVE ToRelease'
    BY <1>18, DestroyOp, AtStep, Sets
       DEF Destroy, surfaceVars, lifeVars, signalVars, pathVars, historyVars, Becomes, Tears,
           Nobody
  <1>19. ASSUME NEW s \in Subs, Install(s) \/ Conclude(s) \/ SignalArrives(s) \/
               RunDelivery(s) \/ StartDelivery(s)
        PROVE  ToRelease'
    BY <1>19, AtStep, Sets
       DEF Install, surfaceVars, lifeVars, pathVars, historyVars, Conclude, SignalArrives,
           RunDelivery, StartDelivery, Tears, Nobody
  <1>20. ASSUME NEW p \in Paths, FindPath(p) PROVE ToRelease'
    BY <1>20, AtStep, Sets
       DEF FindPath, surfaceVars, lifeVars, signalVars, pathVars, historyVars, Tears, Nobody
  <1>21. CASE EnterHandler \/ HandlerReturns \/ LoopEnds
    BY <1>21, AtStep, Sets
       DEF EnterHandler, surfaceVars, lifeVars, signalVars, historyVars, HandlerReturns,
           LoopEnds, pathVars, Tears, Nobody
  <1>22. CASE HandlerCalls
    BY <1>22, HandlerCallsOp, AtStep, Sets
       DEF HandlerCalls, surfaceVars, lifeVars, signalVars, pathVars, historyVars, Becomes,
           Tears, Nobody
  <1>23. CASE UNCHANGED vars
    BY <1>23, AtStep, Sets
       DEF vars, surfaceVars, lifeVars, signalVars, pathVars, historyVars, Tears, Nobody
  <1> QED
    BY <1>1, <1>2, <1>3, <1>4, <1>5, <1>6, <1>7, <1>8, <1>9, <1>10, <1>11, <1>12, <1>13, <1>14,
       <1>15, <1>16, <1>17, <1>18, <1>19, <1>20, <1>21, <1>22, <1>23
       DEF Next, GoesOn, Calls

\* Whose release has returned does not come back.
LEMMA ReleasedLeftStep ==
  ASSUME Typed, Leaving, ReleasedLeft, [Next]_vars
  PROVE  ReleasedLeft'
  <1> USE DEF Typed, ReleasedLeft
  <1>1. ASSUME NEW a \in Actors, SubscribeEnds(a) \/ RawUnregister(a) \/ AwaitIdle(a) \/
               Restore(a) \/ FindSignal(a) \/ ReleaseSignal(a) \/ FindOwnPath(a) \/ Halt(a)
               \/ Join(a)
        PROVE  ReleasedLeft'
    BY <1>1
       DEF SubscribeEnds, Undo, surfaceVars, lifeVars, pathVars, historyVars, RawUnregister,
           signalVars, AwaitIdle, Restore, FindSignal, ReleaseSignal, Unsubscribable,
           DropSignal, FindOwnPath, Halt, Join
  <1>2. ASSUME NEW a \in Actors, ReleaseEnds(a) PROVE ReleasedLeft'
    BY <1>2, AtStep
       DEF ReleaseEnds, surfaceVars, lifeVars, signalVars, pathVars, Leaving
  <1>3. ASSUME NEW a \in Actors, a = "io", CallRefused PROVE ReleasedLeft'
    BY <1>3
       DEF CallRefused, surfaceVars, lifeVars, signalVars, pathVars, historyVars
  <1>4. ASSUME NEW a \in Actors, NEW s \in Subs, Subscribe(a, s) \/ Unsubscribe(a, s)
        PROVE  ReleasedLeft'
    BY <1>4
       DEF Subscribe, Accepting, surfaceVars, lifeVars, pathVars, historyVars, Unsubscribe,
           Unsubscribable, DropSignal
  <1>5. ASSUME NEW a \in Actors, NEW p \in Paths, Register(a, p) \/ Unregister(a, p)
        PROVE  ReleasedLeft'
    BY <1>5
       DEF Register, Accepting, lifeVars, signalVars, historyVars, Unregister, pathVars
  <1>6. ASSUME NEW a \in Actors, NEW c \in Clients, Release(a, c) PROVE ReleasedLeft'
    BY <1>6
       DEF Release, lifeVars, signalVars, pathVars, historyVars
  <1>7. ASSUME NEW a \in Actors, Stop(a) \/ Destroy(a) PROVE ReleasedLeft'
    BY <1>7
       DEF Stop, lifeVars, signalVars, pathVars, historyVars, Destroy, surfaceVars
  <1>8. ASSUME NEW s \in Subs, Install(s) \/ Conclude(s) \/ SignalArrives(s) \/
               RunDelivery(s) \/ StartDelivery(s)
        PROVE  ReleasedLeft'
    BY <1>8
       DEF Install, surfaceVars, lifeVars, pathVars, historyVars, Conclude, SignalArrives,
           RunDelivery, StartDelivery
  <1>9. ASSUME NEW p \in Paths, FindPath(p) PROVE ReleasedLeft'
    BY <1>9
       DEF FindPath, surfaceVars, lifeVars, signalVars, pathVars, historyVars
  <1>10. CASE EnterHandler \/ HandlerCalls \/ HandlerReturns \/ LoopEnds
    BY <1>10
       DEF EnterHandler, surfaceVars, lifeVars, signalVars, historyVars, HandlerCalls, pathVars,
           HandlerReturns, LoopEnds
  <1>11. CASE UNCHANGED vars
    BY <1>11
       DEF vars, surfaceVars, lifeVars, signalVars, pathVars, historyVars
  <1> QED
    BY <1>1, <1>2, <1>3, <1>4, <1>5, <1>6, <1>7, <1>8, <1>9, <1>10, <1>11
       DEF Next, GoesOn, Calls
-----------------------------------------------------------------------------
(***************************************************************************)
(* What the surface knows.                                                  *)
(***************************************************************************)
\* What is registered in the surface, or being subscribed, is a member's.
Members ==
    /\ \A p \in table : OwnerOf[p] \in members
    /\ closing => members = {}

SubscribersStay == \A a \in Actors : op[a].kind = "subscribe" => OwnerOf[op[a].id] \in members

\* The surface has no path the transport does not have.
TableKnown == ~closing => table \subseteq paths

\* Who has an id in hand has it alone, but for those who tear its owner down; an
\* unregistration of a member's path has not lost the path to anybody.
HeldAlone ==
    /\ \A a \in Actors : op[a].id \notin table
    /\ \A a, b \in Actors :
          op[a].kind = "unregister" /\ op[b].kind = "unregister" /\ op[a].id = op[b].id => a = b

MayReturn ==
    \A a \in Actors :
       op[a].kind = "unregister" /\ op[a].step \in {"raw", "restore"}
          /\ op[a].client \in members /\ ~closing => op[a].id \in paths

\* Every path the surface has lost is in somebody's hand, or its owner is leaving.
PathsKnown ==
    \A p \in paths \ table : \/ closing \/ OwnerOf[p] \notin members
                             \/ \E a \in Actors : op[a].id = p

\* The surface registers for members only, and forgets all that is a leaver's.
LEMMA MembersStep ==
  ASSUME Typed, Members, [Next]_vars
  PROVE  Members'
  <1> USE DEF Typed, Members
  <1>1. ASSUME NEW a \in Actors, SubscribeEnds(a) \/ RawUnregister(a) \/ AwaitIdle(a) \/
               FindSignal(a) \/ ReleaseSignal(a) \/ FindOwnPath(a) \/ ReleaseEnds(a) \/
               Halt(a) \/ Join(a)
        PROVE  Members'
    BY <1>1, Sets
       DEF SubscribeEnds, Undo, surfaceVars, lifeVars, pathVars, historyVars, RawUnregister,
           signalVars, AwaitIdle, FindSignal, ReleaseSignal, Unsubscribable, DropSignal,
           FindOwnPath, ReleaseEnds, Halt, Join, Owned
  <1>2. ASSUME NEW a \in Actors, Restore(a) PROVE Members'
    BY <1>2, Sets, AtStep
       DEF Restore, lifeVars, signalVars, pathVars, historyVars, Owned
  <1>3. ASSUME NEW a \in Actors, a = "io", CallRefused PROVE Members'
    BY <1>3, Sets
       DEF CallRefused, surfaceVars, lifeVars, signalVars, pathVars, historyVars, Owned
  <1>4. ASSUME NEW a \in Actors, NEW s \in Subs, Subscribe(a, s) \/ Unsubscribe(a, s)
        PROVE  Members'
    BY <1>4, Sets
       DEF Subscribe, Accepting, surfaceVars, lifeVars, pathVars, historyVars, Unsubscribe,
           Unsubscribable, DropSignal, Owned
  <1>5. ASSUME NEW a \in Actors, NEW p \in Paths, Register(a, p) \/ Unregister(a, p)
        PROVE  Members'
    BY <1>5, Sets
       DEF Register, Accepting, lifeVars, signalVars, historyVars, Unregister, pathVars, Owned
  <1>6. ASSUME NEW a \in Actors, NEW c \in Clients, Release(a, c) PROVE Members'
    BY <1>6, Sets
       DEF Release, lifeVars, signalVars, pathVars, historyVars, Owned
  <1>7. ASSUME NEW a \in Actors, Stop(a) \/ Destroy(a) PROVE Members'
    BY <1>7, Sets
       DEF Stop, lifeVars, signalVars, pathVars, historyVars, Destroy, surfaceVars, Owned
  <1>8. ASSUME NEW s \in Subs, Install(s) \/ Conclude(s) \/ SignalArrives(s) \/
               RunDelivery(s) \/ StartDelivery(s)
        PROVE  Members'
    BY <1>8, Sets
       DEF Install, surfaceVars, lifeVars, pathVars, historyVars, Conclude, SignalArrives,
           RunDelivery, StartDelivery, Owned
  <1>9. ASSUME NEW p \in Paths, FindPath(p) PROVE Members'
    BY <1>9, Sets
       DEF FindPath, surfaceVars, lifeVars, signalVars, pathVars, historyVars, Owned
  <1>10. CASE EnterHandler \/ HandlerCalls \/ HandlerReturns \/ LoopEnds
    BY <1>10, Sets
       DEF EnterHandler, surfaceVars, lifeVars, signalVars, historyVars, HandlerCalls, pathVars,
           HandlerReturns, LoopEnds, Owned
  <1>11. CASE UNCHANGED vars
    BY <1>11, Sets
       DEF vars, surfaceVars, lifeVars, signalVars, pathVars, historyVars, Owned
  <1> QED
    BY <1>1, <1>2, <1>3, <1>4, <1>5, <1>6, <1>7, <1>8, <1>9, <1>10, <1>11
       DEF Next, GoesOn, Calls

\* Nobody leaves while a subscriber holds the surface mutex.
LEMMA SubscribersStayStep ==
  ASSUME Typed, SubscribersStay, [Next]_vars
  PROVE  SubscribersStay'
  <1> USE DEF Typed, SubscribersStay
  <1>1. ASSUME NEW a \in Actors, SubscribeEnds(a) PROVE SubscribersStay'
    BY <1>1, Returned, AtStep
       DEF SubscribeEnds, Undo, surfaceVars, lifeVars, pathVars, historyVars, Becomes, Tears
  <1>2. ASSUME NEW a \in Actors, RawUnregister(a) PROVE SubscribersStay'
    BY <1>2, RawUnregisterOp, AtStep
       DEF RawUnregister, surfaceVars, lifeVars, signalVars, Becomes, Tears
  <1>3. ASSUME NEW a \in Actors, AwaitIdle(a) PROVE SubscribersStay'
    <2>1. UNCHANGED members
      BY <1>3, AtStep
         DEF AwaitIdle, surfaceVars
    <2> QED
      BY <1>3, <2>1, AwaitIdleOp
         DEF Becomes, SubscribersStay, Tears, surfaceVars
  <1>4. ASSUME NEW a \in Actors, Restore(a) PROVE SubscribersStay'
    BY <1>4, Returned, AtStep
       DEF Restore, lifeVars, signalVars, pathVars, historyVars, Becomes, Tears
  <1>5. ASSUME NEW a \in Actors, FindSignal(a) PROVE SubscribersStay'
    BY <1>5, FindSignalOp, AtStep
       DEF FindSignal, surfaceVars, lifeVars, signalVars, pathVars, historyVars, Becomes, Tears
  <1>6. ASSUME NEW a \in Actors, ReleaseSignal(a) PROVE SubscribersStay'
    BY <1>6, ReleaseSignalOp, AtStep
       DEF ReleaseSignal, Unsubscribable, DropSignal, surfaceVars, lifeVars, pathVars,
           historyVars, Becomes, Tears
  <1>7. ASSUME NEW a \in Actors, FindOwnPath(a) PROVE SubscribersStay'
    BY <1>7, FindOwnPathOp, AtStep
       DEF FindOwnPath, surfaceVars, lifeVars, signalVars, pathVars, historyVars, Becomes, Tears
  <1>8. ASSUME NEW a \in Actors, ReleaseEnds(a) PROVE SubscribersStay'
    <2>1. op[a].kind # "subscribe" /\ UNCHANGED members
      BY <1>8, AtStep DEF ReleaseEnds, surfaceVars, Tears
    <2> QED
      BY <1>8, <2>1, ReleaseEndsOp DEF Becomes, SubscribersStay
  <1>9. ASSUME NEW a \in Actors, Halt(a) PROVE SubscribersStay'
    <2>1. UNCHANGED members /\ op[a].kind # "subscribe"
      BY <1>9, AtStep
         DEF Halt, surfaceVars
    <2> QED
      BY <1>9, <2>1, HaltOp
         DEF Becomes, SubscribersStay, Tears, surfaceVars
  <1>10. ASSUME NEW a \in Actors, Join(a) PROVE SubscribersStay'
    BY <1>10, Returned, AtStep
       DEF Join, surfaceVars, historyVars, Becomes, Tears
  <1>11. ASSUME NEW a \in Actors, a = "io", CallRefused PROVE SubscribersStay'
    BY <1>11, Returned, AtStep
       DEF CallRefused, surfaceVars, lifeVars, signalVars, pathVars, historyVars, Becomes, Tears
  <1>12. ASSUME NEW a \in Actors, NEW s \in Subs, Subscribe(a, s) PROVE SubscribersStay'
    <2>1. UNCHANGED members /\ OwnerOf[s] \in members
      BY <1>12, AtStep
         DEF Subscribe, Accepting, surfaceVars
    <2>2. CanCall(a)
      BY <1>12 DEF Subscribe
    <2> QED
      BY <1>12, <2>1, <2>2, SubscribeOp, CallersAreFree
         DEF Becomes, SubscribersStay, Tears, surfaceVars
  <1>13. ASSUME NEW a \in Actors, NEW s \in Subs, Unsubscribe(a, s) PROVE SubscribersStay'
    BY <1>13, Returned, CallersAreFree, AtStep
       DEF Unsubscribe, Unsubscribable, DropSignal, surfaceVars, lifeVars, pathVars,
           historyVars, Becomes, Tears
  <1>14. ASSUME NEW a \in Actors, NEW p \in Paths, Register(a, p) PROVE SubscribersStay'
    BY <1>14, Returned, CallersAreFree, AtStep
       DEF Register, Accepting, lifeVars, signalVars, historyVars, Becomes, Tears
  <1>15. ASSUME NEW a \in Actors, NEW p \in Paths, Unregister(a, p) PROVE SubscribersStay'
    BY <1>15, UnregisterOp, CallersAreFree, AtStep
       DEF Unregister, lifeVars, signalVars, pathVars, historyVars, Becomes, Tears
  <1>16. ASSUME NEW a \in Actors, NEW c \in Clients, Release(a, c) PROVE SubscribersStay'
    BY <1>16, ReleaseOp, CallersAreFree, AtStep
       DEF Release, lifeVars, signalVars, pathVars, historyVars, Becomes, Tears, LocksFree
  <1>17. ASSUME NEW a \in Actors, Stop(a) PROVE SubscribersStay'
    BY <1>17, StopOp, CallersAreFree, AtStep
       DEF Stop, lifeVars, signalVars, pathVars, historyVars, Becomes, Tears, LocksFree
  <1>18. ASSUME NEW a \in Actors, Destroy(a) PROVE SubscribersStay'
    BY <1>18, DestroyOp, AtStep
       DEF Destroy, surfaceVars, lifeVars, signalVars, pathVars, historyVars, Becomes, Tears
  <1>19. ASSUME NEW s \in Subs, Install(s) \/ Conclude(s) \/ SignalArrives(s) \/
               RunDelivery(s) \/ StartDelivery(s)
        PROVE  SubscribersStay'
    BY <1>19, AtStep
       DEF Install, surfaceVars, lifeVars, pathVars, historyVars, Conclude, SignalArrives,
           RunDelivery, StartDelivery, Tears
  <1>20. ASSUME NEW p \in Paths, FindPath(p) PROVE SubscribersStay'
    BY <1>20, AtStep
       DEF FindPath, surfaceVars, lifeVars, signalVars, pathVars, historyVars, Tears
  <1>21. CASE EnterHandler \/ HandlerReturns \/ LoopEnds
    BY <1>21, AtStep
       DEF EnterHandler, surfaceVars, lifeVars, signalVars, historyVars, HandlerReturns,
           LoopEnds, pathVars, Tears
  <1>22. CASE HandlerCalls
    BY <1>22, HandlerCallsOp, AtStep
       DEF HandlerCalls, surfaceVars, lifeVars, signalVars, pathVars, historyVars, Becomes,
           Tears
  <1>23. CASE UNCHANGED vars
    BY <1>23, AtStep
       DEF vars, surfaceVars, lifeVars, signalVars, pathVars, historyVars, Tears
  <1> QED
    BY <1>1, <1>2, <1>3, <1>4, <1>5, <1>6, <1>7, <1>8, <1>9, <1>10, <1>11, <1>12, <1>13, <1>14,
       <1>15, <1>16, <1>17, <1>18, <1>19, <1>20, <1>21, <1>22, <1>23
       DEF Next, GoesOn, Calls

\* A path that failed to go is put back only while the transport still has it.
LEMMA TableKnownStep ==
  ASSUME Typed, Stopping, Members, TableKnown, HeldAlone, MayReturn, [Next]_vars
  PROVE  TableKnown'
  <1> USE DEF Typed, TableKnown
  <1>1. ASSUME NEW a \in Actors, SubscribeEnds(a) \/ AwaitIdle(a) \/ FindSignal(a) \/
               ReleaseSignal(a) \/ FindOwnPath(a) \/ ReleaseEnds(a) \/ Halt(a)
        PROVE  TableKnown'
    BY <1>1, Sets
       DEF SubscribeEnds, Undo, surfaceVars, lifeVars, pathVars, historyVars, AwaitIdle,
           signalVars, FindSignal, ReleaseSignal, Unsubscribable, DropSignal, FindOwnPath,
           ReleaseEnds, Halt, Owned
  <1>2. ASSUME NEW a \in Actors, RawUnregister(a) PROVE TableKnown'
    BY <1>2, Sets
       DEF RawUnregister, surfaceVars, lifeVars, signalVars, Owned, HeldAlone
  <1>3. ASSUME NEW a \in Actors, Restore(a) PROVE TableKnown'
    BY <1>3, Sets, AtStep
       DEF Restore, lifeVars, signalVars, pathVars, historyVars, Owned, MayReturn
  <1>4. ASSUME NEW a \in Actors, Join(a) PROVE TableKnown'
    BY <1>4, Sets, AtStep
       DEF Join, surfaceVars, historyVars, Owned, Stopping
  <1>5. ASSUME NEW a \in Actors, a = "io", CallRefused PROVE TableKnown'
    BY <1>5, Sets
       DEF CallRefused, surfaceVars, lifeVars, signalVars, pathVars, historyVars, Owned
  <1>6. ASSUME NEW a \in Actors, NEW s \in Subs, Subscribe(a, s) \/ Unsubscribe(a, s)
        PROVE  TableKnown'
    BY <1>6, Sets
       DEF Subscribe, Accepting, surfaceVars, lifeVars, pathVars, historyVars, Unsubscribe,
           Unsubscribable, DropSignal, Owned
  <1>7. ASSUME NEW a \in Actors, NEW p \in Paths, Register(a, p) \/ Unregister(a, p)
        PROVE  TableKnown'
    BY <1>7, Sets
       DEF Register, Accepting, lifeVars, signalVars, historyVars, Unregister, pathVars, Owned
  <1>8. ASSUME NEW a \in Actors, NEW c \in Clients, Release(a, c) PROVE TableKnown'
    BY <1>8, Sets
       DEF Release, lifeVars, signalVars, pathVars, historyVars, Owned
  <1>9. ASSUME NEW a \in Actors, Stop(a) \/ Destroy(a) PROVE TableKnown'
    BY <1>9, Sets
       DEF Stop, lifeVars, signalVars, pathVars, historyVars, Destroy, surfaceVars, Owned
  <1>10. ASSUME NEW s \in Subs, Install(s) \/ Conclude(s) \/ SignalArrives(s) \/
               RunDelivery(s) \/ StartDelivery(s)
        PROVE  TableKnown'
    BY <1>10, Sets
       DEF Install, surfaceVars, lifeVars, pathVars, historyVars, Conclude, SignalArrives,
           RunDelivery, StartDelivery, Owned
  <1>11. ASSUME NEW p \in Paths, FindPath(p) PROVE TableKnown'
    BY <1>11, Sets
       DEF FindPath, surfaceVars, lifeVars, signalVars, pathVars, historyVars, Owned
  <1>12. CASE EnterHandler \/ HandlerCalls \/ HandlerReturns \/ LoopEnds
    BY <1>12, Sets
       DEF EnterHandler, surfaceVars, lifeVars, signalVars, historyVars, HandlerCalls, pathVars,
           HandlerReturns, LoopEnds, Owned
  <1>13. CASE UNCHANGED vars
    BY <1>13, Sets
       DEF vars, surfaceVars, lifeVars, signalVars, pathVars, historyVars, Owned
  <1> QED
    BY <1>1, <1>2, <1>3, <1>4, <1>5, <1>6, <1>7, <1>8, <1>9, <1>10, <1>11, <1>12, <1>13
       DEF Next, GoesOn, Calls

\* The actions that touch a path or who has one in hand, in the surface or in the
\* transport.
MovesPaths ==
    \E a \in Actors : \/ RawUnregister(a) \/ AwaitIdle(a) \/ Restore(a)
                      \/ FindOwnPath(a) \/ Join(a)
                      \/ \E p \in Paths : Register(a, p) \/ Unregister(a, p)
                      \/ \E c \in Clients : Release(a, c)
                      \/ Stop(a)

NoPath(a) == op[a].id \notin Paths /\ op[a].kind # "unregister"

\* What the others leave alone.
PathsAside ==
    /\ UNCHANGED <<closing, members, table, paths>>
    /\ \A a \in Actors : op'[a] = op[a] \/ (NoPath(a) /\ NoPath(a)')

\* All other actions leave paths, and who has one in hand, alone.
LEMMA PathsStay ==
  ASSUME Typed, [Next]_vars, ~MovesPaths
  PROVE  PathsAside
  <1> USE DEF Typed, NoPath
  <1>1. ASSUME NEW a \in Actors, SubscribeEnds(a) PROVE PathsAside
    BY <1>1, Returned, AtStep
       DEF SubscribeEnds, Undo, surfaceVars, lifeVars, pathVars, historyVars, Becomes, Tears,
           Nobody, PathsAside
  <1>2. ASSUME NEW a \in Actors, RawUnregister(a) PROVE PathsAside
    BY <1>2 DEF MovesPaths
  <1>3. ASSUME NEW a \in Actors, AwaitIdle(a) PROVE PathsAside
    BY <1>3 DEF MovesPaths
  <1>4. ASSUME NEW a \in Actors, Restore(a) PROVE PathsAside
    BY <1>4 DEF MovesPaths
  <1>5. ASSUME NEW a \in Actors, FindSignal(a) PROVE PathsAside
    <2>1. Tears(a) /\ op[a].id = Nobody
          /\ UNCHANGED <<surfaceVars, pathVars>>
      BY <1>5, AtStep
         DEF FindSignal
    <2> QED
      BY <1>5, <2>1, FindSignalOp, Sets
         DEF Becomes, PathsAside, NoPath, surfaceVars, pathVars, Nobody, Tears, Owned
  <1>6. ASSUME NEW a \in Actors, ReleaseSignal(a) PROVE PathsAside
    BY <1>6, ReleaseSignalOp, AtStep
       DEF ReleaseSignal, Unsubscribable, DropSignal, surfaceVars, lifeVars, pathVars,
           historyVars, Becomes, Tears, Nobody, PathsAside
  <1>7. ASSUME NEW a \in Actors, FindOwnPath(a) PROVE PathsAside
    BY <1>7 DEF MovesPaths
  <1>8. ASSUME NEW a \in Actors, ReleaseEnds(a) PROVE PathsAside
    <2>1. Tears(a) /\ op[a].id = Nobody /\ UNCHANGED <<surfaceVars, pathVars>>
      BY <1>8, AtStep DEF ReleaseEnds
    <2> QED
      BY <1>8, <2>1, ReleaseEndsOp DEF Becomes, Tears, Nobody, PathsAside, surfaceVars, pathVars
  <1>9. ASSUME NEW a \in Actors, Halt(a) PROVE PathsAside
    <2>1. op[a].kind = "stop" /\ op[a].id = Nobody
          /\ UNCHANGED <<surfaceVars, pathVars>>
      BY <1>9, AtStep
         DEF Halt
    <2> QED
      BY <1>9, <2>1, HaltOp
         DEF Becomes, PathsAside, NoPath, surfaceVars, pathVars, Nobody
  <1>10. ASSUME NEW a \in Actors, Join(a) PROVE PathsAside
    BY <1>10 DEF MovesPaths
  <1>11. ASSUME NEW a \in Actors, a = "io", CallRefused PROVE PathsAside
    <2>1. op[a].kind = "call" /\ op[a].id = Nobody
      BY <1>11 DEF CallRefused, Shape, Fits
    <2>2. Becomes(a, "none", "none", Nobody, Nobody, {})
      BY <1>11, Returned DEF CallRefused
    <2>3. UNCHANGED <<surfaceVars, pathVars>>
      BY <1>11 DEF CallRefused
    <2> QED
      BY <2>1, <2>2, <2>3 DEF Becomes, PathsAside, NoPath, surfaceVars, pathVars, Nobody
  <1>12. ASSUME NEW a \in Actors, NEW s \in Subs, Subscribe(a, s) PROVE PathsAside
    <2>1. /\ UNCHANGED <<surfaceVars, pathVars>>
      BY <1>12, AtStep
         DEF Subscribe, Accepting
    <2>2. CanCall(a)
      BY <1>12 DEF Subscribe
    <2> QED
      BY <1>12, <2>1, <2>2, SubscribeOp, CallersAreFree
         DEF Becomes, PathsAside, NoPath, surfaceVars, pathVars, Nobody
  <1>13. ASSUME NEW a \in Actors, NEW s \in Subs, Unsubscribe(a, s) PROVE PathsAside
    BY <1>13, Returned, CallersAreFree, AtStep
       DEF Unsubscribe, Unsubscribable, DropSignal, surfaceVars, lifeVars, pathVars,
           historyVars, Becomes, Tears, Nobody, PathsAside
  <1>14. ASSUME NEW a \in Actors, NEW p \in Paths, Register(a, p) PROVE PathsAside
    BY <1>14 DEF MovesPaths
  <1>15. ASSUME NEW a \in Actors, NEW p \in Paths, Unregister(a, p) PROVE PathsAside
    BY <1>15 DEF MovesPaths
  <1>16. ASSUME NEW a \in Actors, NEW c \in Clients, Release(a, c) PROVE PathsAside
    BY <1>16 DEF MovesPaths
  <1>17. ASSUME NEW a \in Actors, Stop(a) PROVE PathsAside
    BY <1>17 DEF MovesPaths
  <1>18. ASSUME NEW a \in Actors, Destroy(a) PROVE PathsAside
    <2>1. op[a].kind = "none" /\ op[a].id = Nobody
          /\ UNCHANGED <<surfaceVars, pathVars>>
      BY <1>18, AtStep
         DEF Destroy, Idle
    <2> QED
      BY <1>18, <2>1, DestroyOp
         DEF Becomes, PathsAside, NoPath, surfaceVars, pathVars, Nobody
  <1>19. ASSUME NEW s \in Subs, Install(s) \/ Conclude(s) \/ SignalArrives(s) \/
               RunDelivery(s) \/ StartDelivery(s)
        PROVE  PathsAside
    BY <1>19, AtStep
       DEF Install, surfaceVars, lifeVars, pathVars, historyVars, Conclude, SignalArrives,
           RunDelivery, StartDelivery, Tears, Nobody, PathsAside
  <1>20. ASSUME NEW p \in Paths, FindPath(p) PROVE PathsAside
    BY <1>20, AtStep
       DEF FindPath, surfaceVars, lifeVars, signalVars, pathVars, historyVars, Tears, Nobody,
           PathsAside
  <1>21. CASE EnterHandler \/ HandlerReturns \/ LoopEnds
    BY <1>21, AtStep
       DEF EnterHandler, surfaceVars, lifeVars, signalVars, historyVars, HandlerReturns,
           LoopEnds, pathVars, Tears, Nobody, PathsAside
  <1>22. CASE HandlerCalls
    <2>1. "io" \in Actors /\ op["io"].kind = "none" /\ op["io"].id = Nobody
          /\ UNCHANGED <<surfaceVars, pathVars>>
      BY <1>22, AtStep
         DEF HandlerCalls, Idle, Actors
    <2> QED
      BY <1>22, <2>1, HandlerCallsOp
         DEF Becomes, PathsAside, NoPath, surfaceVars, pathVars, Nobody
  <1>23. CASE UNCHANGED vars
    BY <1>23, AtStep
       DEF vars, surfaceVars, lifeVars, signalVars, pathVars, historyVars, Tears, Nobody,
           PathsAside
  <1> QED
    BY <1>1, <1>2, <1>3, <1>4, <1>5, <1>6, <1>7, <1>8, <1>9, <1>10, <1>11, <1>12, <1>13, <1>14,
       <1>15, <1>16, <1>17, <1>18, <1>19, <1>20, <1>21, <1>22, <1>23
       DEF Next, GoesOn, Calls

\* A path is unregistered by one operation at a time, which took it from the surface.
LEMMA HeldAloneStep ==
  ASSUME Typed, Given, Leaving, Members, HeldAlone, [Next]_vars
  PROVE  HeldAlone'
  <1> USE DEF Typed, HeldAlone
  <1>1. ASSUME NEW a \in Actors, RawUnregister(a) PROVE HeldAlone'
    <2>1. table' = table
      BY <1>1
         DEF RawUnregister, surfaceVars
    <2> QED
      BY <1>1, <2>1, RawUnregisterOp, Sets
         DEF Becomes, HeldAlone, Nobody, Tears
  <1>2. ASSUME NEW a \in Actors, AwaitIdle(a) PROVE HeldAlone'
    <2>1. table' = table
      BY <1>2
         DEF AwaitIdle, surfaceVars
    <2> QED
      BY <1>2, <2>1, AwaitIdleOp, Sets
         DEF Becomes, HeldAlone, Nobody, Tears
  <1>3. ASSUME NEW a \in Actors, Restore(a) PROVE HeldAlone'
    <2>1. /\ op[a].kind = "unregister" /\ op[a].id \in Paths
          /\ \/ table' = table
             \/ table' = table \cup {op[a].id} /\ OwnerOf[op[a].id] \in members
          /\ Returns(a)
      BY <1>3, AtStep DEF Restore
    <2>2. ASSUME NEW b \in Actors \ {a}, op[b].id = op[a].id
          PROVE  OwnerOf[op[a].id] \notin members
      BY <2>1, <2>2, PathInHand DEF Leaving
    <2> QED
      BY <2>1, <2>2, Returned, Sets DEF Becomes, Nobody
  <1>4. ASSUME NEW a \in Actors, FindOwnPath(a) PROVE HeldAlone'
    <2>1. Tears(a) /\ op[a].kind # "unregister" /\ op[a].client \notin members /\ UNCHANGED table
      BY <1>4, AtStep DEF FindOwnPath, surfaceVars, Leaving, Tears
    <2>2. \A p \in Owned(op[a].client, paths) : p \notin table
      BY <2>1 DEF Owned, Members
    <2> QED
      BY <1>4, <2>1, <2>2, FindOwnPathOp, Sets DEF Becomes, Nobody
  <1>5. ASSUME NEW a \in Actors, Join(a) PROVE HeldAlone'
    BY <1>5, Returned, AtStep
       DEF Join, surfaceVars, historyVars, Becomes, Nobody, Owned
  <1>6. ASSUME NEW a \in Actors, NEW p \in Paths, Register(a, p) PROVE HeldAlone'
    BY <1>6, Returned, CallersAreFree, AtStep
       DEF Register, Accepting, lifeVars, signalVars, historyVars, Becomes, Nobody, Owned,
           Given, InHand
  <1>7. ASSUME NEW a \in Actors, NEW p \in Paths, Unregister(a, p) PROVE HeldAlone'
    BY <1>7, UnregisterOp, CallersAreFree, AtStep
       DEF Unregister, lifeVars, signalVars, pathVars, historyVars, Becomes, Nobody, Owned,
           Members
  <1>8. ASSUME NEW a \in Actors, NEW c \in Clients, Release(a, c) PROVE HeldAlone'
    BY <1>8, ReleaseOp, CallersAreFree, AtStep
       DEF Release, lifeVars, signalVars, pathVars, historyVars, Becomes, Nobody, Owned
  <1>9. ASSUME NEW a \in Actors, Stop(a) PROVE HeldAlone'
    BY <1>9, StopOp, CallersAreFree, AtStep
       DEF Stop, lifeVars, signalVars, pathVars, historyVars, Becomes, Nobody, Owned
  <1>10. CASE ~MovesPaths
    BY <1>10, PathsStay, Sets DEF PathsAside, NoPath
  <1> QED
    BY <1>1, <1>2, <1>3, <1>4, <1>5, <1>6, <1>7, <1>8, <1>9, <1>10
       DEF MovesPaths

\* No other operation takes a member's path away while its unregistration is going on.
LEMMA MayReturnStep ==
  ASSUME Typed, Stopping, Leaving, TableKnown, HeldAlone, MayReturn, [Next]_vars
  PROVE  MayReturn'
  <1> USE DEF Typed, MayReturn
  <1>1. ASSUME NEW a \in Actors, RawUnregister(a) PROVE MayReturn'
    BY <1>1, RawUnregisterOp, AtStep
       DEF RawUnregister, surfaceVars, lifeVars, signalVars, Becomes, Tears, HeldAlone, Leaving
  <1>2. ASSUME NEW a \in Actors, AwaitIdle(a) PROVE MayReturn'
    <2>1. UNCHANGED <<surfaceVars, pathVars>>
      BY <1>2
         DEF AwaitIdle
    <2> QED
      BY <1>2, <2>1, AwaitIdleOp
         DEF Becomes, MayReturn, surfaceVars, pathVars, Tears
  <1>3. ASSUME NEW a \in Actors, Restore(a) PROVE MayReturn'
    BY <1>3, Returned, AtStep
       DEF Restore, lifeVars, signalVars, pathVars, historyVars, Becomes, Tears
  <1>4. ASSUME NEW a \in Actors, FindOwnPath(a) PROVE MayReturn'
    BY <1>4, FindOwnPathOp, AtStep
       DEF FindOwnPath, surfaceVars, lifeVars, signalVars, pathVars, historyVars, Becomes, Tears
  <1>5. ASSUME NEW a \in Actors, Join(a) PROVE MayReturn'
    BY <1>5, AtStep DEF Join, surfaceVars, Stopping
  <1>6. ASSUME NEW a \in Actors, NEW p \in Paths, Register(a, p) PROVE MayReturn'
    BY <1>6, Returned, CallersAreFree, AtStep
       DEF Register, Accepting, lifeVars, signalVars, historyVars, Becomes, Tears
  <1>7. ASSUME NEW a \in Actors, NEW p \in Paths, Unregister(a, p) PROVE MayReturn'
    BY <1>7, UnregisterOp, CallersAreFree, AtStep
       DEF Unregister, lifeVars, signalVars, pathVars, historyVars, Becomes, Tears, TableKnown
  <1>8. ASSUME NEW a \in Actors, NEW c \in Clients, Release(a, c) PROVE MayReturn'
    BY <1>8, ReleaseOp, CallersAreFree, AtStep
       DEF Release, lifeVars, signalVars, pathVars, historyVars, Becomes, Tears
  <1>9. ASSUME NEW a \in Actors, Stop(a) PROVE MayReturn'
    BY <1>9, StopOp, CallersAreFree, AtStep
       DEF Stop, lifeVars, signalVars, pathVars, historyVars, Becomes, Tears
  <1>10. CASE ~MovesPaths
    BY <1>10, PathsStay DEF PathsAside, NoPath
  <1> QED
    BY <1>1, <1>2, <1>3, <1>4, <1>5, <1>6, <1>7, <1>8, <1>9, <1>10
       DEF MovesPaths

\* A member's path is in the surface or in the hand of the operation that unregisters it.
LEMMA PathsKnownStep ==
  ASSUME Typed, Stopping, Leaving, Members, AwaitsGone, MayReturn, PathsKnown, [Next]_vars
  PROVE  PathsKnown'
  <1> USE DEF Typed, PathsKnown
  <1>1. ASSUME NEW a \in Actors, RawUnregister(a) PROVE PathsKnown'
    BY <1>1, RawUnregisterOp, AtStep, SMTT(20)
       DEF RawUnregister, surfaceVars, lifeVars, signalVars, Becomes, Tears, Nobody, Leaving
  <1>2. ASSUME NEW a \in Actors, AwaitIdle(a) PROVE PathsKnown'
    <2>1. op[a].id \notin paths /\ UNCHANGED <<surfaceVars, pathVars>>
      BY <1>2
         DEF AwaitIdle, AwaitsGone
    <2> QED
      BY <1>2, <2>1, AwaitIdleOp
         DEF Becomes, PathsKnown, surfaceVars, pathVars
  <1>3. ASSUME NEW a \in Actors, Restore(a) PROVE PathsKnown'
    BY <1>3, Returned, AtStep
       DEF Restore, lifeVars, signalVars, pathVars, historyVars, Becomes, Tears, Nobody
  <1>4. ASSUME NEW a \in Actors, FindOwnPath(a) PROVE PathsKnown'
    <2>1. op[a].id = Nobody /\ UNCHANGED <<surfaceVars, pathVars>>
      BY <1>4, AtStep
         DEF FindOwnPath
    <2> QED
      BY <1>4, <2>1, FindOwnPathOp, Sets
         DEF Becomes, PathsKnown, surfaceVars, pathVars, Nobody
  <1>5. ASSUME NEW a \in Actors, Join(a) PROVE PathsKnown'
    BY <1>5, Returned, AtStep
       DEF Join, surfaceVars, historyVars, Becomes, Tears, Nobody
  <1>6. ASSUME NEW a \in Actors, NEW p \in Paths, Register(a, p) PROVE PathsKnown'
    BY <1>6, Returned, CallersAreFree, AtStep
       DEF Register, Accepting, lifeVars, signalVars, historyVars, Becomes, Tears, Nobody
  <1>7. ASSUME NEW a \in Actors, NEW p \in Paths, Unregister(a, p) PROVE PathsKnown'
    <2>1. table' = table \ {p} /\ UNCHANGED <<closing, members, pathVars>>
      BY <1>7
         DEF Unregister
    <2>2. CanCall(a)
      BY <1>7 DEF Unregister
    <2> QED
      BY <1>7, <2>1, <2>2, UnregisterOp, CallersAreFree, Sets
         DEF Becomes, PathsKnown, pathVars, Nobody
  <1>8. ASSUME NEW a \in Actors, NEW c \in Clients, Release(a, c) PROVE PathsKnown'
    <2>1. /\ table' = table \ Owned(c, table) /\ members' = members \ {c}
          /\ UNCHANGED <<closing, pathVars>>
      BY <1>8
         DEF Release
    <2>2. CanCall(a)
      BY <1>8 DEF Release
    <2> QED
      BY <1>8, <2>1, <2>2, ReleaseOp, CallersAreFree, Sets
         DEF Becomes, PathsKnown, pathVars, Nobody, Owned
  <1>9. ASSUME NEW a \in Actors, Stop(a) PROVE PathsKnown'
    BY <1>9, StopOp, CallersAreFree, AtStep
       DEF Stop, lifeVars, signalVars, pathVars, historyVars, Becomes, Tears, Nobody
  <1>10. CASE ~MovesPaths
    BY <1>10, PathsStay, Sets DEF PathsAside, NoPath
  <1> QED
    BY <1>1, <1>2, <1>3, <1>4, <1>5, <1>6, <1>7, <1>8, <1>9, <1>10
       DEF MovesPaths
-----------------------------------------------------------------------------
(***************************************************************************)
(* The release of a client.                                                 *)
(***************************************************************************)
Working == conn /\ ~stopping

\* What a release has in hand is still there, unless somebody disturbed it.
InHandThere ==
    \A a \in Actors : Tears(a) /\ Working =>
       /\ op[a].step = "unsub" => op[a].id \in signals
       /\ op[a].step = "raw" => op[a].id \in paths \/ op[a].client \in disturbed

\* How far the release of a client has come.
SignalsGone ==
    \A a \in Actors :
       Tears(a) /\ op[a].step \in {"paths", "raw", "idle", "next"} /\ op[a].client \in Clients =>
          stopping \/ Owned(op[a].client, signals) = {}

PathsGone ==
    \A a \in Actors :
       Tears(a) /\ op[a].step = "next" /\ op[a].client \in Clients =>
          stopping \/ op[a].client \in disturbed \/ Owned(op[a].client, paths) = {}

LeftNothing ==
    /\ \A c \in released : stopping \/ Owned(c, signals) = {}
    /\ \A c \in released \ disturbed : stopping \/ Owned(c, paths) = {}

\* What a release has found is still there when it comes to remove it, or the client is
\* disturbed: another thread's unregistration took the path.
LEMMA InHandThereStep ==
  ASSUME Typed, Stopped, Leaving, SubscribersStay, InHandThere, [Next]_vars
  PROVE  InHandThere'
  <1> USE DEF Typed, InHandThere
  <1>1. ASSUME NEW a \in Actors, SubscribeEnds(a) PROVE InHandThere'
    <2>1. /\ OwnerOf[op[a].id] \in members /\ signals \ {op[a].id} \subseteq signals'
          /\ UNCHANGED <<lifeVars, pathVars, disturbed>>
          /\ op[a].kind = "subscribe" /\ Returns(a)
      BY <1>1
         DEF SubscribeEnds, Undo, historyVars, SubscribersStay
    <2> QED
      BY <1>1, <2>1, Returned, AtStep
         DEF Becomes, InHandThere, Tears, Working, Leaving, lifeVars, pathVars
  <1>2. ASSUME NEW a \in Actors, RawUnregister(a) PROVE InHandThere'
    <2>1. /\ op[a].step = "raw" /\ disturbed \subseteq disturbed'
          /\ \/ paths' = paths
             \/ /\ paths' = paths \ {op[a].id}
                /\ Releasing(OwnerOf[op[a].id]) \ {a} # {} => OwnerOf[op[a].id] \in disturbed'
          /\ UNCHANGED <<lifeVars, signals>>
      BY <1>2 DEF RawUnregister, signalVars
    <2>2. ASSUME NEW b \in Actors \ {a}, Tears(b), op[b].step = "raw", Working,
                 op[b].id \in paths
          PROVE  op[b].id \in paths' \/ op[b].client \in disturbed'
      <3>1. op[b].client = OwnerOf[op[b].id]
        BY <2>2, AtStep
      <3>2. op[b].id = op[a].id => b \in Releasing(OwnerOf[op[a].id]) \ {a}
        BY <2>2, <3>1 DEF Releasing, Tears
      <3> QED
        BY <2>1, <2>2, <3>1, <3>2
    <2> QED
      BY <1>2, <2>1, <2>2, RawUnregisterOp DEF Becomes, InHandThere, Tears, Working, lifeVars
  <1>3. ASSUME NEW a \in Actors, AwaitIdle(a) PROVE InHandThere'
    <2>1. UNCHANGED <<lifeVars, signals, pathVars, disturbed>>
      BY <1>3
         DEF AwaitIdle, signalVars
    <2> QED
      BY <1>3, <2>1, AwaitIdleOp
         DEF Becomes, InHandThere, Tears, Working, lifeVars, pathVars
  <1>4. ASSUME NEW a \in Actors, Restore(a) PROVE InHandThere'
    BY <1>4, Returned, AtStep
       DEF Restore, lifeVars, signalVars, pathVars, historyVars, Becomes, Tears, Working
  <1>5. ASSUME NEW a \in Actors, FindSignal(a) PROVE InHandThere'
    <2>1. UNCHANGED <<lifeVars, signals, pathVars, disturbed>>
      BY <1>5
         DEF FindSignal, historyVars, signalVars
    <2> QED
      BY <1>5, <2>1, FindSignalOp
         DEF Becomes, InHandThere, Tears, Working, Owned, lifeVars, pathVars
  <1>6. ASSUME NEW a \in Actors, ReleaseSignal(a) PROVE InHandThere'
    <2>1. /\ Tears(a) /\ op[a].client = OwnerOf[op[a].id] /\ op[a].client \in Clients
          /\ signals \ {op[a].id} \subseteq signals'
          /\ UNCHANGED <<lifeVars, pathVars, disturbed>>
      BY <1>6, AtStep
         DEF ReleaseSignal, Unsubscribable, DropSignal, historyVars
    <2> QED
      BY <1>6, <2>1, ReleaseSignalOp, AtStep
         DEF Becomes, InHandThere, Tears, Working, Leaving, lifeVars, pathVars
  <1>7. ASSUME NEW a \in Actors, FindOwnPath(a) PROVE InHandThere'
    <2>1. UNCHANGED <<lifeVars, signals, pathVars, disturbed>>
      BY <1>7
         DEF FindOwnPath, historyVars, signalVars
    <2> QED
      BY <1>7, <2>1, FindOwnPathOp
         DEF Becomes, InHandThere, Tears, Working, Owned, lifeVars, pathVars
  <1>8. ASSUME NEW a \in Actors, ReleaseEnds(a) PROVE InHandThere'
    <2>1. op[a].step = "next" /\ UNCHANGED <<lifeVars, signals, pathVars, disturbed>>
      BY <1>8 DEF ReleaseEnds, signalVars
    <2> QED
      BY <1>8, <2>1, ReleaseEndsOp DEF Becomes, InHandThere, Tears, Working, lifeVars, pathVars
  <1>9. ASSUME NEW a \in Actors, Halt(a) PROVE InHandThere'
    <2>1. /\ op[a].step = "halt" /\ (stopping => stopping')
          /\ UNCHANGED <<signals, paths, disturbed, conn>>
      BY <1>9
         DEF Halt, historyVars, signalVars, pathVars
    <2> QED
      BY <1>9, <2>1, HaltOp
         DEF Becomes, InHandThere, Tears, Working
  <1>10. ASSUME NEW a \in Actors, Join(a) PROVE InHandThere'
    BY <1>10, Returned, AtStep
       DEF Join, surfaceVars, historyVars, Becomes, Tears, Working
  <1>11. ASSUME NEW a \in Actors, a = "io", CallRefused PROVE InHandThere'
    BY <1>11, Returned, AtStep
       DEF CallRefused, surfaceVars, lifeVars, signalVars, pathVars, historyVars, Becomes,
           Tears, Working
  <1>12. ASSUME NEW a \in Actors, NEW s \in Subs, Subscribe(a, s) PROVE InHandThere'
    <2>1. signals \subseteq signals' /\ UNCHANGED <<lifeVars, pathVars, disturbed>>
      BY <1>12
         DEF Subscribe, Accepting, historyVars
    <2>2. CanCall(a)
      BY <1>12 DEF Subscribe
    <2> QED
      BY <1>12, <2>1, <2>2, SubscribeOp, CallersAreFree
         DEF Becomes, InHandThere, Tears, Working, lifeVars, pathVars
  <1>13. ASSUME NEW a \in Actors, NEW s \in Subs, Unsubscribe(a, s) PROVE InHandThere'
    <2>1. /\ OwnerOf[s] \in members /\ signals' = signals \ {s}
          /\ UNCHANGED <<lifeVars, pathVars, disturbed>> /\ Returns(a)
      BY <1>13
         DEF Unsubscribe, Unsubscribable, DropSignal, historyVars
    <2>2. CanCall(a)
      BY <1>13 DEF Unsubscribe
    <2> QED
      BY <1>13, <2>1, <2>2, Returned, CallersAreFree, AtStep
         DEF Becomes, InHandThere, Tears, Working, Leaving, lifeVars, pathVars
  <1>14. ASSUME NEW a \in Actors, NEW p \in Paths, Register(a, p) PROVE InHandThere'
    BY <1>14, Returned, CallersAreFree, AtStep
       DEF Register, Accepting, lifeVars, signalVars, historyVars, Becomes, Tears, Working
  <1>15. ASSUME NEW a \in Actors, NEW p \in Paths, Unregister(a, p) PROVE InHandThere'
    BY <1>15, UnregisterOp, CallersAreFree, AtStep
       DEF Unregister, lifeVars, signalVars, pathVars, historyVars, Becomes, Tears, Working
  <1>16. ASSUME NEW a \in Actors, NEW c \in Clients, Release(a, c) PROVE InHandThere'
    BY <1>16, ReleaseOp, CallersAreFree, AtStep
       DEF Release, lifeVars, signalVars, pathVars, historyVars, Becomes, Tears, Working
  <1>17. ASSUME NEW a \in Actors, Stop(a) PROVE InHandThere'
    BY <1>17, StopOp, CallersAreFree, AtStep
       DEF Stop, lifeVars, signalVars, pathVars, historyVars, Becomes, Tears, Working
  <1>18. ASSUME NEW a \in Actors, Destroy(a) PROVE InHandThere'
    BY <1>18, DestroyOp, AtStep
       DEF Destroy, surfaceVars, lifeVars, signalVars, pathVars, historyVars, Becomes, Tears,
           Working
  <1>19. ASSUME NEW s \in Subs, Install(s) PROVE InHandThere'
    BY <1>19, AtStep
       DEF Install, surfaceVars, lifeVars, pathVars, historyVars, Tears, Working
  <1>20. ASSUME NEW s \in Subs, Conclude(s) PROVE InHandThere'
    BY <1>20, AtStep
       DEF Conclude, surfaceVars, lifeVars, pathVars, historyVars, Tears, Working
  <1>21. ASSUME NEW s \in Subs, SignalArrives(s) PROVE InHandThere'
    BY <1>21, AtStep
       DEF SignalArrives, surfaceVars, lifeVars, pathVars, historyVars, Tears, Working
  <1>22. ASSUME NEW s \in Subs, RunDelivery(s) \/ StartDelivery(s) PROVE InHandThere'
    <2>1. UNCHANGED <<lifeVars, signals, pathVars, op, disturbed>>
      BY <1>22 DEF RunDelivery, StartDelivery, historyVars
    <2> QED
      BY <2>1 DEF InHandThere, Tears, Working, lifeVars, pathVars
  <1>23. ASSUME NEW p \in Paths, FindPath(p) PROVE InHandThere'
    BY <1>23, AtStep
       DEF FindPath, surfaceVars, lifeVars, signalVars, pathVars, historyVars, Tears, Working
  <1>24. CASE EnterHandler
    BY <1>24, AtStep
       DEF EnterHandler, surfaceVars, lifeVars, signalVars, historyVars, Tears, Working
  <1>25. CASE HandlerCalls
    BY <1>25, HandlerCallsOp, AtStep
       DEF HandlerCalls, surfaceVars, lifeVars, signalVars, pathVars, historyVars, Becomes,
           Tears, Working
  <1>26. CASE HandlerReturns
    BY <1>26, AtStep
       DEF HandlerReturns, surfaceVars, lifeVars, signalVars, historyVars, Tears, Working
  <1>27. CASE LoopEnds
    BY <1>27, AtStep
       DEF LoopEnds, surfaceVars, pathVars, historyVars, Tears, Working
  <1>28. CASE UNCHANGED vars
    BY <1>28, AtStep
       DEF vars, surfaceVars, lifeVars, signalVars, pathVars, historyVars, Tears, Working
  <1> QED
    BY <1>1, <1>2, <1>3, <1>4, <1>5, <1>6, <1>7, <1>8, <1>9, <1>10, <1>11, <1>12, <1>13, <1>14,
       <1>15, <1>16, <1>17, <1>18, <1>19, <1>20, <1>21, <1>22, <1>23, <1>24, <1>25, <1>26,
       <1>27, <1>28
       DEF Next, GoesOn, Calls

\* A release goes on to the paths when no subscription of its client is left.
LEMMA SignalsGoneStep ==
  ASSUME Typed, Stopped, Leaving, InHandThere, SignalsGone, [Next]_vars
  PROVE  SignalsGone'
  <1> USE DEF Typed, SignalsGone
  <1>1. ASSUME NEW a \in Actors, SubscribeEnds(a) PROVE SignalsGone'
    BY <1>1, Returned, AtStep
       DEF SubscribeEnds, Undo, surfaceVars, lifeVars, pathVars, historyVars, Becomes, Tears,
           Owned
  <1>2. ASSUME NEW a \in Actors, RawUnregister(a) PROVE SignalsGone'
    BY <1>2, RawUnregisterOp, AtStep
       DEF RawUnregister, surfaceVars, lifeVars, signalVars, Becomes, Tears, Owned
  <1>3. ASSUME NEW a \in Actors, AwaitIdle(a) PROVE SignalsGone'
    BY <1>3, AwaitIdleOp, AtStep, SMTT(20)
       DEF AwaitIdle, surfaceVars, lifeVars, signalVars, pathVars, Becomes, Tears, Owned
  <1>4. ASSUME NEW a \in Actors, Restore(a) PROVE SignalsGone'
    BY <1>4, Returned, AtStep
       DEF Restore, lifeVars, signalVars, pathVars, historyVars, Becomes, Tears, Owned
  <1>5. ASSUME NEW a \in Actors, FindSignal(a) PROVE SignalsGone'
    BY <1>5, FindSignalOp, AtStep
       DEF FindSignal, surfaceVars, lifeVars, signalVars, pathVars, historyVars, Becomes, Tears,
           Owned
  <1>6. ASSUME NEW a \in Actors, ReleaseSignal(a) PROVE SignalsGone'
    <2>1. /\ Unsubscribable(op[a].id) \/ stopping \/ signals = {}
          /\ signals' \subseteq signals /\ stopping' = stopping
      BY <1>6, AtStep
         DEF ReleaseSignal, Unsubscribable, DropSignal, lifeVars, InHandThere, Working, Stopped
    <2> QED
      BY <1>6, <2>1, ReleaseSignalOp
         DEF Becomes, SignalsGone, Tears, Owned
  <1>7. ASSUME NEW a \in Actors, FindOwnPath(a) PROVE SignalsGone'
    BY <1>7, FindOwnPathOp, AtStep
       DEF FindOwnPath, surfaceVars, lifeVars, signalVars, pathVars, historyVars, Becomes,
           Tears, Owned
  <1>8. ASSUME NEW a \in Actors, ReleaseEnds(a) PROVE SignalsGone'
    BY <1>8, ReleaseEndsOp, AtStep
       DEF ReleaseEnds, surfaceVars, lifeVars, signalVars, pathVars, Becomes, Tears, Owned
  <1>9. ASSUME NEW a \in Actors, Halt(a) PROVE SignalsGone'
    <2>1. signals' = signals /\ (stopping => stopping')
      BY <1>9
         DEF Halt, signalVars
    <2> QED
      BY <1>9, <2>1, HaltOp
         DEF Becomes, SignalsGone, Tears, Owned
  <1>10. ASSUME NEW a \in Actors, Join(a) PROVE SignalsGone'
    BY <1>10, Returned, AtStep
       DEF Join, surfaceVars, historyVars, Becomes, Tears, Owned
  <1>11. ASSUME NEW a \in Actors, a = "io", CallRefused PROVE SignalsGone'
    BY <1>11, Returned, AtStep
       DEF CallRefused, surfaceVars, lifeVars, signalVars, pathVars, historyVars, Becomes,
           Tears, Owned
  <1>12. ASSUME NEW a \in Actors, NEW s \in Subs, Subscribe(a, s) PROVE SignalsGone'
    <2>1. /\ signals' = signals \cup {s} /\ stopping' = stopping
          /\ OwnerOf[s] \in members
      BY <1>12
         DEF Subscribe, Accepting, lifeVars
    <2>2. CanCall(a)
      BY <1>12 DEF Subscribe
    <2> QED
      BY <1>12, <2>1, <2>2, SubscribeOp, CallersAreFree
         DEF Becomes, SignalsGone, Tears, Owned, Leaving
  <1>13. ASSUME NEW a \in Actors, NEW s \in Subs, Unsubscribe(a, s) PROVE SignalsGone'
    BY <1>13, Returned, CallersAreFree, AtStep
       DEF Unsubscribe, Unsubscribable, DropSignal, surfaceVars, lifeVars, pathVars,
           historyVars, Becomes, Tears, Owned
  <1>14. ASSUME NEW a \in Actors, NEW p \in Paths, Register(a, p) PROVE SignalsGone'
    BY <1>14, Returned, CallersAreFree, AtStep
       DEF Register, Accepting, lifeVars, signalVars, historyVars, Becomes, Tears, Owned
  <1>15. ASSUME NEW a \in Actors, NEW p \in Paths, Unregister(a, p) PROVE SignalsGone'
    BY <1>15, UnregisterOp, CallersAreFree, AtStep
       DEF Unregister, lifeVars, signalVars, pathVars, historyVars, Becomes, Tears, Owned
  <1>16. ASSUME NEW a \in Actors, NEW c \in Clients, Release(a, c) PROVE SignalsGone'
    BY <1>16, ReleaseOp, CallersAreFree, AtStep
       DEF Release, lifeVars, signalVars, pathVars, historyVars, Becomes, Tears, Owned
  <1>17. ASSUME NEW a \in Actors, Stop(a) PROVE SignalsGone'
    <2>1. UNCHANGED <<signals, stopping>>
      BY <1>17
         DEF Stop, lifeVars, signalVars
    <2>2. CanCall(a)
      BY <1>17 DEF Stop
    <2> QED
      BY <1>17, <2>1, <2>2, StopOp, CallersAreFree
         DEF Becomes, SignalsGone, Tears, Owned, Nobody
  <1>18. ASSUME NEW a \in Actors, Destroy(a) PROVE SignalsGone'
    BY <1>18, DestroyOp, AtStep
       DEF Destroy, surfaceVars, lifeVars, signalVars, pathVars, historyVars, Becomes, Tears,
           Owned
  <1>19. ASSUME NEW s \in Subs, Install(s) \/ Conclude(s) \/ SignalArrives(s) \/
               RunDelivery(s) \/ StartDelivery(s)
        PROVE  SignalsGone'
    BY <1>19, AtStep
       DEF Install, surfaceVars, lifeVars, pathVars, historyVars, Conclude, SignalArrives,
           RunDelivery, StartDelivery, Tears, Owned
  <1>20. ASSUME NEW p \in Paths, FindPath(p) PROVE SignalsGone'
    BY <1>20, AtStep
       DEF FindPath, surfaceVars, lifeVars, signalVars, pathVars, historyVars, Tears, Owned
  <1>21. CASE EnterHandler \/ HandlerReturns \/ LoopEnds
    BY <1>21, AtStep
       DEF EnterHandler, surfaceVars, lifeVars, signalVars, historyVars, HandlerReturns,
           LoopEnds, pathVars, Tears, Owned
  <1>22. CASE HandlerCalls
    BY <1>22, HandlerCallsOp, AtStep
       DEF HandlerCalls, surfaceVars, lifeVars, signalVars, pathVars, historyVars, Becomes,
           Tears, Owned
  <1>23. CASE UNCHANGED vars
    BY <1>23, AtStep
       DEF vars, surfaceVars, lifeVars, signalVars, pathVars, historyVars, Tears, Owned
  <1> QED
    BY <1>1, <1>2, <1>3, <1>4, <1>5, <1>6, <1>7, <1>8, <1>9, <1>10, <1>11, <1>12, <1>13, <1>14,
       <1>15, <1>16, <1>17, <1>18, <1>19, <1>20, <1>21, <1>22, <1>23
       DEF Next, GoesOn, Calls

\* A release that nobody disturbed ends when no path of its client is left.
LEMMA PathsGoneStep ==
  ASSUME Typed, Stopped, Leaving, InHandThere, PathsGone, [Next]_vars
  PROVE  PathsGone'
  <1> USE DEF Typed, PathsGone
  <1>1. ASSUME NEW a \in Actors, SubscribeEnds(a) PROVE PathsGone'
    BY <1>1, Returned, AtStep
       DEF SubscribeEnds, Undo, surfaceVars, lifeVars, pathVars, historyVars, Becomes, Tears,
           Owned
  <1>2. ASSUME NEW a \in Actors, RawUnregister(a) PROVE PathsGone'
    <2>1. /\ op[a].step = "raw" /\ paths' \subseteq paths /\ disturbed \subseteq disturbed'
          /\ stopping' = stopping /\ (~conn => paths = {})
      BY <1>2
         DEF RawUnregister, lifeVars, Stopped
    <2> QED
      BY <1>2, <2>1, RawUnregisterOp
         DEF Becomes, PathsGone, Tears, Owned, InHandThere, Working
  <1>3. ASSUME NEW a \in Actors, AwaitIdle(a) PROVE PathsGone'
    <2>1. UNCHANGED <<paths, disturbed, stopping>>
      BY <1>3
         DEF AwaitIdle, lifeVars, pathVars
    <2> QED
      BY <1>3, <2>1, AwaitIdleOp
         DEF Becomes, PathsGone, Tears, Owned
  <1>4. ASSUME NEW a \in Actors, Restore(a) PROVE PathsGone'
    BY <1>4, Returned, AtStep
       DEF Restore, lifeVars, signalVars, pathVars, historyVars, Becomes, Tears, Owned
  <1>5. ASSUME NEW a \in Actors, FindSignal(a) PROVE PathsGone'
    BY <1>5, FindSignalOp, AtStep
       DEF FindSignal, surfaceVars, lifeVars, signalVars, pathVars, historyVars, Becomes, Tears,
           Owned
  <1>6. ASSUME NEW a \in Actors, ReleaseSignal(a) PROVE PathsGone'
    BY <1>6, ReleaseSignalOp, AtStep
       DEF ReleaseSignal, Unsubscribable, DropSignal, surfaceVars, lifeVars, pathVars,
           historyVars, Becomes, Tears, Owned
  <1>7. ASSUME NEW a \in Actors, FindOwnPath(a) PROVE PathsGone'
    BY <1>7, FindOwnPathOp, AtStep
       DEF FindOwnPath, surfaceVars, lifeVars, signalVars, pathVars, historyVars, Becomes,
           Tears, Owned
  <1>8. ASSUME NEW a \in Actors, ReleaseEnds(a) PROVE PathsGone'
    BY <1>8, ReleaseEndsOp, AtStep
       DEF ReleaseEnds, surfaceVars, lifeVars, signalVars, pathVars, Becomes, Tears, Owned
  <1>9. ASSUME NEW a \in Actors, Halt(a) PROVE PathsGone'
    <2>1. UNCHANGED <<paths, disturbed>> /\ (stopping => stopping')
      BY <1>9
         DEF Halt, pathVars, historyVars
    <2> QED
      BY <1>9, <2>1, HaltOp
         DEF Becomes, PathsGone, Tears, Owned
  <1>10. ASSUME NEW a \in Actors, Join(a) PROVE PathsGone'
    BY <1>10, Returned, AtStep
       DEF Join, surfaceVars, historyVars, Becomes, Tears, Owned
  <1>11. ASSUME NEW a \in Actors, a = "io", CallRefused PROVE PathsGone'
    BY <1>11, Returned, AtStep
       DEF CallRefused, surfaceVars, lifeVars, signalVars, pathVars, historyVars, Becomes,
           Tears, Owned
  <1>12. ASSUME NEW a \in Actors, NEW s \in Subs, Subscribe(a, s) PROVE PathsGone'
    <2>1. UNCHANGED <<paths, disturbed, stopping>>
      BY <1>12
         DEF Subscribe, Accepting, lifeVars, pathVars, historyVars
    <2>2. CanCall(a)
      BY <1>12 DEF Subscribe
    <2> QED
      BY <1>12, <2>1, <2>2, SubscribeOp, CallersAreFree
         DEF Becomes, PathsGone, Tears, Owned
  <1>13. ASSUME NEW a \in Actors, NEW s \in Subs, Unsubscribe(a, s) PROVE PathsGone'
    BY <1>13, Returned, CallersAreFree, AtStep
       DEF Unsubscribe, Unsubscribable, DropSignal, surfaceVars, lifeVars, pathVars,
           historyVars, Becomes, Tears, Owned
  <1>14. ASSUME NEW a \in Actors, NEW p \in Paths, Register(a, p) PROVE PathsGone'
    <2>1. /\ paths' = paths \cup {p} /\ OwnerOf[p] \in members
          /\ UNCHANGED <<disturbed, stopping>> /\ Returns(a)
      BY <1>14
         DEF Register, Accepting, lifeVars, historyVars
    <2>2. CanCall(a)
      BY <1>14 DEF Register
    <2> QED
      BY <1>14, <2>1, <2>2, Returned, CallersAreFree
         DEF Becomes, PathsGone, Tears, Owned, Leaving
  <1>15. ASSUME NEW a \in Actors, NEW p \in Paths, Unregister(a, p) PROVE PathsGone'
    BY <1>15, UnregisterOp, CallersAreFree, AtStep
       DEF Unregister, lifeVars, signalVars, pathVars, historyVars, Becomes, Tears, Owned
  <1>16. ASSUME NEW a \in Actors, NEW c \in Clients, Release(a, c) PROVE PathsGone'
    BY <1>16, ReleaseOp, CallersAreFree, AtStep
       DEF Release, lifeVars, signalVars, pathVars, historyVars, Becomes, Tears, Owned
  <1>17. ASSUME NEW a \in Actors, Stop(a) PROVE PathsGone'
    <2>1. UNCHANGED <<paths, disturbed, stopping>>
      BY <1>17
         DEF Stop, lifeVars, pathVars, historyVars
    <2>2. CanCall(a)
      BY <1>17 DEF Stop
    <2> QED
      BY <1>17, <2>1, <2>2, StopOp, CallersAreFree
         DEF Becomes, PathsGone, Tears, Owned, Nobody
  <1>18. ASSUME NEW a \in Actors, Destroy(a) PROVE PathsGone'
    BY <1>18, DestroyOp, AtStep
       DEF Destroy, surfaceVars, lifeVars, signalVars, pathVars, historyVars, Becomes, Tears,
           Owned
  <1>19. ASSUME NEW s \in Subs, Install(s) \/ Conclude(s) \/ SignalArrives(s) \/
               RunDelivery(s) \/ StartDelivery(s)
        PROVE  PathsGone'
    BY <1>19, AtStep
       DEF Install, surfaceVars, lifeVars, pathVars, historyVars, Conclude, SignalArrives,
           RunDelivery, StartDelivery, Tears, Owned
  <1>20. ASSUME NEW p \in Paths, FindPath(p) PROVE PathsGone'
    BY <1>20, AtStep
       DEF FindPath, surfaceVars, lifeVars, signalVars, pathVars, historyVars, Tears, Owned
  <1>21. CASE EnterHandler \/ HandlerReturns \/ LoopEnds
    BY <1>21, AtStep
       DEF EnterHandler, surfaceVars, lifeVars, signalVars, historyVars, HandlerReturns,
           LoopEnds, pathVars, Tears, Owned
  <1>22. CASE HandlerCalls
    BY <1>22, HandlerCallsOp, AtStep
       DEF HandlerCalls, surfaceVars, lifeVars, signalVars, pathVars, historyVars, Becomes,
           Tears, Owned
  <1>23. CASE UNCHANGED vars
    BY <1>23, AtStep
       DEF vars, surfaceVars, lifeVars, signalVars, pathVars, historyVars, Tears, Owned
  <1> QED
    BY <1>1, <1>2, <1>3, <1>4, <1>5, <1>6, <1>7, <1>8, <1>9, <1>10, <1>11, <1>12, <1>13, <1>14,
       <1>15, <1>16, <1>17, <1>18, <1>19, <1>20, <1>21, <1>22, <1>23
       DEF Next, GoesOn, Calls

\* Nobody registers for a client that has been released.
LEMMA LeftNothingStep ==
  ASSUME Typed, Stopped, Leaving, ReleasedLeft, SignalsGone, PathsGone, LeftNothing, [Next]_vars
  PROVE  LeftNothing'
  <1> USE DEF Typed, LeftNothing
  <1>1. ASSUME NEW a \in Actors, SubscribeEnds(a) \/ RawUnregister(a) \/ AwaitIdle(a) \/
               Restore(a) \/ FindSignal(a) \/ ReleaseSignal(a) \/ FindOwnPath(a) \/ Halt(a)
               \/ Join(a)
        PROVE  LeftNothing'
    BY <1>1, Sets
       DEF SubscribeEnds, Undo, surfaceVars, lifeVars, pathVars, historyVars, RawUnregister,
           signalVars, AwaitIdle, Restore, FindSignal, ReleaseSignal, Unsubscribable,
           DropSignal, FindOwnPath, Halt, Join, Owned
  <1>2. ASSUME NEW a \in Actors, ReleaseEnds(a) PROVE LeftNothing'
    BY <1>2, Sets, AtStep
       DEF ReleaseEnds, surfaceVars, lifeVars, signalVars, pathVars, Owned, SignalsGone,
           PathsGone
  <1>3. ASSUME NEW a \in Actors, a = "io", CallRefused PROVE LeftNothing'
    BY <1>3, Sets
       DEF CallRefused, surfaceVars, lifeVars, signalVars, pathVars, historyVars, Owned
  <1>4. ASSUME NEW a \in Actors, NEW s \in Subs, Subscribe(a, s) PROVE LeftNothing'
    BY <1>4, Sets
       DEF Subscribe, Accepting, surfaceVars, lifeVars, pathVars, historyVars, Owned,
           ReleasedLeft
  <1>5. ASSUME NEW a \in Actors, NEW s \in Subs, Unsubscribe(a, s) PROVE LeftNothing'
    BY <1>5, Sets
       DEF Unsubscribe, Unsubscribable, DropSignal, surfaceVars, lifeVars, pathVars,
           historyVars, Owned
  <1>6. ASSUME NEW a \in Actors, NEW p \in Paths, Register(a, p) PROVE LeftNothing'
    BY <1>6, Sets
       DEF Register, Accepting, lifeVars, signalVars, historyVars, Owned, ReleasedLeft
  <1>7. ASSUME NEW a \in Actors, NEW p \in Paths, Unregister(a, p) PROVE LeftNothing'
    BY <1>7, Sets
       DEF Unregister, lifeVars, signalVars, pathVars, historyVars, Owned
  <1>8. ASSUME NEW a \in Actors, NEW c \in Clients, Release(a, c) PROVE LeftNothing'
    BY <1>8, Sets
       DEF Release, lifeVars, signalVars, pathVars, historyVars, Owned
  <1>9. ASSUME NEW a \in Actors, Stop(a) \/ Destroy(a) PROVE LeftNothing'
    BY <1>9, Sets
       DEF Stop, lifeVars, signalVars, pathVars, historyVars, Destroy, surfaceVars, Owned
  <1>10. ASSUME NEW s \in Subs, Install(s) \/ Conclude(s) \/ SignalArrives(s) \/
               RunDelivery(s) \/ StartDelivery(s)
        PROVE  LeftNothing'
    BY <1>10, Sets
       DEF Install, surfaceVars, lifeVars, pathVars, historyVars, Conclude, SignalArrives,
           RunDelivery, StartDelivery, Owned
  <1>11. ASSUME NEW p \in Paths, FindPath(p) PROVE LeftNothing'
    BY <1>11, Sets
       DEF FindPath, surfaceVars, lifeVars, signalVars, pathVars, historyVars, Owned
  <1>12. CASE EnterHandler \/ HandlerCalls \/ HandlerReturns \/ LoopEnds
    BY <1>12, Sets
       DEF EnterHandler, surfaceVars, lifeVars, signalVars, historyVars, HandlerCalls, pathVars,
           HandlerReturns, LoopEnds, Owned
  <1>13. CASE UNCHANGED vars
    BY <1>13, Sets
       DEF vars, surfaceVars, lifeVars, signalVars, pathVars, historyVars, Owned
  <1> QED
    BY <1>1, <1>2, <1>3, <1>4, <1>5, <1>6, <1>7, <1>8, <1>9, <1>10, <1>11, <1>12, <1>13
       DEF Next, GoesOn, Calls
-----------------------------------------------------------------------------
(***************************************************************************)
(* Deliveries.                                                              *)
(***************************************************************************)
\* Thread a is not in a task of its dispatcher.
Alone(a) == \A s \in begun : RunsOn[s] # a

\* A thread in a task has no operation.
Tasks == \A s \in begun : op[RunsOn[s]].kind = "none"

\* What somebody knows to be over is not active, and no setup can make it so.
HeardOver ==
    \A s \in quiet :
       /\ s \in used \ active
       /\ cmd[s] \in {"queued", "installed", "failed"} => s \in cancelled

\* An operation goes on, or begins, on a thread that is in no task; it leaves the operations
\* and tasks of the others, and tells its own thread only which subscriptions are over.
LEMMA OwnBusiness ==
  ASSUME Typed, Tasks, NEW a \in Actors, GoesOn(a) \/ Calls(a)
  PROVE  /\ Alone(a) /\ begun' = begun
         /\ \A b \in Actors \ {a} : op'[b] = op[b]
         /\ quiet' \subseteq quiet \cup {s \in Subs : RunsOn[s] = a}
  <1> USE DEF Typed
  <1>1. /\ op \in [Actors -> Operations] /\ begun \subseteq Subs
        /\ \A s \in Subs : RunsOn[s] \in Threads
    BY DispatchersAssumption DEF TypeOK
  <1>2. op[a].kind # "none" => Alone(a)
    BY DEF Tasks, Alone
  <1>3. CanCall(a) => Alone(a)
    BY <1>1 DEF CanCall, InTask, Alone
  <1>4. CASE SubscribeEnds(a)
    <2>1. op[a].id \in Subs
      BY <1>4, AtStep DEF SubscribeEnds
    <2>2. /\ op[a].kind # "none" /\ begun' = begun /\ op' = [op EXCEPT ![a] = Idle]
          /\ quiet' = quiet \/ quiet' = quiet \cup {s \in {op[a].id} : RunsOn[s] = a}
      BY <1>4 DEF SubscribeEnds, Returns, Hears
    <2> QED
      BY <1>1, <1>2, <2>1, <2>2
  <1>5. CASE RawUnregister(a) \/ AwaitIdle(a) \/ Restore(a)
    <2>1. op[a].kind # "none"
      BY <1>5, AtStep DEF RawUnregister, AwaitIdle, Restore
    <2> QED
      BY <1>1, <1>2, <1>5, <2>1
         DEF RawUnregister, AwaitIdle, Restore, AfterFailure, Returns, GoesTo, GoesWith, signalVars,
             historyVars
  <1>6. CASE FindSignal(a) \/ ReleaseSignal(a) \/ FindOwnPath(a)
    <2>1. op[a].kind # "none"
      BY <1>6, AtStep DEF FindSignal, ReleaseSignal, FindOwnPath
    <2> QED
      BY <1>1, <1>2, <1>6, <2>1
         DEF FindSignal, ReleaseSignal, FindOwnPath, GoesTo, GoesWith, signalVars, historyVars
  <1>7. CASE ReleaseEnds(a)
    <2>1. op[a].kind # "none"
      BY <1>7, AtStep DEF ReleaseEnds
    <2> QED
      BY <1>1, <1>2, <1>7, <2>1 DEF ReleaseEnds, Returns, Begins, Hears, Owned, signalVars
  <1>8. CASE Halt(a) \/ Join(a)
    <2>1. op[a].kind # "none"
      BY <1>8, AtStep DEF Halt, Join
    <2> QED
      BY <1>1, <1>2, <1>8, <2>1
         DEF Halt, Join, Returns, GoesTo, Hears, signalVars, historyVars
  <1>9. CASE a = "io" /\ CallRefused
    BY <1>1, <1>2, <1>9 DEF CallRefused, Returns, signalVars, historyVars
  <1>10. CASE \E s \in Subs : Subscribe(a, s) \/ Unsubscribe(a, s)
    BY <1>1, <1>3, <1>10 DEF Subscribe, Unsubscribe, Begins, Returns, Hears, historyVars
  <1>11. CASE \E p \in Paths : Register(a, p) \/ Unregister(a, p)
    BY <1>1, <1>3, <1>11 DEF Register, Unregister, Begins, Returns, signalVars, historyVars
  <1>12. CASE (\E c \in Clients : Release(a, c)) \/ Stop(a)
    BY <1>1, <1>3, <1>12 DEF Release, Stop, Begins, signalVars, historyVars
  <1>13. CASE Destroy(a)
    BY <1>1, <1>13 DEF Destroy, Alone, InTask, Begins, signalVars, historyVars
  <1> QED
    BY <1>4, <1>5, <1>6, <1>7, <1>8, <1>9, <1>10, <1>11, <1>12, <1>13 DEF GoesOn, Calls

\* The other steps are those of the I/O thread and of deliveries.
Serves ==
    \/ \E s \in Subs : Install(s) \/ Conclude(s) \/ SignalArrives(s)
    \/ \E p \in Paths : FindPath(p)
    \/ EnterHandler \/ HandlerCalls \/ HandlerReturns \/ LoopEnds
    \/ UNCHANGED vars

\* The I/O thread leaves the tasks and what is known to be over.
LEMMA ServesAside ==
  ASSUME Serves
  PROVE  UNCHANGED <<begun, quiet>>
  BY DEF Serves, Install, Conclude, SignalArrives, FindPath, EnterHandler, HandlerCalls,
         HandlerReturns, LoopEnds, signalVars, historyVars, vars

\* No thread starts an operation in a task, or takes up a task in an operation.
LEMMA TasksStep ==
  ASSUME Typed, Tasks, [Next]_vars
  PROVE  Tasks'
  <1>1. ASSUME NEW s \in Subs PROVE RunsOn[s] \in Threads /\ RunsOn[s] \in Actors \ {"io"}
    BY DispatchersAssumption DEF Actors
  <1>2. begun \subseteq Subs
    BY DEF Typed, TypeOK
  <1>3. ASSUME NEW a \in Actors, GoesOn(a) \/ Calls(a) PROVE Tasks'
    BY <1>1, <1>2, <1>3, OwnBusiness DEF Tasks, Alone
  <1>4. CASE Serves
    <2>1. UNCHANGED op \/ HandlerCalls
      BY <1>4 DEF Serves, Install, Conclude, SignalArrives, FindPath, EnterHandler, HandlerReturns,
                  LoopEnds, vars
    <2>2. \A b \in Actors \ {"io"} : op'[b] = op[b]
      BY <2>1, HandlerCallsOp DEF Becomes
    <2> QED
      BY <1>1, <1>2, <1>4, <2>2, ServesAside DEF Tasks
  <1>5. ASSUME NEW s \in Subs, RunDelivery(s) \/ StartDelivery(s) PROVE Tasks'
    BY <1>5 DEF RunDelivery, StartDelivery, Tasks, Idle
  <1> QED
    BY <1>3, <1>4, <1>5 DEF Next, Serves

\* Neither a setup that is still under way nor another subscriber revives what is over.
LEMMA HeardOverStep ==
  ASSUME Typed, Given, Stopped, Setup, SignalsGone, HeardOver, [Next]_vars
  PROVE  HeardOver'
  <1> USE DEF Typed, HeardOver
  <1>1. /\ quiet \subseteq Subs /\ quiet \subseteq used
        /\ \A t \in Subs : SetupOf(t)
        /\ signals \subseteq used
    BY DEF TypeOK, Setup, Given, GivenOut
  <1>2. ASSUME NEW a \in Actors, SubscribeEnds(a) PROVE HeardOver'
    <2>1. PICK s \in Subs : s = op[a].id /\ Subscribing(s)
      BY <1>2, AtStep DEF SubscribeEnds, Subscribing
    <2>2. s \in used /\ (cmd[s] # "ready" => s \notin active)
      BY <1>1, <2>1 DEF SetupOf, TypeOK
    <2>3. /\ UNCHANGED <<active, used>>
          /\ \/ cmd[s] = "ready" /\ Discards(s) /\ quiet' = quiet
             \/ cmd[s] = "refused" /\ Discards(s) /\ quiet' \subseteq quiet \cup {s}
             \/ /\ cmd[s] # "ready" /\ quiet' \subseteq quiet \cup {s}
                /\ UNCHANGED cmd /\ cancelled' = cancelled \cup {s}
      BY <1>2, <2>1 DEF SubscribeEnds, Hears
    <2> QED
      BY <1>1, <2>2, <2>3 DEF Discards, TypeOK
  <1>3. ASSUME NEW s \in Subs, Unsubscribable(s), LocksFree
        PROVE  s \in used /\ (cmd[s] \in {"queued", "installed", "failed"} => s \in cancelled)
    BY <1>1, <1>3 DEF Unsubscribable, SetupOf, Subscribing, LocksFree
  <1>4. ASSUME NEW a \in Actors, NEW s \in Subs, Unsubscribe(a, s) PROVE HeardOver'
    <2>1. /\ s \in used /\ (cmd[s] \in {"queued", "installed", "failed"} => s \in cancelled)
      BY <1>3, <1>4 DEF Unsubscribe
    <2>2. /\ active' = active \ {s} /\ quiet' \subseteq quiet \cup {s}
          /\ UNCHANGED <<used, cmd, cancelled>>
      BY <1>4 DEF Unsubscribe, DropSignal, Hears
    <2> QED
      BY <1>1, <2>1, <2>2
  <1>5. ASSUME NEW a \in Actors, ReleaseEnds(a) PROVE HeardOver'
    <2>1. UNCHANGED <<active, used, cmd, cancelled>>
      BY <1>5 DEF ReleaseEnds, signalVars
    <2>2. \/ quiet' = quiet
          \/ ~stopping /\ quiet' \subseteq quiet \cup Owned(op[a].client, used \cap Subs)
      BY <1>5 DEF ReleaseEnds, Hears
    <2>3. ASSUME NEW t \in Owned(op[a].client, used \cap Subs), ~stopping
          PROVE  /\ t \in used \ active
                 /\ cmd[t] \in {"queued", "installed", "failed"} => t \in cancelled
      <3>1. t \in Subs /\ t \in used /\ OwnerOf[t] = op[a].client /\ op[a].client \in Clients
        BY <2>3 DEF Owned
      <3>2. t \notin signals
        BY <1>5, <2>3, <3>1, AtStep DEF ReleaseEnds, SignalsGone, Owned
      <3> QED
        BY <1>1, <3>1, <3>2 DEF SetupOf
    <2> QED
      BY <1>1, <2>1, <2>2, <2>3
  <1>6. ASSUME NEW a \in Actors, Join(a) PROVE HeardOver'
    <2>1. active' = {} /\ quiet' \subseteq quiet \cup used /\ UNCHANGED <<used, cmd, cancelled>>
      BY <1>6 DEF Join, Hears
    <2>2. \A t \in Subs : cmd[t] \notin {"queued", "installed", "failed"}
      BY <1>6 DEF Join, Stopped
    <2>3. quiet' \subseteq Subs
      BY <1>1, <1>6 DEF Join, Hears
    <2> QED
      BY <1>1, <2>1, <2>2, <2>3
  <1>7. ASSUME NEW a \in Actors, NEW s \in Subs, Subscribe(a, s) PROVE HeardOver'
    <2>1. /\ s \notin used /\ used' = used \cup {s} /\ active' \subseteq active \cup {s}
          /\ cmd' \in {cmd, [cmd EXCEPT ![s] = "queued"]} /\ UNCHANGED <<cancelled, quiet>>
      BY <1>7 DEF Subscribe, historyVars
    <2> QED
      BY <1>1, <2>1 DEF TypeOK
  <1>8. ASSUME NEW a \in Actors, ReleaseSignal(a) PROVE HeardOver'
    <2>1. active' \subseteq active /\ UNCHANGED <<used, cmd, cancelled, quiet>>
      BY <1>8 DEF ReleaseSignal, DropSignal, historyVars
    <2> QED
      BY <2>1
  <1>9. ASSUME NEW s \in Subs, Install(s) PROVE HeardOver'
    <2>1. /\ cmd[s] = "queued" /\ UNCHANGED <<active, used, cancelled, quiet>>
          /\ \A t \in Subs \ {s} : cmd'[t] = cmd[t]
      BY <1>9 DEF Install, historyVars, TypeOK
    <2> QED
      BY <1>1, <2>1
  <1>10. ASSUME NEW s \in Subs, Conclude(s) PROVE HeardOver'
    <2>1. /\ cmd[s] \in {"installed", "failed"} /\ UNCHANGED <<used, cancelled, quiet>>
          /\ cmd'[s] \in {"ready", "refused"} /\ \A t \in Subs \ {s} : cmd'[t] = cmd[t]
          /\ active' = active \/ (active' = active \cup {s} /\ s \notin cancelled)
      BY <1>10 DEF Conclude, historyVars, TypeOK
    <2> QED
      BY <1>1, <2>1
  <1>11. CASE LoopEnds
    <2>1. /\ UNCHANGED <<active, used, cancelled, quiet>>
          /\ \A t \in Subs : cmd'[t] = IF cmd[t] = "queued" THEN "refused" ELSE cmd[t]
      BY <1>11 DEF LoopEnds, historyVars
    <2> QED
      BY <1>1, <2>1
  <1>12. ASSUME used \subseteq used', UNCHANGED <<active, cmd, cancelled, quiet>>
         PROVE  HeardOver'
    BY <1>12
  <1>13. ASSUME NEW a \in Actors,
               RawUnregister(a) \/ AwaitIdle(a) \/ Restore(a) \/ FindSignal(a) \/ FindOwnPath(a)
               \/ Halt(a) \/ (a = "io" /\ CallRefused)
         PROVE  HeardOver'
    BY <1>12, <1>13
       DEF RawUnregister, AwaitIdle, Restore, FindSignal, FindOwnPath, Halt, CallRefused,
           signalVars, historyVars
  <1>14. ASSUME NEW a \in Actors,
               \/ \E p \in Paths : Register(a, p) \/ Unregister(a, p)
               \/ \E c \in Clients : Release(a, c)
               \/ Stop(a) \/ Destroy(a)
         PROVE  HeardOver'
    BY <1>12, <1>14 DEF Register, Unregister, Release, Stop, Destroy, signalVars, historyVars
  <1>15. ASSUME NEW s \in Subs, SignalArrives(s) \/ RunDelivery(s) \/ StartDelivery(s)
         PROVE  HeardOver'
    BY <1>12, <1>15 DEF SignalArrives, RunDelivery, StartDelivery, historyVars
  <1>16. CASE \/ \E p \in Paths : FindPath(p)
              \/ EnterHandler \/ HandlerCalls \/ HandlerReturns \/ UNCHANGED vars
    BY <1>12, <1>16
       DEF FindPath, EnterHandler, HandlerCalls, HandlerReturns, signalVars, historyVars, vars
  <1> QED
    BY <1>2, <1>4, <1>5, <1>6, <1>7, <1>8, <1>9, <1>10, <1>11, <1>13, <1>14, <1>15, <1>16
       DEF Next, GoesOn, Calls

\* No delivery starts after its end was heard: the thread that hears of it is in no task,
\* and no task that begins later sees an active subscription.
LEMMA SilenceStep ==
  ASSUME Typed, Tasks, HeardOver, UnsubscribedIsSilent, [Next]_vars
  PROVE  UnsubscribedIsSilent'
  <1> USE DEF UnsubscribedIsSilent
  <1>1. ASSUME NEW a \in Actors, GoesOn(a) \/ Calls(a) PROVE UnsubscribedIsSilent'
    BY <1>1, OwnBusiness DEF Alone
  <1>2. CASE Serves
    BY <1>2, ServesAside
  <1>3. ASSUME NEW s \in Subs, RunDelivery(s) \/ StartDelivery(s) PROVE UnsubscribedIsSilent'
    BY <1>3 DEF RunDelivery, StartDelivery, HeardOver, historyVars
  <1> QED
    BY <1>1, <1>2, <1>3 DEF Next, Serves
-----------------------------------------------------------------------------
(***************************************************************************)
(* The inductive invariant, and what follows from it.                       *)
(***************************************************************************)
Shutdown == Waiting /\ Stopping /\ Stopped
Silence  == Silenced /\ AwaitsGone
Surface  == /\ Leaving /\ ToRelease /\ ReleasedLeft
            /\ Members /\ SubscribersStay /\ TableKnown /\ HeldAlone /\ MayReturn /\ PathsKnown
Teardown == InHandThere /\ SignalsGone /\ PathsGone /\ LeftNothing
Delivery == Tasks /\ HeardOver /\ UnsubscribedIsSilent

IInv == /\ Typed /\ Shutdown /\ Given /\ Silence /\ QuotasAgree /\ Setup /\ Surface /\ Teardown
        /\ Delivery

\* Nothing is registered, nobody calls and nobody leaves at first.
LEMMA InvInit == Init => IInv
  <1> SUFFICES ASSUME Init PROVE IInv
    OBVIOUS
  <1>1. \A a \in Actors : /\ op[a].kind = "none" /\ op[a].step = "none" /\ op[a].client = Nobody
                          /\ op[a].id = Nobody /\ op[a].todo = {}
    BY DEF Init, Idle
  <1>2. Typed
    <2>1. Idle \in Operations
      BY DEF Idle, Operations, Steps
    <2>2. TypeOK
      BY <2>1 DEF Init, TypeOK
    <2>3. Shape
      BY <1>1 DEF Shape, Fits
    <2> QED
      BY <2>2, <2>3 DEF Typed
  <1>3. Shutdown
    BY <1>1 DEF Init, Shutdown, Waiting, Stopping, Stopped, LocksFree
  <1>4. Given /\ Silence /\ QuotasAgree
    BY <1>1 DEF Init, Given, GivenOut, InHand, Silence, Silenced, AwaitsGone, QuotasAgree
  <1>5. Setup
    BY <1>1 DEF Init, Setup, SetupOf, Subscribing
  <1>6. Surface
    BY <1>1 DEF Init, Surface, Leaving, ToRelease, ReleasedLeft, Members, SubscribersStay,
                TableKnown, HeldAlone, MayReturn, PathsKnown, Tears
  <1>7. Teardown
    BY <1>1 DEF Init, Teardown, InHandThere, SignalsGone, PathsGone, LeftNothing, Tears, Owned
  <1>8. Delivery
    BY DEF Init, Delivery, Tasks, HeardOver, UnsubscribedIsSilent
  <1> QED
    BY <1>2, <1>3, <1>4, <1>5, <1>6, <1>7, <1>8 DEF IInv

\* Every step keeps every layer.
LEMMA InvStep ==
  ASSUME IInv, [Next]_vars
  PROVE  IInv'
  <1> USE DEF IInv, Shutdown, Silence, Surface, Teardown, Delivery
  <1>1. Typed'
    BY TypeStep, ShapeStep DEF Typed
  <1>2. Shutdown'
    BY WaitingStep, StoppingStep, StoppedStep
  <1>3. Given'
    BY GivenOutStep, InHandStep DEF Given
  <1>4. Silence'
    BY SilencedStep, AwaitsGoneStep
  <1>5. QuotasAgree' /\ Setup'
    BY QuotasStep, SetupStep
  <1>6. Leaving' /\ ToRelease' /\ ReleasedLeft'
    BY LeavingStep, ToReleaseStep, ReleasedLeftStep
  <1>7. Members' /\ SubscribersStay' /\ TableKnown'
    BY MembersStep, SubscribersStayStep, TableKnownStep
  <1>8. HeldAlone' /\ MayReturn' /\ PathsKnown'
    BY HeldAloneStep, MayReturnStep, PathsKnownStep
  <1>9. Teardown'
    BY InHandThereStep, SignalsGoneStep, PathsGoneStep, LeftNothingStep
  <1>10. Delivery'
    BY TasksStep, HeardOverStep, SilenceStep
  <1> QED
    BY <1>1, <1>2, <1>3, <1>4, <1>5, <1>6, <1>7, <1>8, <1>9, <1>10

\* The invariant holds in every reachable state.
LEMMA Invariance == Spec => []IInv
  BY InvInit, InvStep, PTL DEF Spec

\* The bus and libdbus know what the tables know.
LEMMA SetupAgrees ==
  ASSUME Typed, Setup
  PROVE  SignalsAgree
  <1>1. \A t \in Subs : SetupOf(t)
    BY DEF Setup
  <1>2. rules \subseteq signals \cup {s \in Subs : cmd[s] = "installed"}
    BY <1>1, Sets DEF Typed, SetupOf
  <1>3. active \subseteq rules
    BY <1>1, Sets DEF Typed, SetupOf
  <1>4. signals \subseteq active \cup {op[a].id : a \in {b \in Actors : op[b].kind = "subscribe"}}
    BY <1>1, Sets DEF Typed, SetupOf, Subscribing
  <1> QED
    BY <1>2, <1>3, <1>4 DEF Setup, SignalsAgree

\* What was released has left nothing but what somebody disturbed.
LEMMA TeardownIsWhole ==
  ASSUME LeftNothing
  PROVE  ReleaseTearsDownUndisturbed
  <1> SUFFICES ASSUME NEW c \in released \ disturbed
               PROVE  stopping \/ Owned(c, signals \cup paths) = {}
    BY DEF ReleaseTearsDownUndisturbed
  <1>1. stopping \/ (Owned(c, signals) = {} /\ Owned(c, paths) = {})
    BY DEF LeftNothing
  <1>2. Owned(c, signals \cup paths) = Owned(c, signals) \cup Owned(c, paths)
    BY DEF Owned
  <1> QED
    BY <1>1, <1>2

\* The tables agree when the invariant holds.
LEMMA InvAgrees ==
  ASSUME IInv
  PROVE  TablesAgree
  <1>1. SignalsAgree
    BY SetupAgrees DEF IInv
  <1>2. SurfaceAgrees
    BY DEF IInv, Surface, TableKnown, PathsKnown, SurfaceAgrees
  <1>3. ReleaseTearsDownUndisturbed
    BY TeardownIsWhole DEF IInv, Teardown
  <1> QED
    BY <1>1, <1>2, <1>3 DEF TablesAgree, IInv

\* The tables, ids, commands and operations keep their types, in_flight counts the
\* handler the I/O thread is in and nothing else, and no operation leaves its steps.
THEOREM RegistrationsTyped == Spec => []TypeOK
  <1>1. IInv => TypeOK
    BY DEF IInv, Typed
  <1> QED
    BY <1>1, Invariance, PTL

\* unregister_object_path and release_client return to a client thread only when no
\* handler of the path runs, and none will ever run: their callers may destroy
\* what the handler uses.
THEOREM UnregisteredStaysSilent == Spec => []UnregisteredIsSilent
  <1>1. IInv => UnregisteredIsSilent
    BY DEF IInv, Silence, Silenced, UnregisteredIsSilent
  <1> QED
    BY <1>1, Invariance, PTL

\* Quota ledger, match rules, signal filter, transport tables and ownership table
\* agree on what is registered whatever threads, handlers, time-outs, refusals and
\* shutdown do, and release_client leaves nothing of its client behind.
THEOREM TablesAlwaysAgree == Spec => []TablesAgree
  <1>1. IInv => TablesAgree
    BY InvAgrees
  <1> QED
    BY <1>1, Invariance, PTL

\* Once subscribe_signal has failed, or unsubscribe_signal, release_client or stop has
\* returned, on the thread of the dispatcher, no callback of the subscription is still to
\* start there, whatever tasks are queued, commands under way and other threads doing.
THEOREM UnsubscribedStaysSilent == Spec => []UnsubscribedIsSilent
  <1>1. IInv => UnsubscribedIsSilent
    BY DEF IInv, Delivery
  <1> QED
    BY <1>1, Invariance, PTL
=============================================================================
