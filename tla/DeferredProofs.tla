---------------------------- MODULE DeferredProofs ----------------------------
(***************************************************************************)
(* What MCDeferred checks, for every value of its constants.  What          *)
(* DesktopRequestsProofs says of the requests is said of its behaviours, for*)
(* the other components leave them alone; the invariants of the calls over  *)
(* D-Bus, of the animations and of the scene are here.                      *)
(***************************************************************************)
EXTENDS MCDeferred, SequenceTheorems, FiniteSetTheorems, WellFoundedInduction, TLAPS

-----------------------------------------------------------------------------
(***************************************************************************)
(* The calls, for any number of clients and requests and any limit.  A      *)
(* request that a thread has in hand has left the transport; the thread     *)
(* that takes it out of the pending-call set is the one that gives its slot *)
(* back and posts its result.                                               *)
(***************************************************************************)
DbusHandsTyped == hand \in [Dbus!Completers -> Dbus!Hands]

\* Thread a now has the result of r in hand, at step st; the other thread has what
\* it had.
DbusHolds(a, r, code, st) ==
    /\ DbusHandsTyped'
    /\ hand'[a].req = r /\ hand'[a].code = code /\ hand'[a].step = st
    /\ \A b \in Dbus!Completers \ {a} : hand'[b] = hand[b]

\* Thread a, which was idle, takes the result of r in hand to complete it.
DbusTakesUp(a, r) ==
    /\ hand[a].step = "none" /\ hand[a].req = 0
    /\ DbusHandsTyped'
    /\ hand'[a].req = r /\ hand'[a].code \in Dbus!Codes /\ hand'[a].step = "take"
    /\ \A b \in Dbus!Completers \ {a} : hand'[b] = hand[b]

\* What making a call and what the I/O thread does leave alone.
DbusCallingKeeps ==
    UNCHANGED <<surfaceClosing, members, gone, leaving, owner, entry, slots, gate, posted,
                admitted, heard>>

\* What completing a request leaves alone.
DbusCompletingKeeps == UNCHANGED <<surfaceClosing, members, gone, leaving, owner, native, gate,
                                   call, admitted, heard>>

\* Idle threads and callers have nothing in hand, and the caller completes nothing
\* while it makes a call.
DbusForms ==
    /\ call.step # "none" => hand["caller"].step = "none"
    /\ call.step = "none" <=> call.req = 0
    /\ \A a \in Dbus!Completers : /\ hand[a].step = "none" <=> hand[a].req = 0
                                  /\ hand[a].step # "none" => hand[a].code \in Dbus!Codes

DbusTyped == Dbus!TypeOK /\ DbusForms /\ IsFiniteSet(slots)

\* A result is handed over to be completed.
LEMMA DbusHandedOver ==
  ASSUME Dbus!TypeOK, NEW a \in Dbus!Completers, NEW r \in Requests, NEW code \in Dbus!Codes,
         Dbus!HandOver(a, r, code)
  PROVE  DbusHolds(a, r, code, "take")
  BY DEF Dbus!TypeOK, DbusHandsTyped, Dbus!Hands, DbusHolds, Dbus!HandOver

\* GoesTo moves a result to another step.
LEMMA DbusGone ==
  ASSUME Dbus!TypeOK, NEW a \in Dbus!Completers, NEW st \in {"release", "post"}, Dbus!GoesTo(a, st)
  PROVE  DbusHolds(a, hand[a].req, hand[a].code, st)
  BY DEF Dbus!TypeOK, DbusHandsTyped, Dbus!Hands, DbusHolds, Dbus!GoesTo

\* IsDone leaves the thread with nothing in hand.
LEMMA DbusDone ==
  ASSUME Dbus!TypeOK, NEW a \in Dbus!Completers, Dbus!IsDone(a)
  PROVE  DbusHolds(a, 0, "none", "none")
  <1>1. Dbus!Empty \in Dbus!Hands
    BY DEF Dbus!Empty, Dbus!Hands
  <1> QED
    BY <1>1 DEF Dbus!TypeOK, DbusHandsTyped, Dbus!Empty, DbusHolds, Dbus!IsDone

\* The values of what threads have in hand, and of the call.
LEMMA DbusInHand ==
  ASSUME DbusTyped
  PROVE  /\ \A a \in Dbus!Completers :
               /\ hand[a].step \in {"none", "take", "release", "post"}
               /\ hand[a].step # "none" => hand[a].req \in Requests /\ hand[a].code \in Dbus!Codes
               /\ hand[a].req = 0 => hand[a].step = "none"
         /\ call.step \in {"none", "send", "retain", "notify"}
         /\ call.step # "none" => call.req \in Requests
  BY DEF DbusTyped, Dbus!TypeOK, DbusForms, Dbus!Hands

\* The thread that has the mutex of the surface is not completing anything.
LEMMA DbusMutexIsFree ==
  ASSUME DbusTyped, Dbus!MutexFree
  PROVE  call.step = "none" /\ hand["caller"].step = "none" /\ hand["caller"].req = 0
  BY DEF Dbus!MutexFree, Dbus!NoCall, Dbus!Empty

\* The I/O thread takes nothing in hand before it is done with what it has.
LEMMA DbusIoIsFree ==
  ASSUME DbusTyped, Dbus!IoFree
  PROVE  hand["io"].step = "none" /\ hand["io"].req = 0
  BY DEF Dbus!IoFree, Dbus!Empty
-----------------------------------------------------------------------------
(***************************************************************************)
(* What each action does, with what threads have in hand as a whole.        *)
(***************************************************************************)
\* The thread that finds the entry goes on; the other has lost the race.
LEMMA DbusTakeEntryOp ==
  ASSUME DbusTyped, NEW a \in Dbus!Completers, Dbus!TakeEntry(a)
  PROVE  /\ DbusCompletingKeeps /\ slots' = slots /\ posted' = posted
         /\ hand[a].step = "take" /\ entry' = entry \ {hand[a].req}
         /\ \/ hand[a].req \in entry /\ DbusHolds(a, hand[a].req, hand[a].code, "release")
            \/ hand[a].req \notin entry /\ DbusHolds(a, 0, "none", "none")
  BY DbusGone, DbusDone DEF DbusTyped, Dbus!TakeEntry, DbusCompletingKeeps, Dbus!lifeVars

\* After its slot the result is posted.
LEMMA DbusReleaseSlotOp ==
  ASSUME DbusTyped, NEW a \in Dbus!Completers, Dbus!ReleaseSlot(a)
  PROVE  /\ DbusCompletingKeeps /\ entry' = entry /\ posted' = posted
         /\ hand[a].step = "release" /\ slots' = slots \ {hand[a].req}
         /\ DbusHolds(a, hand[a].req, hand[a].code, "post")
  BY DbusGone DEF DbusTyped, Dbus!ReleaseSlot, DbusCompletingKeeps, Dbus!lifeVars

\* After it was posted nothing is left in hand.
LEMMA DbusPostResultOp ==
  ASSUME DbusTyped, NEW a \in Dbus!Completers, Dbus!PostResult(a)
  PROVE  /\ DbusCompletingKeeps /\ entry' = entry /\ slots' = slots
         /\ hand[a].step = "post"
         /\ posted' \in {posted, posted \cup {[req |-> hand[a].req, code |-> hand[a].code]}}
         /\ DbusHolds(a, 0, "none", "none")
  BY DbusDone DEF DbusTyped, Dbus!PostResult, DbusCompletingKeeps, Dbus!lifeVars

\* A failed call is completed by its caller.
LEMMA DbusFailed ==
  ASSUME DbusTyped, NEW code \in Dbus!Codes, call.step # "none", Dbus!Fail(code)
  PROVE  call'.step = "none" /\ call'.req = 0 /\ DbusTakesUp("caller", call.req)
  <1>1. call.req \in Requests /\ hand["caller"].step = "none" /\ "caller" \in Dbus!Completers
    BY DbusInHand DEF DbusTyped, DbusForms, Dbus!Completers
  <1>2. hand["caller"].req = 0
    BY <1>1 DEF DbusTyped, DbusForms
  <1>3. DbusHolds("caller", call.req, code, "take")
    BY <1>1, DbusHandedOver DEF DbusTyped, Dbus!Fail
  <1> QED
    BY <1>1, <1>2, <1>3 DEF DbusHolds, DbusTakesUp, Dbus!Fail, Dbus!NoCall

\* The call is sent, or fails.
LEMMA DbusSendOp ==
  ASSUME DbusTyped, Dbus!Send
  PROVE  /\ DbusCallingKeeps /\ native' = native
         /\ call.step = "send" /\ call.req \in Requests
         /\ \/ call'.step = "none" /\ call'.req = 0 /\ DbusTakesUp("caller", call.req)
            \/ hand' = hand /\ call'.req = call.req /\ call'.step = "retain"
  <1>1. {"Shutdown", "LocalProtocolError", "Disconnected"} \subseteq Dbus!Codes
    BY DEF Dbus!Codes
  <1>2. DbusCallingKeeps /\ native' = native /\ call.step = "send" /\ call.req \in Requests
    BY DbusInHand DEF Dbus!Send, DbusCallingKeeps, Dbus!lifeVars
  <1> QED
    BY <1>1, <1>2, DbusFailed DEF Dbus!Send, DbusTyped, Dbus!TypeOK

\* The call is kept, or fails.
LEMMA DbusRetainOp ==
  ASSUME DbusTyped, Dbus!Retain
  PROVE  /\ DbusCallingKeeps
         /\ call.step = "retain" /\ call.req \in Requests
         /\ \/ /\ call'.step = "none" /\ call'.req = 0 /\ DbusTakesUp("caller", call.req)
               /\ native' = native
            \/ /\ hand' = hand /\ call'.req = call.req /\ call'.step = "notify"
               /\ native' = native \cup {call.req}
  <1>1. "LocalProtocolError" \in Dbus!Codes
    BY DEF Dbus!Codes
  <1>2. DbusCallingKeeps /\ call.step = "retain" /\ call.req \in Requests
    BY DbusInHand DEF Dbus!Retain, DbusCallingKeeps, Dbus!lifeVars
  <1> QED
    BY <1>1, <1>2, DbusFailed DEF Dbus!Retain, DbusTyped, Dbus!TypeOK

\* The call is made, or fails.
LEMMA DbusSetNotifyOp ==
  ASSUME DbusTyped, Dbus!SetNotify
  PROVE  /\ DbusCallingKeeps
         /\ call.step = "notify" /\ call.req \in Requests
         /\ call'.step = "none" /\ call'.req = 0
         /\ \/ DbusTakesUp("caller", call.req) /\ native' = native \ {call.req}
            \/ hand' = hand /\ native' = native
  <1>1. "LocalProtocolError" \in Dbus!Codes
    BY DEF Dbus!Codes
  <1>2. DbusCallingKeeps /\ call.step = "notify" /\ call.req \in Requests
    BY DbusInHand DEF Dbus!SetNotify, DbusCallingKeeps, Dbus!lifeVars
  <1> QED
    BY <1>1, <1>2, DbusFailed DEF Dbus!SetNotify, Dbus!NoCall

\* A cancelled call is completed by the thread that cancels it.
LEMMA DbusCancelOp ==
  ASSUME DbusTyped, NEW c \in Clients, NEW r \in Requests, Dbus!Cancel(c, r)
  PROVE  /\ DbusCallingKeeps /\ call' = call
         /\ call.step = "none" /\ call.req = 0 /\ c \in members
         /\ r \in native /\ native' = native \ {r} /\ DbusTakesUp("caller", r)
  <1>1. "Cancelled" \in Dbus!Codes
    BY DEF Dbus!Codes
  <1>2. /\ DbusCallingKeeps /\ call' = call /\ c \in members /\ Dbus!MutexFree
        /\ r \in native /\ native' = native \ {r}
    BY DEF Dbus!Cancel, DbusCallingKeeps, Dbus!lifeVars
  <1>3. /\ call.step = "none" /\ call.req = 0
        /\ hand["caller"].step = "none" /\ hand["caller"].req = 0
    BY <1>2, DbusMutexIsFree DEF DbusTyped, DbusForms
  <1>4. DbusHolds("caller", r, "Cancelled", "take")
    BY <1>1, DbusHandedOver DEF DbusTyped, Dbus!Cancel, Dbus!Completers
  <1> QED
    BY <1>1, <1>2, <1>3, <1>4 DEF DbusHolds, DbusTakesUp

\* A reply that is heard is completed by the I/O thread.
LEMMA DbusDispatchReplyOp ==
  ASSUME DbusTyped, NEW r \in Requests, Dbus!DispatchReply(r)
  PROVE  /\ DbusCallingKeeps /\ call' = call
         /\ \/ r \in native /\ native' = native \ {r} /\ DbusTakesUp("io", r)
            \/ native' = native /\ hand' = hand
  <1>1. {"Reply", "Disconnected"} \subseteq Dbus!Codes
    BY DEF Dbus!Codes
  <1>2. DbusCallingKeeps /\ call' = call /\ Dbus!IoFree
    BY DEF Dbus!DispatchReply, DbusCallingKeeps, Dbus!lifeVars
  <1>3. CASE r \in notify /\ r \in native
    <2>1. r \in native /\ native' = native \ {r}
      BY <1>3 DEF Dbus!DispatchReply
    <2>2. \E code \in Dbus!Codes : Dbus!HandOver("io", r, code)
      BY <1>1, <1>3 DEF Dbus!DispatchReply
    <2>3. \E code \in Dbus!Codes : DbusHolds("io", r, code, "take")
      BY <2>2, DbusHandedOver DEF DbusTyped, Dbus!Completers
    <2> QED
      BY <1>2, <2>1, <2>3, DbusIoIsFree DEF DbusHolds, DbusTakesUp
  <1>4. CASE ~ (r \in notify /\ r \in native)
    BY <1>2, <1>4 DEF Dbus!DispatchReply
  <1> QED
    BY <1>3, <1>4

\* So is a call that has run into its deadline.
LEMMA DbusExpireOp ==
  ASSUME DbusTyped, NEW r \in Requests, Dbus!Expire(r)
  PROVE  /\ DbusCallingKeeps /\ call' = call
         /\ r \in native /\ native' = native \ {r} /\ DbusTakesUp("io", r)
  <1>1. "Timeout" \in Dbus!Codes
    BY DEF Dbus!Codes
  <1>2. /\ DbusCallingKeeps /\ call' = call /\ Dbus!IoFree
        /\ r \in native /\ native' = native \ {r}
    BY DEF Dbus!Expire, DbusCallingKeeps, Dbus!lifeVars
  <1>3. DbusHolds("io", r, "Timeout", "take")
    BY <1>1, DbusHandedOver DEF DbusTyped, Dbus!Expire, Dbus!Completers
  <1> QED
    BY <1>1, <1>2, <1>3, DbusIoIsFree DEF DbusHolds, DbusTakesUp
-----------------------------------------------------------------------------
(***************************************************************************)
(* Types.                                                                   *)
(***************************************************************************)
\* Every step leaves hands of the declared form.
LEMMA DbusHandsStep ==
  ASSUME DbusTyped, [Dbus!Next]_(Dbus!vars)
  PROVE  DbusHandsTyped'
  <1>0. DbusHandsTyped
    BY DEF DbusTyped, Dbus!TypeOK, DbusHandsTyped
  <1>1. ASSUME NEW a \in Dbus!Completers, Dbus!TakeEntry(a) PROVE DbusHandsTyped'
    BY <1>1, DbusTakeEntryOp, <1>0 DEF DbusHolds, DbusCompletingKeeps, DbusHandsTyped
  <1>2. ASSUME NEW a \in Dbus!Completers, Dbus!ReleaseSlot(a) PROVE DbusHandsTyped'
    BY <1>2, DbusReleaseSlotOp, <1>0 DEF DbusHolds, DbusCompletingKeeps, DbusHandsTyped
  <1>3. ASSUME NEW a \in Dbus!Completers, Dbus!PostResult(a) PROVE DbusHandsTyped'
    BY <1>3, DbusPostResultOp, <1>0 DEF DbusHolds, DbusCompletingKeeps, DbusHandsTyped
  <1>4. CASE Dbus!RunTask \/ Dbus!StartCallback
    BY <1>4, <1>0 DEF Dbus!RunTask, Dbus!StartCallback, Dbus!lifeVars, Dbus!libVars, DbusHandsTyped
  <1>5. ASSUME NEW c \in Clients, NEW r \in Requests, Dbus!Begin(c, r) PROVE DbusHandsTyped'
    BY <1>5, <1>0 DEF Dbus!Begin, Dbus!lifeVars, Dbus!libVars, DbusHandsTyped
  <1>6. ASSUME NEW c \in Clients, NEW r \in Requests, Dbus!Cancel(c, r) PROVE DbusHandsTyped'
    BY <1>6, DbusCancelOp, <1>0 DEF DbusTakesUp, DbusCallingKeeps, DbusHandsTyped
  <1>7. CASE Dbus!Send
    BY <1>7, DbusSendOp, <1>0 DEF DbusTakesUp, DbusCallingKeeps, DbusHandsTyped
  <1>8. CASE Dbus!Retain
    BY <1>8, DbusRetainOp, <1>0 DEF DbusTakesUp, DbusCallingKeeps, DbusHandsTyped
  <1>9. CASE Dbus!SetNotify
    BY <1>9, DbusSetNotifyOp, <1>0 DEF DbusTakesUp, DbusCallingKeeps, DbusHandsTyped
  <1>10. ASSUME NEW r \in Requests, Dbus!DispatchReply(r) PROVE DbusHandsTyped'
    BY <1>10, DbusDispatchReplyOp, <1>0 DEF DbusTakesUp, DbusCallingKeeps, DbusHandsTyped
  <1>11. ASSUME NEW r \in Requests, Dbus!Expire(r) PROVE DbusHandsTyped'
    BY <1>11, DbusExpireOp, <1>0 DEF DbusTakesUp, DbusCallingKeeps, DbusHandsTyped
  <1>12. CASE Dbus!LoopEnds
    BY <1>12, <1>0 DEF Dbus!LoopEnds, Dbus!libVars, DbusHandsTyped
  <1>13. ASSUME NEW c \in Clients, Dbus!Release(c) \/ Dbus!CloseGate(c) \/ Dbus!DiscardEntry(c) \/
               Dbus!DiscardNative(c) \/ Dbus!Released(c)
        PROVE  DbusHandsTyped'
    BY <1>13, <1>0
       DEF Dbus!Release, Dbus!libVars, Dbus!CloseGate, Dbus!DiscardEntry, Dbus!Owned, Dbus!lifeVars,
           Dbus!DiscardNative, Dbus!Released, DbusHandsTyped
  <1>14. CASE Dbus!Stop \/ Dbus!RequestStop \/ Dbus!Join
    BY <1>14, <1>0 DEF Dbus!Stop, Dbus!libVars, Dbus!RequestStop, Dbus!Join, DbusHandsTyped
  <1>15. CASE UNCHANGED Dbus!vars
    BY <1>15, <1>0 DEF Dbus!vars, Dbus!lifeVars, Dbus!libVars, DbusHandsTyped
  <1> QED
    BY <1>1, <1>2, <1>3, <1>4, <1>5, <1>6, <1>7, <1>8, <1>9, <1>10, <1>11, <1>12, <1>13, <1>14,
       <1>15
       DEF Dbus!Next, Dbus!Complete, Dbus!Calling, Dbus!Draining

\* The sizes in DbusCalls are those of finite sets.
LEMMA DbusSizes == \A S : Dbus!Cardinality(S) = Cardinality(S)
  BY DEF Dbus!Cardinality, Cardinality

\* The ledger never holds more than its limit: a finite set of slots grows by one
\* below the limit, and shrinks otherwise.
LEMMA DbusSlotsStep ==
  ASSUME Dbus!CallsAssumption, DbusTyped, [Dbus!Next]_(Dbus!vars)
  PROVE  IsFiniteSet(slots') /\ Cardinality(slots') <= MaxPending
  <1>1. IsFiniteSet(slots) /\ Cardinality(slots) \in Nat /\ Cardinality(slots) <= MaxPending
    BY DbusSizes, FS_CardinalityType DEF DbusTyped, Dbus!TypeOK
  <1>2. ASSUME slots' \subseteq slots PROVE IsFiniteSet(slots') /\ Cardinality(slots') <= MaxPending
    <2>1. /\ IsFiniteSet(slots') /\ Cardinality(slots') <= Cardinality(slots)
          /\ Cardinality(slots') \in Nat
      BY <1>1, <1>2, FS_Subset, FS_CardinalityType
    <2> QED
      BY <1>1, <2>1 DEF Dbus!CallsAssumption
  <1>3. ASSUME NEW c \in Clients, NEW r \in Requests, Dbus!Begin(c, r)
        PROVE  IsFiniteSet(slots') /\ Cardinality(slots') <= MaxPending
    <2>1. slots' = slots \cup {r} /\ Cardinality(slots) < MaxPending
      BY DbusSizes, <1>3 DEF Dbus!Begin
    <2>2. /\ IsFiniteSet(slots \cup {r})
          /\ \/ Cardinality(slots \cup {r}) = Cardinality(slots)
             \/ Cardinality(slots \cup {r}) = Cardinality(slots) + 1
      BY <1>1, FS_AddElement
    <2> QED
      BY <1>1, <2>1, <2>2 DEF Dbus!CallsAssumption
  <1>4. ASSUME ~ \E c \in Clients, r \in Requests : Dbus!Begin(c, r)
        PROVE  slots' \subseteq slots
    <2>1. ASSUME NEW a \in Dbus!Completers,
                 Dbus!TakeEntry(a) \/ Dbus!ReleaseSlot(a) \/ Dbus!PostResult(a)
          PROVE  slots' \subseteq slots
      BY <2>1 DEF Dbus!TakeEntry, Dbus!lifeVars, Dbus!libVars, Dbus!ReleaseSlot, Dbus!PostResult
    <2>2. CASE Dbus!RunTask \/ Dbus!StartCallback
      BY <2>2 DEF Dbus!RunTask, Dbus!StartCallback, Dbus!lifeVars, Dbus!libVars
    <2>3. ASSUME NEW c \in Clients, NEW r \in Requests, Dbus!Begin(c, r)
          PROVE  slots' \subseteq slots
      BY <1>4, <2>3
    <2>4. ASSUME NEW c \in Clients, NEW r \in Requests, Dbus!Cancel(c, r)
          PROVE  slots' \subseteq slots
      BY <2>4 DEF Dbus!Cancel, Dbus!lifeVars
    <2>5. CASE Dbus!Send \/ Dbus!Retain \/ Dbus!SetNotify
      BY <2>5 DEF Dbus!Send, Dbus!lifeVars, Dbus!Retain, Dbus!SetNotify
    <2>6. ASSUME NEW r \in Requests, Dbus!DispatchReply(r) \/ Dbus!Expire(r)
          PROVE  slots' \subseteq slots
      BY <2>6 DEF Dbus!DispatchReply, Dbus!lifeVars, Dbus!Expire
    <2>7. CASE Dbus!LoopEnds
      BY <2>7 DEF Dbus!LoopEnds, Dbus!libVars
    <2>8. ASSUME NEW c \in Clients, Dbus!Release(c) \/ Dbus!CloseGate(c) \/ Dbus!DiscardEntry(c) \/
                 Dbus!DiscardNative(c) \/ Dbus!Released(c)
          PROVE  slots' \subseteq slots
      BY <2>8
         DEF Dbus!Release, Dbus!libVars, Dbus!CloseGate, Dbus!DiscardEntry, Dbus!Owned,
             Dbus!lifeVars, Dbus!DiscardNative, Dbus!Released
    <2>9. CASE Dbus!Stop \/ Dbus!RequestStop \/ Dbus!Join
      BY <2>9 DEF Dbus!Stop, Dbus!libVars, Dbus!RequestStop, Dbus!Join
    <2>10. CASE UNCHANGED Dbus!vars
      BY <2>10 DEF Dbus!vars, Dbus!lifeVars, Dbus!libVars
    <2> QED
      BY <2>1, <2>2, <2>3, <2>4, <2>5, <2>6, <2>7, <2>8, <2>9, <2>10
         DEF Dbus!Next, Dbus!Complete, Dbus!Calling, Dbus!Draining
  <1> QED
    BY <1>2, <1>3, <1>4

\* Every step keeps the type invariant.
LEMMA DbusTypeStep ==
  ASSUME Dbus!CallsAssumption, DbusTyped, [Dbus!Next]_(Dbus!vars)
  PROVE  Dbus!TypeOK'
  <1>0. DbusHandsTyped' /\ Cardinality(slots') <= MaxPending
    BY DbusHandsStep, DbusSlotsStep
  <1> USE DEF DbusTyped, Dbus!TypeOK, DbusHandsTyped
  <1>1. ASSUME NEW a \in Dbus!Completers, Dbus!TakeEntry(a) PROVE Dbus!TypeOK'
    BY <1>1, <1>0, DbusInHand DEF Dbus!TakeEntry, Dbus!lifeVars, Dbus!libVars
  <1>2. ASSUME NEW a \in Dbus!Completers, Dbus!ReleaseSlot(a) PROVE Dbus!TypeOK'
    BY DbusSizes, <1>2, <1>0, DbusInHand DEF Dbus!ReleaseSlot, Dbus!lifeVars, Dbus!libVars
  <1>3. ASSUME NEW a \in Dbus!Completers, Dbus!PostResult(a) PROVE Dbus!TypeOK'
    BY <1>3, <1>0, DbusInHand DEF Dbus!PostResult, Dbus!lifeVars, Dbus!libVars, Dbus!Codes
  <1>4. CASE Dbus!RunTask \/ Dbus!StartCallback
    BY <1>4, <1>0 DEF Dbus!RunTask, Dbus!StartCallback, Dbus!lifeVars, Dbus!libVars
  <1>5. ASSUME NEW c \in Clients, NEW r \in Requests, Dbus!Begin(c, r) PROVE Dbus!TypeOK'
    BY DbusSizes, <1>5, <1>0 DEF Dbus!Begin, Dbus!lifeVars, Dbus!libVars
  <1>6. ASSUME NEW c \in Clients, NEW r \in Requests, Dbus!Cancel(c, r) PROVE Dbus!TypeOK'
    BY <1>6, <1>0 DEF Dbus!Cancel, Dbus!lifeVars
  <1>7. CASE Dbus!Send
    BY <1>7, <1>0, DbusInHand DEF Dbus!Send, Dbus!lifeVars, Dbus!Fail, Dbus!NoCall
  <1>8. CASE Dbus!Retain
    BY <1>8, <1>0, DbusInHand DEF Dbus!Retain, Dbus!lifeVars, Dbus!Fail, Dbus!NoCall
  <1>9. CASE Dbus!SetNotify
    BY <1>9, <1>0, DbusInHand DEF Dbus!SetNotify, Dbus!lifeVars, Dbus!Fail, Dbus!NoCall
  <1>10. ASSUME NEW r \in Requests, Dbus!DispatchReply(r) PROVE Dbus!TypeOK'
    BY <1>10, <1>0 DEF Dbus!DispatchReply, Dbus!lifeVars
  <1>11. ASSUME NEW r \in Requests, Dbus!Expire(r) PROVE Dbus!TypeOK'
    BY <1>11, <1>0 DEF Dbus!Expire, Dbus!lifeVars
  <1>12. CASE Dbus!LoopEnds
    BY <1>12, <1>0 DEF Dbus!LoopEnds, Dbus!libVars
  <1>13. ASSUME NEW c \in Clients, Dbus!Release(c) PROVE Dbus!TypeOK'
    BY <1>13, <1>0 DEF Dbus!Release, Dbus!libVars
  <1>14. ASSUME NEW c \in Clients, Dbus!CloseGate(c) PROVE Dbus!TypeOK'
    BY <1>14, <1>0 DEF Dbus!CloseGate, Dbus!libVars
  <1>15. ASSUME NEW c \in Clients, Dbus!DiscardEntry(c) PROVE Dbus!TypeOK'
    BY DbusSizes, <1>15, <1>0 DEF Dbus!DiscardEntry, Dbus!Owned, Dbus!lifeVars, Dbus!libVars
  <1>16. ASSUME NEW c \in Clients, Dbus!DiscardNative(c) PROVE Dbus!TypeOK'
    BY <1>16, <1>0 DEF Dbus!DiscardNative, Dbus!Owned, Dbus!lifeVars
  <1>17. ASSUME NEW c \in Clients, Dbus!Released(c) PROVE Dbus!TypeOK'
    BY <1>17, <1>0 DEF Dbus!Released, Dbus!Owned, Dbus!libVars
  <1>18. CASE Dbus!Stop
    BY <1>18, <1>0 DEF Dbus!Stop, Dbus!libVars
  <1>19. CASE Dbus!RequestStop
    BY <1>19, <1>0 DEF Dbus!RequestStop, Dbus!libVars
  <1>20. CASE Dbus!Join
    BY <1>20, <1>0 DEF Dbus!Join, Dbus!libVars
  <1>21. CASE UNCHANGED Dbus!vars
    BY <1>21, <1>0 DEF Dbus!vars, Dbus!lifeVars, Dbus!libVars
  <1> QED
    BY <1>1, <1>2, <1>3, <1>4, <1>5, <1>6, <1>7, <1>8, <1>9, <1>10, <1>11, <1>12, <1>13, <1>14,
       <1>15, <1>16, <1>17, <1>18, <1>19, <1>20, <1>21
       DEF Dbus!Next, Dbus!Complete, Dbus!Calling, Dbus!Draining

\* Whoever has nothing in hand is idle, whoever makes a call completes nothing.
LEMMA DbusFormsStep ==
  ASSUME Dbus!CallsAssumption, DbusTyped, [Dbus!Next]_(Dbus!vars)
  PROVE  DbusForms'
  <1>0. /\ DbusForms /\ 0 \notin Requests
        /\ "io" \in Dbus!Completers /\ "caller" \in Dbus!Completers /\ "io" # "caller"
    BY DEF DbusTyped, Dbus!Completers, Dbus!CallsAssumption
  <1>1. ASSUME NEW a \in Dbus!Completers, Dbus!TakeEntry(a) PROVE DbusForms'
    BY <1>1, DbusTakeEntryOp, <1>0, DbusInHand DEF DbusHolds, DbusCompletingKeeps, DbusForms
  <1>2. ASSUME NEW a \in Dbus!Completers, Dbus!ReleaseSlot(a) PROVE DbusForms'
    BY <1>2, DbusReleaseSlotOp, <1>0, DbusInHand DEF DbusHolds, DbusCompletingKeeps, DbusForms
  <1>3. ASSUME NEW a \in Dbus!Completers, Dbus!PostResult(a) PROVE DbusForms'
    BY <1>3, DbusPostResultOp, <1>0, DbusInHand DEF DbusHolds, DbusCompletingKeeps, DbusForms
  <1>4. CASE Dbus!RunTask \/ Dbus!StartCallback
    BY <1>4, <1>0, DbusInHand
       DEF Dbus!RunTask, Dbus!StartCallback, Dbus!lifeVars, Dbus!libVars, DbusForms
  <1>5. ASSUME NEW c \in Clients, NEW r \in Requests, Dbus!Begin(c, r) PROVE DbusForms'
    BY <1>5, <1>0, DbusInHand, DbusMutexIsFree
       DEF Dbus!Begin, Dbus!lifeVars, Dbus!libVars, DbusForms
  <1>6. ASSUME NEW c \in Clients, NEW r \in Requests, Dbus!Cancel(c, r) PROVE DbusForms'
    BY <1>6, DbusCancelOp, <1>0, DbusInHand DEF DbusTakesUp, DbusCallingKeeps, DbusForms
  <1>7. CASE Dbus!Send
    BY <1>7, DbusSendOp, <1>0, DbusInHand DEF DbusTakesUp, DbusCallingKeeps, DbusForms
  <1>8. CASE Dbus!Retain
    BY <1>8, DbusRetainOp, <1>0, DbusInHand DEF DbusTakesUp, DbusCallingKeeps, DbusForms
  <1>9. CASE Dbus!SetNotify
    BY <1>9, DbusSetNotifyOp, <1>0, DbusInHand DEF DbusTakesUp, DbusCallingKeeps, DbusForms
  <1>10. ASSUME NEW r \in Requests, Dbus!DispatchReply(r) PROVE DbusForms'
    BY <1>10, DbusDispatchReplyOp, <1>0, DbusInHand DEF DbusTakesUp, DbusCallingKeeps, DbusForms
  <1>11. ASSUME NEW r \in Requests, Dbus!Expire(r) PROVE DbusForms'
    BY <1>11, DbusExpireOp, <1>0, DbusInHand DEF DbusTakesUp, DbusCallingKeeps, DbusForms
  <1>12. CASE Dbus!LoopEnds
    BY <1>12, <1>0, DbusInHand DEF Dbus!LoopEnds, Dbus!libVars, DbusForms
  <1>13. ASSUME NEW c \in Clients, Dbus!Release(c) \/ Dbus!CloseGate(c) \/ Dbus!DiscardEntry(c) \/
               Dbus!DiscardNative(c) \/ Dbus!Released(c)
        PROVE  DbusForms'
    BY <1>13, <1>0, DbusInHand
       DEF Dbus!Release, Dbus!libVars, Dbus!CloseGate, Dbus!DiscardEntry, Dbus!Owned, Dbus!lifeVars,
           Dbus!DiscardNative, Dbus!Released, DbusForms
  <1>14. CASE Dbus!Stop \/ Dbus!RequestStop \/ Dbus!Join
    BY <1>14, <1>0, DbusInHand DEF Dbus!Stop, Dbus!libVars, Dbus!RequestStop, Dbus!Join, DbusForms
  <1>15. CASE UNCHANGED Dbus!vars
    BY <1>15, <1>0, DbusInHand DEF Dbus!vars, Dbus!lifeVars, Dbus!libVars, DbusForms
  <1> QED
    BY <1>1, <1>2, <1>3, <1>4, <1>5, <1>6, <1>7, <1>8, <1>9, <1>10, <1>11, <1>12, <1>13, <1>14,
       <1>15
       DEF Dbus!Next, Dbus!Complete, Dbus!Calling, Dbus!Draining
-----------------------------------------------------------------------------
(***************************************************************************)
(* Ids and clients.                                                         *)
(***************************************************************************)
\* An id that was not given out is nowhere.
DbusKnown ==
    \A r \in Requests : owner[r] = "nobody" =>
       /\ r \notin entry \cup slots \cup native \cup admitted \cup heard
       /\ call.req # r
       /\ \A a \in Dbus!Completers : hand[a].req # r
       /\ \A t \in posted : t.req # r

\* The client of a call being made stays until it is made; who leaves is no member
\* and has not left before; a gate is open for members and for those who are
\* about to close it.
DbusLeavers ==
    /\ call.step # "none" => owner[call.req] \in members
    /\ gone \cap members = {}
    /\ \A c \in Clients : leaving[c] # "idle" => c \notin members \cup gone
    /\ \A c \in gate : c \in members \/ leaving[c] = "gate"

\* Whatever is begun gets an id that was not given out.
LEMMA DbusKnownStep ==
  ASSUME Dbus!CallsAssumption, DbusTyped, DbusKnown, [Dbus!Next]_(Dbus!vars)
  PROVE  DbusKnown'
  <1>0. 0 \notin Requests /\ "nobody" \notin Clients /\ "io" \in Dbus!Completers
    BY DEF Dbus!CallsAssumption, Dbus!Completers
  <1> USE DEF DbusKnown
  <1>1. ASSUME NEW a \in Dbus!Completers, Dbus!TakeEntry(a) PROVE DbusKnown'
    BY <1>1, DbusTakeEntryOp, DbusInHand, <1>0 DEF DbusHolds, DbusCompletingKeeps
  <1>2. ASSUME NEW a \in Dbus!Completers, Dbus!ReleaseSlot(a) PROVE DbusKnown'
    BY <1>2, DbusReleaseSlotOp, DbusInHand, <1>0 DEF DbusHolds, DbusCompletingKeeps
  <1>3. ASSUME NEW a \in Dbus!Completers, Dbus!PostResult(a) PROVE DbusKnown'
    BY <1>3, DbusPostResultOp, DbusInHand, <1>0 DEF DbusHolds, DbusCompletingKeeps
  <1>4. CASE Dbus!RunTask \/ Dbus!StartCallback
    BY <1>4, DbusInHand, <1>0 DEF Dbus!RunTask, Dbus!StartCallback, Dbus!lifeVars, Dbus!libVars
  <1>5. ASSUME NEW c \in Clients, NEW r \in Requests, Dbus!Begin(c, r) PROVE DbusKnown'
    <2>1. /\ owner[r] = "nobody" /\ owner'[r] = c /\ call'.req = r /\ c \in members
          /\ \A q \in Requests \ {r} : owner'[q] = owner[q]
          /\ call.step = "none" /\ call.req = 0
      BY <1>5, DbusMutexIsFree DEF Dbus!Begin, DbusTyped, Dbus!TypeOK, DbusForms
    <2>2. /\ entry' = entry \cup {r} /\ slots' = slots \cup {r} /\ gate' = gate \cup {c}
          /\ UNCHANGED <<surfaceClosing, members, gone, leaving, native, hand, posted, admitted,
                         heard>>
      BY <1>5 DEF Dbus!Begin, Dbus!lifeVars
    <2> QED
      BY <1>0, <2>1, <2>2, DbusInHand
  <1>6. ASSUME NEW c \in Clients, NEW r \in Requests, Dbus!Cancel(c, r) PROVE DbusKnown'
    BY <1>6, DbusCancelOp, DbusInHand, <1>0 DEF DbusTakesUp, DbusCallingKeeps
  <1>7. CASE Dbus!Send
    BY <1>7, DbusSendOp, DbusInHand, <1>0 DEF DbusTakesUp, DbusCallingKeeps
  <1>8. CASE Dbus!Retain
    BY <1>8, DbusRetainOp, DbusInHand, <1>0 DEF DbusTakesUp, DbusCallingKeeps
  <1>9. CASE Dbus!SetNotify
    BY <1>9, DbusSetNotifyOp, DbusInHand, <1>0 DEF DbusTakesUp, DbusCallingKeeps
  <1>10. ASSUME NEW r \in Requests, Dbus!DispatchReply(r) PROVE DbusKnown'
    BY <1>10, DbusDispatchReplyOp, DbusInHand, <1>0 DEF DbusTakesUp, DbusCallingKeeps
  <1>11. ASSUME NEW r \in Requests, Dbus!Expire(r) PROVE DbusKnown'
    BY <1>11, DbusExpireOp, DbusInHand, <1>0 DEF DbusTakesUp, DbusCallingKeeps
  <1>12. CASE Dbus!LoopEnds
    BY <1>12, DbusInHand, <1>0 DEF Dbus!LoopEnds, Dbus!libVars
  <1>13. ASSUME NEW c \in Clients, Dbus!Release(c) \/ Dbus!CloseGate(c) \/ Dbus!DiscardEntry(c) \/
               Dbus!DiscardNative(c) \/ Dbus!Released(c)
        PROVE  DbusKnown'
    BY <1>13, DbusInHand, <1>0
       DEF Dbus!Release, Dbus!libVars, Dbus!CloseGate, Dbus!DiscardEntry, Dbus!Owned, Dbus!lifeVars,
           Dbus!DiscardNative, Dbus!Released
  <1>14. CASE Dbus!Stop \/ Dbus!RequestStop \/ Dbus!Join
    BY <1>14, DbusInHand, <1>0 DEF Dbus!Stop, Dbus!libVars, Dbus!RequestStop, Dbus!Join
  <1>15. CASE UNCHANGED Dbus!vars
    BY <1>15, DbusInHand, <1>0 DEF Dbus!vars, Dbus!lifeVars, Dbus!libVars
  <1> QED
    BY <1>1, <1>2, <1>3, <1>4, <1>5, <1>6, <1>7, <1>8, <1>9, <1>10, <1>11, <1>12, <1>13, <1>14,
       <1>15
       DEF Dbus!Next, Dbus!Complete, Dbus!Calling, Dbus!Draining

\* A release waits for the mutex before it takes its client from the members.
LEMMA DbusLeaversStep ==
  ASSUME Dbus!CallsAssumption, DbusTyped, DbusKnown, DbusLeavers, [Dbus!Next]_(Dbus!vars)
  PROVE  DbusLeavers'
  <1> USE DEF DbusLeavers
  <1>1. ASSUME NEW a \in Dbus!Completers,
               Dbus!TakeEntry(a) \/ Dbus!ReleaseSlot(a) \/ Dbus!PostResult(a)
        PROVE  DbusLeavers'
    BY <1>1
       DEF Dbus!TakeEntry, Dbus!lifeVars, Dbus!libVars, Dbus!ReleaseSlot, Dbus!PostResult,
           DbusTyped, Dbus!TypeOK
  <1>2. CASE Dbus!RunTask \/ Dbus!StartCallback
    BY <1>2
       DEF Dbus!RunTask, Dbus!StartCallback, Dbus!lifeVars, Dbus!libVars, DbusTyped, Dbus!TypeOK
  <1>3. ASSUME NEW c \in Clients, NEW r \in Requests, Dbus!Begin(c, r) PROVE DbusLeavers'
    BY <1>3, DbusMutexIsFree
       DEF Dbus!Begin, Dbus!lifeVars, Dbus!libVars, DbusTyped, Dbus!TypeOK, DbusKnown
  <1>4. ASSUME NEW c \in Clients, NEW r \in Requests, Dbus!Cancel(c, r) PROVE DbusLeavers'
    BY <1>4 DEF Dbus!Cancel, Dbus!lifeVars, DbusTyped, Dbus!TypeOK
  <1>5. CASE Dbus!Send
    BY <1>5, DbusInHand DEF Dbus!Send, Dbus!lifeVars, DbusTyped, Dbus!TypeOK, Dbus!NoCall, Dbus!Fail
  <1>6. CASE Dbus!Retain
    BY <1>6, DbusInHand
       DEF Dbus!Retain, Dbus!lifeVars, DbusTyped, Dbus!TypeOK, Dbus!NoCall, Dbus!Fail
  <1>7. CASE Dbus!SetNotify
    BY <1>7, DbusInHand
       DEF Dbus!SetNotify, Dbus!lifeVars, DbusTyped, Dbus!TypeOK, Dbus!NoCall, Dbus!Fail
  <1>8. ASSUME NEW r \in Requests, Dbus!DispatchReply(r) \/ Dbus!Expire(r) PROVE DbusLeavers'
    BY <1>8 DEF Dbus!DispatchReply, Dbus!lifeVars, Dbus!Expire, DbusTyped, Dbus!TypeOK
  <1>9. CASE Dbus!LoopEnds
    BY <1>9 DEF Dbus!LoopEnds, Dbus!libVars, DbusTyped, Dbus!TypeOK
  <1>10. ASSUME NEW c \in Clients, Dbus!Release(c) PROVE DbusLeavers'
    BY <1>10, DbusMutexIsFree DEF Dbus!Release, Dbus!libVars, DbusTyped, Dbus!TypeOK
  <1>11. ASSUME NEW c \in Clients, Dbus!CloseGate(c) PROVE DbusLeavers'
    BY <1>11 DEF Dbus!CloseGate, Dbus!libVars, DbusTyped, Dbus!TypeOK
  <1>12. ASSUME NEW c \in Clients, Dbus!DiscardEntry(c) \/ Dbus!DiscardNative(c) PROVE DbusLeavers'
    BY <1>12
       DEF Dbus!DiscardEntry, Dbus!Owned, Dbus!lifeVars, Dbus!libVars, Dbus!DiscardNative,
           DbusTyped, Dbus!TypeOK
  <1>13. ASSUME NEW c \in Clients, Dbus!Released(c) PROVE DbusLeavers'
    BY <1>13 DEF Dbus!Released, Dbus!Owned, Dbus!libVars, DbusTyped, Dbus!TypeOK
  <1>14. CASE Dbus!Stop
    BY <1>14, DbusMutexIsFree DEF Dbus!Stop, Dbus!libVars, DbusTyped, Dbus!TypeOK
  <1>15. CASE Dbus!RequestStop \/ Dbus!Join
    BY <1>15 DEF Dbus!RequestStop, Dbus!libVars, Dbus!Join, DbusTyped, Dbus!TypeOK
  <1>16. CASE UNCHANGED Dbus!vars
    BY <1>16 DEF Dbus!vars, Dbus!lifeVars, Dbus!libVars, DbusTyped, Dbus!TypeOK
  <1> QED
    BY <1>1, <1>2, <1>3, <1>4, <1>5, <1>6, <1>7, <1>8, <1>9, <1>10, <1>11, <1>12, <1>13, <1>14,
       <1>15, <1>16
       DEF Dbus!Next, Dbus!Complete, Dbus!Calling, Dbus!Draining
-----------------------------------------------------------------------------
(***************************************************************************)
(* Completing a request.                                                    *)
(***************************************************************************)
\* Thread a has taken the entry of what it has in hand.
DbusHasTaken(a) == hand[a].step \in {"release", "post"}

\* What was taken out of the set is in one hand and was neither posted nor told, nor
\* has it passed the gate.
DbusTaken ==
    \A a \in Dbus!Completers : DbusHasTaken(a) =>
       /\ hand[a].req \notin entry \cup admitted \cup heard
       /\ \A t \in posted : t.req # hand[a].req
       /\ \A b \in Dbus!Completers : DbusHasTaken(b) /\ hand[b].req = hand[a].req => b = a

\* What was posted was taken out of the set, is posted once and not told yet; nor is
\* what has passed the gate.
DbusPosted ==
    /\ heard \cap entry = {} /\ admitted \cap (entry \cup heard) = {}
    /\ \A t \in posted : t.req \notin entry \cup admitted \cup heard
    /\ \A t, u \in posted : t.req = u.req => t = u

\* What is being installed is in the transport or in the hands of the I/O thread.
DbusNoticed ==
    call.step = "notify" /\ call.req \in entry =>
       call.req \in native \/ hand["io"].req = call.req

\* A request is taken by one thread, posted by it, and its task runs once.
LEMMA DbusTakenStep ==
  ASSUME Dbus!CallsAssumption, DbusTyped, DbusKnown, DbusTaken, DbusPosted, [Dbus!Next]_(Dbus!vars)
  PROVE  DbusTaken' /\ DbusPosted'
  <1> USE DEF DbusTaken, DbusPosted, DbusHasTaken
  <1>1. ASSUME NEW a \in Dbus!Completers, Dbus!TakeEntry(a) PROVE DbusTaken' /\ DbusPosted'
    BY <1>1, DbusTakeEntryOp, DbusInHand DEF DbusHolds, DbusCompletingKeeps
  <1>2. ASSUME NEW a \in Dbus!Completers, Dbus!ReleaseSlot(a) PROVE DbusTaken' /\ DbusPosted'
    BY <1>2, DbusReleaseSlotOp, DbusInHand DEF DbusHolds, DbusCompletingKeeps
  <1>3. ASSUME NEW a \in Dbus!Completers, Dbus!PostResult(a) PROVE DbusTaken' /\ DbusPosted'
    BY <1>3, DbusPostResultOp, DbusInHand DEF DbusHolds, DbusCompletingKeeps
  <1>4. CASE Dbus!RunTask \/ Dbus!StartCallback
    BY <1>4, DbusInHand DEF Dbus!RunTask, Dbus!StartCallback, Dbus!lifeVars, Dbus!libVars
  <1>5. ASSUME NEW c \in Clients, NEW r \in Requests, Dbus!Begin(c, r)
        PROVE  DbusTaken' /\ DbusPosted'
    BY <1>5, DbusInHand DEF Dbus!Begin, Dbus!lifeVars, Dbus!libVars, DbusKnown
  <1>6. ASSUME NEW c \in Clients, NEW r \in Requests, Dbus!Cancel(c, r)
        PROVE  DbusTaken' /\ DbusPosted'
    BY <1>6, DbusCancelOp, DbusInHand DEF DbusTakesUp, DbusCallingKeeps
  <1>7. CASE Dbus!Send
    BY <1>7, DbusSendOp, DbusInHand DEF DbusTakesUp, DbusCallingKeeps
  <1>8. CASE Dbus!Retain
    BY <1>8, DbusRetainOp, DbusInHand DEF DbusTakesUp, DbusCallingKeeps
  <1>9. CASE Dbus!SetNotify
    BY <1>9, DbusSetNotifyOp, DbusInHand DEF DbusTakesUp, DbusCallingKeeps
  <1>10. ASSUME NEW r \in Requests, Dbus!DispatchReply(r) PROVE DbusTaken' /\ DbusPosted'
    BY <1>10, DbusDispatchReplyOp, DbusInHand DEF DbusTakesUp, DbusCallingKeeps
  <1>11. ASSUME NEW r \in Requests, Dbus!Expire(r) PROVE DbusTaken' /\ DbusPosted'
    BY <1>11, DbusExpireOp, DbusInHand DEF DbusTakesUp, DbusCallingKeeps
  <1>12. CASE Dbus!LoopEnds
    BY <1>12, DbusInHand DEF Dbus!LoopEnds, Dbus!libVars
  <1>13. ASSUME NEW c \in Clients, Dbus!Release(c) \/ Dbus!CloseGate(c) \/ Dbus!DiscardEntry(c) \/
               Dbus!DiscardNative(c) \/ Dbus!Released(c)
        PROVE  DbusTaken' /\ DbusPosted'
    BY <1>13, DbusInHand
       DEF Dbus!Release, Dbus!libVars, Dbus!CloseGate, Dbus!DiscardEntry, Dbus!Owned, Dbus!lifeVars,
           Dbus!DiscardNative, Dbus!Released
  <1>14. CASE Dbus!Stop \/ Dbus!RequestStop \/ Dbus!Join
    BY <1>14, DbusInHand DEF Dbus!Stop, Dbus!libVars, Dbus!RequestStop, Dbus!Join
  <1>15. CASE UNCHANGED Dbus!vars
    BY <1>15, DbusInHand DEF Dbus!vars, Dbus!lifeVars, Dbus!libVars
  <1> QED
    BY <1>1, <1>2, <1>3, <1>4, <1>5, <1>6, <1>7, <1>8, <1>9, <1>10, <1>11, <1>12, <1>13, <1>14,
       <1>15
       DEF Dbus!Next, Dbus!Complete, Dbus!Calling, Dbus!Draining

\* The ledger and the set agree request by request.
LEMMA DbusOneByOne ==
  ASSUME DbusTyped
  PROVE  Dbus!CapacityAgrees <=>
            \A r \in Requests :
               r \in slots <=> \/ r \in entry
                               \/ \E a \in Dbus!Completers : /\ hand[a].step = "release"
                                                             /\ hand[a].req = r
  <1>1. slots \subseteq Requests /\ entry \subseteq Requests
    BY DEF DbusTyped, Dbus!TypeOK
  <1> QED
    BY <1>1, DbusInHand DEF Dbus!CapacityAgrees

\* Capacity is given back by the thread that took the entry.
LEMMA DbusCapacityStep ==
  ASSUME Dbus!CallsAssumption, DbusTyped, DbusKnown, DbusTaken, Dbus!CapacityAgrees,
         [Dbus!Next]_(Dbus!vars), DbusTyped'
  PROVE  Dbus!CapacityAgrees'
  <1>0. \A r \in Requests :
           r \in slots <=> \/ r \in entry
                           \/ \E a \in Dbus!Completers : hand[a].step = "release" /\ hand[a].req = r
    BY DbusOneByOne
  <1>a. SUFFICES
           \A r \in Requests :
              r \in slots' <=> \/ r \in entry'
                               \/ \E a \in Dbus!Completers : /\ hand'[a].step = "release"
                                                             /\ hand'[a].req = r
    <2>1. /\ slots' \subseteq Requests /\ entry' \subseteq Requests
          /\ \A a \in Dbus!Completers : hand'[a].step = "release" => hand'[a].req \in Requests
      BY DEF DbusTyped, Dbus!TypeOK, DbusForms, Dbus!Hands
    <2> QED
      BY <2>1 DEF Dbus!CapacityAgrees
  <1> DEFINE Agree == \A r \in Requests :
                         r \in slots' <=>
                            \/ r \in entry'
                            \/ \E a \in Dbus!Completers : /\ hand'[a].step = "release"
                                                          /\ hand'[a].req = r
  <1>1. ASSUME NEW a \in Dbus!Completers, Dbus!TakeEntry(a) PROVE Agree
    BY <1>1, DbusTakeEntryOp, <1>0, DbusInHand
       DEF DbusHolds, DbusCompletingKeeps, DbusTaken, DbusHasTaken
  <1>2. ASSUME NEW a \in Dbus!Completers, Dbus!ReleaseSlot(a) PROVE Agree
    BY <1>2, DbusReleaseSlotOp, <1>0, DbusInHand
       DEF DbusHolds, DbusCompletingKeeps, DbusTaken, DbusHasTaken
  <1>3. ASSUME NEW a \in Dbus!Completers, Dbus!PostResult(a) PROVE Agree
    BY <1>3, DbusPostResultOp, <1>0, DbusInHand DEF DbusHolds, DbusCompletingKeeps
  <1>4. CASE Dbus!RunTask \/ Dbus!StartCallback
    BY <1>4, <1>0, DbusInHand DEF Dbus!RunTask, Dbus!StartCallback, Dbus!lifeVars, Dbus!libVars
  <1>5. ASSUME NEW c \in Clients, NEW r \in Requests, Dbus!Begin(c, r) PROVE Agree
    BY <1>5, <1>0, DbusInHand DEF Dbus!Begin, Dbus!lifeVars, Dbus!libVars
  <1>6. ASSUME NEW c \in Clients, NEW r \in Requests, Dbus!Cancel(c, r) PROVE Agree
    BY <1>6, DbusCancelOp, <1>0, DbusInHand DEF DbusTakesUp, DbusCallingKeeps
  <1>7. CASE Dbus!Send
    BY <1>7, DbusSendOp, <1>0, DbusInHand DEF DbusTakesUp, DbusCallingKeeps
  <1>8. CASE Dbus!Retain
    BY <1>8, DbusRetainOp, <1>0, DbusInHand DEF DbusTakesUp, DbusCallingKeeps
  <1>9. CASE Dbus!SetNotify
    BY <1>9, DbusSetNotifyOp, <1>0, DbusInHand DEF DbusTakesUp, DbusCallingKeeps
  <1>10. ASSUME NEW r \in Requests, Dbus!DispatchReply(r) PROVE Agree
    BY <1>10, DbusDispatchReplyOp, <1>0, DbusInHand DEF DbusTakesUp, DbusCallingKeeps
  <1>11. ASSUME NEW r \in Requests, Dbus!Expire(r) PROVE Agree
    BY <1>11, DbusExpireOp, <1>0, DbusInHand DEF DbusTakesUp, DbusCallingKeeps
  <1>12. CASE Dbus!LoopEnds
    BY <1>12, <1>0, DbusInHand DEF Dbus!LoopEnds, Dbus!libVars
  <1>13. ASSUME NEW c \in Clients, Dbus!Release(c) \/ Dbus!CloseGate(c) \/ Dbus!DiscardNative(c) \/
               Dbus!Released(c)
        PROVE  Agree
    BY <1>13, <1>0, DbusInHand
       DEF Dbus!Release, Dbus!libVars, Dbus!CloseGate, Dbus!DiscardNative, Dbus!Owned,
           Dbus!lifeVars, Dbus!Released
  <1>14. ASSUME NEW c \in Clients, Dbus!DiscardEntry(c) PROVE Agree
    BY <1>14, <1>0, DbusInHand
       DEF Dbus!DiscardEntry, Dbus!Owned, Dbus!lifeVars, Dbus!libVars, DbusTaken, DbusHasTaken
  <1>15. CASE Dbus!Stop \/ Dbus!RequestStop \/ Dbus!Join
    BY <1>15, <1>0, DbusInHand DEF Dbus!Stop, Dbus!libVars, Dbus!RequestStop, Dbus!Join
  <1>16. CASE UNCHANGED Dbus!vars
    BY <1>16, <1>0, DbusInHand DEF Dbus!vars, Dbus!lifeVars, Dbus!libVars
  <1> QED
    BY <1>1, <1>2, <1>3, <1>4, <1>5, <1>6, <1>7, <1>8, <1>9, <1>10, <1>11, <1>12, <1>13, <1>14,
       <1>15, <1>16
       DEF Dbus!Next, Dbus!Complete, Dbus!Calling, Dbus!Draining

\* A call that is being made is still in the transport when it is made.
LEMMA DbusNoticedStep ==
  ASSUME Dbus!CallsAssumption, DbusTyped, DbusNoticed, DbusTaken, [Dbus!Next]_(Dbus!vars)
  PROVE  DbusNoticed'
  <1>0. /\ 0 \notin Requests /\ "io" \in Dbus!Completers /\ "caller" \in Dbus!Completers
        /\ "io" # "caller"
    BY DEF Dbus!CallsAssumption, Dbus!Completers
  <1> USE DEF DbusNoticed
  <1>1. ASSUME NEW a \in Dbus!Completers, Dbus!TakeEntry(a) PROVE DbusNoticed'
    BY <1>1, DbusTakeEntryOp, <1>0, DbusInHand DEF DbusHolds, DbusCompletingKeeps
  <1>2. ASSUME NEW a \in Dbus!Completers, Dbus!ReleaseSlot(a) PROVE DbusNoticed'
    BY <1>2, DbusReleaseSlotOp, <1>0, DbusInHand DEF DbusHolds, DbusCompletingKeeps
  <1>3. ASSUME NEW a \in Dbus!Completers, Dbus!PostResult(a) PROVE DbusNoticed'
    BY <1>3, DbusPostResultOp, <1>0, DbusInHand
       DEF DbusHolds, DbusCompletingKeeps, DbusTaken, DbusHasTaken
  <1>4. CASE Dbus!RunTask \/ Dbus!StartCallback
    BY <1>4, <1>0, DbusInHand DEF Dbus!RunTask, Dbus!StartCallback, Dbus!lifeVars, Dbus!libVars
  <1>5. ASSUME NEW c \in Clients, NEW r \in Requests, Dbus!Begin(c, r) PROVE DbusNoticed'
    <2>1. /\ owner[r] = "nobody" /\ owner'[r] = c /\ call'.req = r /\ c \in members
          /\ \A q \in Requests \ {r} : owner'[q] = owner[q]
          /\ call.step = "none" /\ call.req = 0
      BY <1>5, DbusMutexIsFree DEF Dbus!Begin, DbusTyped, Dbus!TypeOK, DbusForms
    <2>2. /\ entry' = entry \cup {r} /\ slots' = slots \cup {r} /\ gate' = gate \cup {c}
          /\ UNCHANGED <<surfaceClosing, members, gone, leaving, native, hand, posted, admitted,
                         heard>>
      BY <1>5 DEF Dbus!Begin, Dbus!lifeVars
    <2> QED
      BY <1>5, <2>1, <2>2 DEF Dbus!Begin
  <1>6. ASSUME NEW c \in Clients, NEW r \in Requests, Dbus!Cancel(c, r) PROVE DbusNoticed'
    BY <1>6, DbusCancelOp, <1>0, DbusInHand DEF DbusTakesUp, DbusCallingKeeps
  <1>7. CASE Dbus!Send
    BY <1>7, DbusSendOp, <1>0, DbusInHand DEF DbusTakesUp, DbusCallingKeeps
  <1>8. CASE Dbus!Retain
    BY <1>8, DbusRetainOp, <1>0, DbusInHand DEF DbusTakesUp, DbusCallingKeeps
  <1>9. CASE Dbus!SetNotify
    BY <1>9, DbusSetNotifyOp, <1>0, DbusInHand DEF DbusTakesUp, DbusCallingKeeps
  <1>10. ASSUME NEW r \in Requests, Dbus!DispatchReply(r) PROVE DbusNoticed'
    BY <1>10, DbusDispatchReplyOp, <1>0, DbusInHand DEF DbusTakesUp, DbusCallingKeeps
  <1>11. ASSUME NEW r \in Requests, Dbus!Expire(r) PROVE DbusNoticed'
    BY <1>11, DbusExpireOp, <1>0, DbusInHand DEF DbusTakesUp, DbusCallingKeeps
  <1>12. CASE Dbus!LoopEnds
    BY <1>12, <1>0, DbusInHand DEF Dbus!LoopEnds, Dbus!libVars
  <1>13. ASSUME NEW c \in Clients, Dbus!Release(c) \/ Dbus!CloseGate(c) \/ Dbus!DiscardEntry(c) \/
               Dbus!Released(c)
        PROVE  DbusNoticed'
    BY <1>13, <1>0, DbusInHand
       DEF Dbus!Release, Dbus!libVars, Dbus!CloseGate, Dbus!DiscardEntry, Dbus!Owned, Dbus!lifeVars,
           Dbus!Released
  <1>14. ASSUME NEW c \in Clients, Dbus!DiscardNative(c) PROVE DbusNoticed'
    BY <1>14, <1>0, DbusInHand
       DEF Dbus!DiscardNative, Dbus!Owned, Dbus!lifeVars, DbusLeavers, DbusTyped, Dbus!TypeOK
  <1>15. CASE Dbus!Stop \/ Dbus!RequestStop \/ Dbus!Join
    BY <1>15, <1>0, DbusInHand DEF Dbus!Stop, Dbus!libVars, Dbus!RequestStop, Dbus!Join
  <1>16. CASE UNCHANGED Dbus!vars
    BY <1>16, <1>0, DbusInHand DEF Dbus!vars, Dbus!lifeVars, Dbus!libVars
  <1> QED
    BY <1>1, <1>2, <1>3, <1>4, <1>5, <1>6, <1>7, <1>8, <1>9, <1>10, <1>11, <1>12, <1>13, <1>14,
       <1>15, <1>16
       DEF Dbus!Next, Dbus!Complete, Dbus!Calling, Dbus!Draining

\* Whoever takes a request out of the transport completes it.
LEMMA DbusStrandedStep ==
  ASSUME Dbus!CallsAssumption, DbusTyped, DbusKnown, DbusLeavers, DbusTaken, DbusNoticed,
         Dbus!NothingStranded, [Dbus!Next]_(Dbus!vars)
  PROVE  Dbus!NothingStranded'
  <1>0. /\ 0 \notin Requests
        /\ "io" \in Dbus!Completers /\ "caller" \in Dbus!Completers /\ "io" # "caller"
        /\ \A r \in entry : r \in Requests /\ owner[r] \in Clients
        /\ leaving \in [Clients -> {"idle", "gate", "drain"}]
    BY DEF Dbus!CallsAssumption, Dbus!Completers, DbusTyped, Dbus!TypeOK, DbusKnown
  <1> USE DEF Dbus!NothingStranded
  <1>1. ASSUME NEW a \in Dbus!Completers, Dbus!TakeEntry(a) PROVE Dbus!NothingStranded'
    BY <1>1, DbusTakeEntryOp, <1>0, DbusInHand DEF DbusHolds, DbusCompletingKeeps
  <1>2. ASSUME NEW a \in Dbus!Completers, Dbus!ReleaseSlot(a) PROVE Dbus!NothingStranded'
    BY <1>2, DbusReleaseSlotOp, <1>0, DbusInHand DEF DbusHolds, DbusCompletingKeeps
  <1>3. ASSUME NEW a \in Dbus!Completers, Dbus!PostResult(a) PROVE Dbus!NothingStranded'
    BY <1>3, DbusPostResultOp, <1>0, DbusInHand
       DEF DbusHolds, DbusCompletingKeeps, DbusTaken, DbusHasTaken
  <1>4. CASE Dbus!RunTask \/ Dbus!StartCallback
    BY <1>4, <1>0, DbusInHand DEF Dbus!RunTask, Dbus!StartCallback, Dbus!lifeVars, Dbus!libVars
  <1>5. ASSUME NEW c \in Clients, NEW r \in Requests, Dbus!Begin(c, r) PROVE Dbus!NothingStranded'
    <2>1. /\ owner[r] = "nobody" /\ owner'[r] = c /\ call'.req = r /\ c \in members
          /\ \A q \in Requests \ {r} : owner'[q] = owner[q]
          /\ call.step = "none" /\ call.req = 0
      BY <1>5, DbusMutexIsFree DEF Dbus!Begin, DbusTyped, Dbus!TypeOK, DbusForms
    <2>2. /\ entry' = entry \cup {r} /\ slots' = slots \cup {r} /\ gate' = gate \cup {c}
          /\ UNCHANGED <<surfaceClosing, members, gone, leaving, native, hand, posted, admitted,
                         heard>>
      BY <1>5 DEF Dbus!Begin, Dbus!lifeVars
    <2>3. ASSUME NEW q \in entry', q # r
          PROVE  q \in entry /\ q \in Requests /\ owner'[q] = owner[q] /\ call.req # q
      BY <1>0, <2>1, <2>2, <2>3
    <2> QED
      BY <2>1, <2>2, <2>3
  <1>6. ASSUME NEW c \in Clients, NEW r \in Requests, Dbus!Cancel(c, r) PROVE Dbus!NothingStranded'
    BY <1>6, DbusCancelOp, <1>0, DbusInHand DEF DbusTakesUp, DbusCallingKeeps
  <1>7. CASE Dbus!Send
    BY <1>7, DbusSendOp, <1>0, DbusInHand DEF DbusTakesUp, DbusCallingKeeps
  <1>8. CASE Dbus!Retain
    BY <1>8, DbusRetainOp, <1>0, DbusInHand DEF DbusTakesUp, DbusCallingKeeps
  <1>9. CASE Dbus!SetNotify
    BY <1>9, DbusSetNotifyOp, <1>0, DbusInHand DEF DbusTakesUp, DbusCallingKeeps, DbusNoticed
  <1>10. ASSUME NEW r \in Requests, Dbus!DispatchReply(r) PROVE Dbus!NothingStranded'
    BY <1>10, DbusDispatchReplyOp, <1>0, DbusInHand DEF DbusTakesUp, DbusCallingKeeps
  <1>11. ASSUME NEW r \in Requests, Dbus!Expire(r) PROVE Dbus!NothingStranded'
    BY <1>11, DbusExpireOp, <1>0, DbusInHand DEF DbusTakesUp, DbusCallingKeeps
  <1>12. CASE Dbus!LoopEnds
    BY <1>12, <1>0, DbusInHand DEF Dbus!LoopEnds, Dbus!libVars
  <1>13. ASSUME NEW c \in Clients, Dbus!Release(c) PROVE Dbus!NothingStranded'
    BY <1>13, <1>0, DbusInHand DEF Dbus!Release, Dbus!libVars
  <1>14. ASSUME NEW c \in Clients, Dbus!CloseGate(c) PROVE Dbus!NothingStranded'
    BY <1>14, <1>0, DbusInHand DEF Dbus!CloseGate, Dbus!libVars
  <1>15. ASSUME NEW c \in Clients, Dbus!DiscardEntry(c) PROVE Dbus!NothingStranded'
    BY <1>15, <1>0, DbusInHand DEF Dbus!DiscardEntry, Dbus!Owned, Dbus!lifeVars, Dbus!libVars
  <1>16. ASSUME NEW c \in Clients, Dbus!DiscardNative(c) PROVE Dbus!NothingStranded'
    BY <1>16, <1>0, DbusInHand DEF Dbus!DiscardNative, Dbus!Owned, Dbus!lifeVars
  <1>17. ASSUME NEW c \in Clients, Dbus!Released(c) PROVE Dbus!NothingStranded'
    BY <1>17, <1>0, DbusInHand DEF Dbus!Released, Dbus!Owned, Dbus!libVars
  <1>18. CASE Dbus!Stop
    BY <1>18, <1>0, DbusInHand DEF Dbus!Stop, Dbus!libVars
  <1>19. CASE Dbus!RequestStop \/ Dbus!Join
    BY <1>19, <1>0, DbusInHand DEF Dbus!RequestStop, Dbus!libVars, Dbus!Join
  <1>20. CASE UNCHANGED Dbus!vars
    BY <1>20, <1>0, DbusInHand DEF Dbus!vars, Dbus!lifeVars, Dbus!libVars
  <1> QED
    BY <1>1, <1>2, <1>3, <1>4, <1>5, <1>6, <1>7, <1>8, <1>9, <1>10, <1>11, <1>12, <1>13, <1>14,
       <1>15, <1>16, <1>17, <1>18, <1>19, <1>20
       DEF Dbus!Next, Dbus!Complete, Dbus!Calling, Dbus!Draining

\* Nothing is begun or kept for a client that is gone.
LEMMA DbusReleasedStep ==
  ASSUME Dbus!CallsAssumption, DbusTyped, DbusKnown, DbusLeavers, Dbus!ReleasedIsEmpty,
         [Dbus!Next]_(Dbus!vars)
  PROVE  Dbus!ReleasedIsEmpty'
  <1>0. /\ entry \subseteq Requests /\ native \subseteq Requests
        /\ \A c \in members : c \notin gone
    BY DEF DbusLeavers, DbusTyped, Dbus!TypeOK
  <1> USE DEF Dbus!ReleasedIsEmpty, Dbus!Owned
  <1>1. ASSUME NEW a \in Dbus!Completers, Dbus!TakeEntry(a) PROVE Dbus!ReleasedIsEmpty'
    BY <1>1, DbusTakeEntryOp, <1>0, DbusInHand DEF DbusHolds, DbusCompletingKeeps
  <1>2. ASSUME NEW a \in Dbus!Completers, Dbus!ReleaseSlot(a) PROVE Dbus!ReleasedIsEmpty'
    BY <1>2, DbusReleaseSlotOp, <1>0, DbusInHand DEF DbusHolds, DbusCompletingKeeps
  <1>3. ASSUME NEW a \in Dbus!Completers, Dbus!PostResult(a) PROVE Dbus!ReleasedIsEmpty'
    BY <1>3, DbusPostResultOp, <1>0, DbusInHand DEF DbusHolds, DbusCompletingKeeps
  <1>4. CASE Dbus!RunTask \/ Dbus!StartCallback
    BY <1>4, <1>0, DbusInHand DEF Dbus!RunTask, Dbus!StartCallback, Dbus!lifeVars, Dbus!libVars
  <1>5. ASSUME NEW c \in Clients, NEW r \in Requests, Dbus!Begin(c, r) PROVE Dbus!ReleasedIsEmpty'
    <2>1. /\ owner[r] = "nobody" /\ owner'[r] = c /\ call'.req = r /\ c \in members
          /\ \A q \in Requests \ {r} : owner'[q] = owner[q]
          /\ call.step = "none" /\ call.req = 0
      BY <1>5, DbusMutexIsFree DEF Dbus!Begin, DbusTyped, Dbus!TypeOK, DbusForms
    <2>2. /\ entry' = entry \cup {r} /\ slots' = slots \cup {r} /\ gate' = gate \cup {c}
          /\ UNCHANGED <<surfaceClosing, members, gone, leaving, native, hand, posted, admitted,
                         heard>>
      BY <1>5 DEF Dbus!Begin, Dbus!lifeVars
    <2> QED
      BY <1>0, <2>1, <2>2
  <1>6. ASSUME NEW c \in Clients, NEW r \in Requests, Dbus!Cancel(c, r) PROVE Dbus!ReleasedIsEmpty'
    BY <1>6, DbusCancelOp, <1>0, DbusInHand DEF DbusTakesUp, DbusCallingKeeps
  <1>7. CASE Dbus!Send
    BY <1>7, DbusSendOp, <1>0, DbusInHand DEF DbusTakesUp, DbusCallingKeeps
  <1>8. CASE Dbus!Retain
    BY <1>8, DbusRetainOp, <1>0, DbusInHand DEF DbusTakesUp, DbusCallingKeeps, DbusLeavers
  <1>9. CASE Dbus!SetNotify
    BY <1>9, DbusSetNotifyOp, <1>0, DbusInHand DEF DbusTakesUp, DbusCallingKeeps
  <1>10. ASSUME NEW r \in Requests, Dbus!DispatchReply(r) PROVE Dbus!ReleasedIsEmpty'
    BY <1>10, DbusDispatchReplyOp, <1>0, DbusInHand DEF DbusTakesUp, DbusCallingKeeps
  <1>11. ASSUME NEW r \in Requests, Dbus!Expire(r) PROVE Dbus!ReleasedIsEmpty'
    BY <1>11, DbusExpireOp, <1>0, DbusInHand DEF DbusTakesUp, DbusCallingKeeps
  <1>12. CASE Dbus!LoopEnds
    BY <1>12, <1>0, DbusInHand DEF Dbus!LoopEnds, Dbus!libVars
  <1>13. ASSUME NEW c \in Clients, Dbus!Release(c) \/ Dbus!DiscardEntry(c) \/ Dbus!DiscardNative(c)
        PROVE  Dbus!ReleasedIsEmpty'
    BY <1>13, <1>0, DbusInHand
       DEF Dbus!Release, Dbus!libVars, Dbus!DiscardEntry, Dbus!Owned, Dbus!lifeVars,
           Dbus!DiscardNative
  <1>14. ASSUME NEW c \in Clients, Dbus!CloseGate(c) PROVE Dbus!ReleasedIsEmpty'
    BY <1>14, <1>0, DbusInHand DEF Dbus!CloseGate, Dbus!libVars, DbusLeavers
  <1>15. ASSUME NEW c \in Clients, Dbus!Released(c) PROVE Dbus!ReleasedIsEmpty'
    BY <1>15, <1>0, DbusInHand DEF Dbus!Released, Dbus!Owned, Dbus!libVars, DbusLeavers
  <1>16. CASE Dbus!Stop \/ Dbus!RequestStop \/ Dbus!Join
    BY <1>16, <1>0, DbusInHand DEF Dbus!Stop, Dbus!libVars, Dbus!RequestStop, Dbus!Join
  <1>17. CASE UNCHANGED Dbus!vars
    BY <1>17, <1>0, DbusInHand DEF Dbus!vars, Dbus!lifeVars, Dbus!libVars
  <1> QED
    BY <1>1, <1>2, <1>3, <1>4, <1>5, <1>6, <1>7, <1>8, <1>9, <1>10, <1>11, <1>12, <1>13, <1>14,
       <1>15, <1>16, <1>17
       DEF Dbus!Next, Dbus!Complete, Dbus!Calling, Dbus!Draining
-----------------------------------------------------------------------------
(***************************************************************************)
(* The inductive invariant.                                                 *)
(***************************************************************************)
DbusIInv ==
    /\ DbusTyped
    /\ DbusKnown
    /\ DbusLeavers
    /\ DbusTaken
    /\ DbusPosted
    /\ DbusNoticed
    /\ Dbus!NothingStranded
    /\ Dbus!CapacityAgrees
    /\ Dbus!ReleasedIsEmpty

\* It holds before anything was asked for.
LEMMA DbusInvInit ==
  ASSUME Dbus!CallsAssumption, Dbus!Init
  PROVE  DbusIInv
  <1>1. /\ entry = {} /\ slots = {} /\ native = {} /\ admitted = {} /\ heard = {} /\ posted = {}
        /\ gate = {} /\ gone = {} /\ members = Clients
        /\ call.req = 0 /\ call.step = "none"
        /\ \A a \in Dbus!Completers : hand[a].req = 0 /\ hand[a].step = "none"
        /\ \A c \in Clients : leaving[c] = "idle"
    BY DEF Dbus!Init, Dbus!NoCall, Dbus!Empty
  <1>2. Dbus!Empty \in Dbus!Hands /\ Dbus!NoCall \in [req : Requests \cup {0},
                                                      step : {"none", "send", "retain", "notify"}]
    BY DEF Dbus!Empty, Dbus!NoCall, Dbus!Hands
  <1>3. IsFiniteSet(slots) /\ Cardinality(slots) = 0
    BY <1>1, FS_EmptySet
  <1>4. Dbus!TypeOK
    <2>1. hand \in [Dbus!Completers -> Dbus!Hands] /\ call \in [req : Requests \cup {0},
                                                    step : {"none", "send", "retain", "notify"}]
      BY <1>2 DEF Dbus!Init
    <2>2. Cardinality(slots) <= MaxPending
      BY <1>3 DEF Dbus!CallsAssumption
    <2> QED
      BY DbusSizes, <1>1, <2>1, <2>2 DEF Dbus!TypeOK, Dbus!Init
  <1>5. DbusTyped
    BY <1>1, <1>3, <1>4 DEF DbusTyped, DbusForms
  <1>6. DbusKnown /\ DbusLeavers
    BY <1>1 DEF DbusKnown, DbusLeavers, Dbus!CallsAssumption
  <1>7. DbusTaken /\ DbusPosted /\ DbusNoticed
    BY <1>1 DEF DbusTaken, DbusPosted, DbusNoticed, DbusHasTaken
  <1>8. Dbus!NothingStranded /\ Dbus!CapacityAgrees /\ Dbus!ReleasedIsEmpty
    BY <1>1 DEF Dbus!NothingStranded, Dbus!CapacityAgrees, Dbus!ReleasedIsEmpty
  <1> QED
    BY <1>5, <1>6, <1>7, <1>8 DEF DbusIInv

\* Every step keeps it.
LEMMA DbusInvStep ==
  ASSUME Dbus!CallsAssumption, DbusIInv, [Dbus!Next]_(Dbus!vars)
  PROVE  DbusIInv'
  <1>1. DbusTyped'
    BY DbusTypeStep, DbusFormsStep, DbusSlotsStep DEF DbusIInv, DbusTyped
  <1> QED
    BY <1>1, DbusKnownStep, DbusLeaversStep, DbusTakenStep, DbusNoticedStep, DbusStrandedStep,
       DbusCapacityStep, DbusReleasedStep
    DEF DbusIInv

\* It is an invariant.
LEMMA DbusInvHolds ==
  ASSUME Dbus!CallsAssumption
  PROVE  Dbus!Spec => []DbusIInv
  BY DbusInvInit, DbusInvStep, PTL DEF Dbus!Spec
-----------------------------------------------------------------------------
(***************************************************************************)
(* What follows.                                                            *)
(***************************************************************************)
\* Every reachable state has its type, and the ledger never holds more requests
\* than LinuxDbusCapacityQuotas allows.
THEOREM DbusCallsTyped ==
  ASSUME Dbus!CallsAssumption
  PROVE  Dbus!Spec => []Dbus!TypeOK
  <1>1. DbusIInv => Dbus!TypeOK
    BY DEF DbusIInv, DbusTyped
  <1> QED
    BY <1>1, DbusInvHolds, PTL

\* A request in the pending-call set is still in the transport, being made, in a
\* completing thread's hand, or its client is being released (call_method,
\* pending_notify, expire_pending_calls, discard_client).
THEOREM DbusNeverStranded ==
  ASSUME Dbus!CallsAssumption
  PROVE  Dbus!Spec => []Dbus!NothingStranded
  <1>1. DbusIInv => Dbus!NothingStranded
    BY DEF DbusIInv
  <1> QED
    BY <1>1, DbusInvHolds, PTL

\* The resource ledger agrees with the pending-call set except for a completion
\* between its two critical sections, and a client whose release has returned has
\* nothing left in either table and a closed gate.
THEOREM DbusLedgerAlwaysAgrees ==
  ASSUME Dbus!CallsAssumption
  PROVE  Dbus!Spec => []Dbus!LedgerAgrees
  <1>1. DbusIInv => Dbus!LedgerAgrees
    BY DEF DbusIInv, Dbus!LedgerAgrees
  <1> QED
    BY <1>1, DbusInvHolds, PTL
-----------------------------------------------------------------------------
(***************************************************************************)
(* Calls implement the contract of a request.                               *)
(***************************************************************************)
DbusSettledRequests == {r \in Requests : owner[r] # "nobody"} \ entry

\* Nothing is accepted, settled or told at first.
LEMMA DbusContractBegins ==
  ASSUME Dbus!Init
  PROVE  Dbus!Contract!ContractInit
  BY DEF Dbus!Init, Dbus!Contract!ContractInit

\* A step that changes neither owners, entries, deliveries nor gone says nothing.
LEMMA DbusSaysNothing ==
  ASSUME UNCHANGED <<owner, entry, admitted, heard, gone>>
  PROVE  UNCHANGED Dbus!Contract!contractVars
  BY DEF Dbus!Contract!contractVars

\* Taking a request out of the set settles it.
LEMMA DbusSettles ==
  ASSUME DbusIInv, NEW r \in entry, entry' = entry \ {r},
         UNCHANGED <<owner, admitted, heard, gone>>
  PROVE  Dbus!Contract!Settle(r) /\ r \in Requests
  <1>1. r \in Requests /\ owner[r] # "nobody"
    BY DEF DbusIInv, DbusTyped, Dbus!TypeOK, DbusKnown
  <1> QED
    BY <1>1 DEF Dbus!Contract!Settle

\* Every step is one of the contract, or none.
LEMMA DbusContractStep ==
  ASSUME Dbus!CallsAssumption, DbusIInv, [Dbus!Next]_(Dbus!vars)
  PROVE  [Dbus!Contract!ContractNext]_(Dbus!Contract!contractVars)
  <1> DEFINE Kind == [Dbus!Contract!ContractNext]_(Dbus!Contract!contractVars)
  <1>0. DbusTyped
    BY DEF DbusIInv
  <1>1. ASSUME NEW a \in Dbus!Completers, Dbus!TakeEntry(a) PROVE Kind
    <2>1. CASE hand[a].req \in entry
      BY <1>1, <1>0, <2>1, DbusTakeEntryOp, DbusSettles
         DEF DbusCompletingKeeps, Dbus!Contract!ContractNext
    <2>2. CASE hand[a].req \notin entry
      BY <1>1, <1>0, <2>2, DbusTakeEntryOp, DbusSaysNothing DEF DbusCompletingKeeps
    <2> QED
      BY <2>1, <2>2
  <1>2. ASSUME NEW a \in Dbus!Completers, Dbus!ReleaseSlot(a) PROVE Kind
    BY <1>2, DbusReleaseSlotOp, <1>0, DbusSaysNothing DEF DbusHolds, DbusCompletingKeeps
  <1>3. ASSUME NEW a \in Dbus!Completers, Dbus!PostResult(a) PROVE Kind
    BY <1>3, DbusPostResultOp, <1>0, DbusSaysNothing DEF DbusHolds, DbusCompletingKeeps
  <1>4. CASE Dbus!RunTask
    <2>1. PICK t \in posted :
             admitted' = IF owner[t.req] \in gate THEN admitted \cup {t.req} ELSE admitted
      BY <1>4 DEF Dbus!RunTask
    <2>2. UNCHANGED <<owner, entry, heard, gone>>
      BY <1>4 DEF Dbus!RunTask, Dbus!lifeVars
    <2>3. CASE owner[t.req] \notin gate
      BY <2>1, <2>2, <2>3, DbusSaysNothing
    <2>4. CASE owner[t.req] \in gate
      <3>1. /\ t.req \in Requests /\ owner[t.req] # "nobody" /\ t.req \notin entry
            /\ t.req \notin admitted \cup heard
        BY <1>0 DEF DbusIInv, DbusTyped, Dbus!TypeOK, DbusKnown, DbusPosted
      <3>2. owner[t.req] \notin gone
        BY <2>4, <3>1, <1>0 DEF DbusIInv, Dbus!ReleasedIsEmpty
      <3>3. Dbus!Contract!Admit(t.req)
        BY <2>1, <2>2, <2>4, <3>1, <3>2 DEF Dbus!Contract!Admit
      <3> QED
        BY <3>1, <3>3 DEF Dbus!Contract!ContractNext
    <2> QED
      BY <2>3, <2>4
  <1>18. CASE Dbus!StartCallback
    <2>1. PICK r \in admitted : admitted' = admitted \ {r} /\ heard' = heard \cup {r}
      BY <1>18 DEF Dbus!StartCallback
    <2>2. UNCHANGED <<owner, entry, gone>>
      BY <1>18 DEF Dbus!StartCallback, Dbus!lifeVars
    <2>3. r \in Requests /\ owner[r] # "nobody" /\ r \notin entry \cup heard
      BY <1>0 DEF DbusIInv, DbusTyped, Dbus!TypeOK, DbusKnown, DbusPosted
    <2>4. Dbus!Contract!Tell(r)
      BY <2>1, <2>2, <2>3 DEF Dbus!Contract!Tell
    <2> QED
      BY <2>3, <2>4 DEF Dbus!Contract!ContractNext
  <1>5. ASSUME NEW c \in Clients, NEW r \in Requests, Dbus!Begin(c, r) PROVE Kind
    <2>1. /\ owner[r] = "nobody" /\ owner' = [owner EXCEPT ![r] = c] /\ c \in members
          /\ entry' = entry \cup {r} /\ UNCHANGED <<admitted, heard, gone>>
      BY <1>5 DEF Dbus!Begin, Dbus!lifeVars
    <2>2. c \notin gone /\ r \notin entry
      BY <2>1 DEF DbusIInv, DbusLeavers, DbusKnown
    <2>3. DbusSettledRequests' = DbusSettledRequests
      BY <1>0, <2>1, <2>2 DEF DbusSettledRequests, DbusTyped, Dbus!TypeOK
    <2>4. Dbus!Contract!Accept(r, c)
      BY <2>1, <2>2, <2>3 DEF Dbus!Contract!Accept, DbusSettledRequests
    <2> QED
      BY <2>4 DEF Dbus!Contract!ContractNext
  <1>6. ASSUME NEW c \in Clients, NEW r \in Requests, Dbus!Cancel(c, r) PROVE Kind
    BY <1>6, DbusCancelOp, <1>0, DbusSaysNothing DEF DbusTakesUp, DbusCallingKeeps
  <1>7. CASE Dbus!Send
    BY <1>7, DbusSendOp, <1>0, DbusSaysNothing DEF DbusTakesUp, DbusCallingKeeps
  <1>8. CASE Dbus!Retain
    BY <1>8, DbusRetainOp, <1>0, DbusSaysNothing DEF DbusTakesUp, DbusCallingKeeps
  <1>9. CASE Dbus!SetNotify
    BY <1>9, DbusSetNotifyOp, <1>0, DbusSaysNothing DEF DbusTakesUp, DbusCallingKeeps
  <1>10. ASSUME NEW r \in Requests, Dbus!DispatchReply(r) PROVE Kind
    BY <1>10, DbusDispatchReplyOp, <1>0, DbusSaysNothing DEF DbusTakesUp, DbusCallingKeeps
  <1>11. ASSUME NEW r \in Requests, Dbus!Expire(r) PROVE Kind
    BY <1>11, DbusExpireOp, <1>0, DbusSaysNothing DEF DbusTakesUp, DbusCallingKeeps
  <1>12. CASE Dbus!LoopEnds
    BY <1>12, <1>0, DbusSaysNothing DEF Dbus!LoopEnds, Dbus!libVars
  <1>13. ASSUME NEW c \in Clients, Dbus!Release(c) \/ Dbus!CloseGate(c) \/ Dbus!DiscardNative(c)
         PROVE  Kind
    BY <1>13, <1>0, DbusSaysNothing
       DEF Dbus!Release, Dbus!libVars, Dbus!CloseGate, Dbus!DiscardNative, Dbus!Owned, Dbus!lifeVars
  <1>14. ASSUME NEW c \in Clients, Dbus!DiscardEntry(c) PROVE Kind
    <2>1. PICK r \in Dbus!Owned(c, entry) : entry' = entry \ {r}
      BY <1>14 DEF Dbus!DiscardEntry
    <2>2. r \in entry /\ UNCHANGED <<owner, admitted, heard, gone>>
      BY <1>14, <2>1 DEF Dbus!DiscardEntry, Dbus!Owned, Dbus!lifeVars
    <2> QED
      BY <2>1, <2>2, DbusSettles DEF Dbus!Contract!ContractNext
  <1>15. ASSUME NEW c \in Clients, Dbus!Released(c) PROVE Kind
    <2>1. c \notin gone /\ gone' = gone \cup {c} /\ UNCHANGED <<owner, entry, admitted, heard>>
      BY <1>15 DEF Dbus!Released, DbusIInv, DbusLeavers
    <2>2. Dbus!Contract!Leave(c)
      BY <2>1 DEF Dbus!Contract!Leave
    <2> QED
      BY <2>2 DEF Dbus!Contract!ContractNext
  <1>16. CASE Dbus!Stop \/ Dbus!RequestStop \/ Dbus!Join
    BY <1>16, <1>0, DbusSaysNothing DEF Dbus!Stop, Dbus!libVars, Dbus!RequestStop, Dbus!Join
  <1>17. CASE UNCHANGED Dbus!vars
    BY <1>17, <1>0, DbusSaysNothing DEF Dbus!vars, Dbus!lifeVars, Dbus!libVars
  <1> QED
    BY <1>1, <1>2, <1>3, <1>4, <1>5, <1>6, <1>7, <1>8, <1>9, <1>10, <1>11, <1>12, <1>13, <1>14,
       <1>15, <1>16, <1>17, <1>18
       DEF Dbus!Next, Dbus!Complete, Dbus!Calling, Dbus!Draining

\* The client implements the contract of a request: accepted once, settled once by
\* whichever of reply, failure, deadline, cancellation and release comes first, told
\* at most once and after it was settled.  No task passes the gate once the client's
\* release has returned; a callback that starts later is one whose task had passed it
\* before.
THEOREM DbusCallsImplementContract ==
  ASSUME Dbus!CallsAssumption
  PROVE  Dbus!Spec => Dbus!ImplementsRequestContract
  <1>1. Dbus!Init => Dbus!Contract!ContractInit
    BY DbusContractBegins
  <1>2. DbusIInv /\ [Dbus!Next]_(Dbus!vars)
           => [Dbus!Contract!ContractNext]_(Dbus!Contract!contractVars)
    BY DbusContractStep
  <1> QED
    BY <1>1, <1>2, DbusInvHolds, PTL
       DEF Dbus!Spec, Dbus!ImplementsRequestContract, Dbus!Contract!ContractSpec
-----------------------------------------------------------------------------
(***************************************************************************)
(* The calls, in the composition.                                           *)
(***************************************************************************)
\* Seen from the calls, every behaviour is one of DbusCalls.
LEMMA DbusBehaves == Spec => Dbus!Spec
  <1>1. Init => Dbus!Init
    BY DEF Init
  <1>2. [Next]_vars => [Dbus!Next]_(Dbus!vars)
    BY DEF Next, OfDbus, OfDesktop, OfMotion, OfScene, vars, dbusVars, Dbus!vars
  <1> QED
    BY <1>1, <1>2, PTL DEF Spec, Dbus!Spec

\* A call in the pending set has somebody who will complete it, the ledger agrees
\* with the set, and nothing is left of a released client.
THEOREM CallsAreAlwaysSound == Spec => []CallsAreSound
  <1>1. Dbus!NothingStranded /\ Dbus!LedgerAgrees => CallsAreSound
    BY DEF CallsAreSound
  <1> QED
    BY <1>1, ConstantsAsAssumed, DbusBehaves, DbusNeverStranded, DbusLedgerAlwaysAgrees, PTL
-----------------------------------------------------------------------------
(***************************************************************************)
(* Choosers and URLs: a behaviour is of two choosers, or of a chooser and a *)
(* URL.                                                                     *)
(***************************************************************************)
DesktopIInv == IF subject = "opened" THEN Opened!IInv ELSE Choosers!IInv

\* A step is one of the requests, or leaves them alone.
LEMMA DesktopSteps ==
  ASSUME [Next]_vars
  PROVE  /\ subject' = subject
         /\ IF subject = "opened" THEN [Opened!Next]_(Opened!vars) ELSE [Choosers!Next]_(Choosers!vars)
  <1>1. subject' = subject
    BY DEF Next, OfDbus, OfDesktop, OfMotion, OfScene, vars
  <1>2. CASE subject = "choosers" /\ Choosers!Next
    BY <1>1, <1>2
  <1>3. CASE subject = "opened" /\ Opened!Next
    BY <1>1, <1>3
  <1>4. CASE UNCHANGED desktopVars
    <2>1. UNCHANGED Choosers!vars /\ UNCHANGED Opened!vars
      BY <1>4 DEF desktopVars, Choosers!vars, Opened!vars
    <2> QED
      BY <1>1, <2>1
  <1> QED
    BY <1>2, <1>3, <1>4 DEF Next, OfDbus, OfMotion, OfScene, vars

LEMMA DesktopInv == Spec => []DesktopIInv
  <1>1. Init => DesktopIInv
    BY ConstantsAsAssumed, Choosers!InvInit, Opened!InvInit DEF Init, DesktopIInv
  <1>2. DesktopIInv /\ [Next]_vars => DesktopIInv'
    <2> SUFFICES ASSUME DesktopIInv, [Next]_vars PROVE DesktopIInv'
      OBVIOUS
    <2>1. CASE subject = "opened"
      <3>1. Opened!IInv'
        BY <2>1, ConstantsAsAssumed, DesktopSteps, Opened!InvStep DEF DesktopIInv
      <3> QED
        BY <2>1, <3>1, DesktopSteps DEF DesktopIInv
    <2>2. CASE subject # "opened"
      <3>1. Choosers!IInv'
        BY <2>2, ConstantsAsAssumed, DesktopSteps, Choosers!InvStep DEF DesktopIInv
      <3> QED
        BY <2>2, <3>1, DesktopSteps DEF DesktopIInv
    <2> QED
      BY <2>1, <2>2
  <1> QED
    BY <1>1, <1>2, PTL DEF Spec

\* Whoever ends a request, and whatever fails, nothing of it stays on the bus,
\* services and backend agree on what is active, cancel tells who cancelled, and no
\* callback is called twice.
THEOREM ChoosersAreAlwaysSound == Spec => []ChoosersAreSound
  <1>1. Opened!CalledOnce => Choosers!CalledOnce
    BY DEF Opened!CalledOnce, Choosers!CalledOnce
  <1>2. DesktopIInv => ChoosersAreSound
    BY <1>1, ConstantsAsAssumed, Opened!InvSound, Choosers!InvSound
       DEF DesktopIInv, ChoosersAreSound
  <1> QED
    BY <1>2, DesktopInv, PTL

\* The services implement the contract, whichever requests they are asked for.
LEMMA DesktopImplementsContract == Spec => Choosers!ImplementsRequestContract
  <1> DEFINE C == [Choosers!Contract!ContractNext]_(Choosers!Contract!contractVars)
             O == [Opened!Contract!ContractNext]_(Opened!Contract!contractVars)
  <1>1. Init => Choosers!Contract!ContractInit
    <2>1. Opened!Contract!ContractInit => Choosers!Contract!ContractInit
      BY DEF Opened!Contract!ContractInit, Choosers!Contract!ContractInit
    <2> QED
      BY <2>1, Choosers!ContractBegins, Opened!ContractBegins DEF Init
  <1>2. O => C
    BY DEF Opened!Contract!ContractNext, Choosers!Contract!ContractNext,
           Opened!Contract!contractVars, Choosers!Contract!contractVars,
           Opened!Contract!Accept, Choosers!Contract!Accept,
           Opened!Contract!Settle, Choosers!Contract!Settle,
           Opened!Contract!Admit, Choosers!Contract!Admit,
           Opened!Contract!Tell, Choosers!Contract!Tell,
           Opened!Contract!Leave, Choosers!Contract!Leave
  <1>3. DesktopIInv /\ [Next]_vars => C
    <2> SUFFICES ASSUME DesktopIInv, [Next]_vars PROVE C
      OBVIOUS
    <2>1. CASE subject = "opened"
      <3>1. Opened!ServicesNext
        BY <2>1, ConstantsAsAssumed, DesktopSteps, Opened!ContractStep DEF DesktopIInv
      <3> QED
        BY <1>2, <3>1 DEF Opened!ServicesNext
    <2>2. CASE subject # "opened"
      <3>1. Choosers!ServicesNext
        BY <2>2, ConstantsAsAssumed, DesktopSteps, Choosers!ContractStep DEF DesktopIInv
      <3> QED
        BY <3>1 DEF Choosers!ServicesNext
    <2> QED
      BY <2>1, <2>2
  <1> QED
    BY <1>1, <1>3, DesktopInv, PTL
       DEF Spec, Choosers!ImplementsRequestContract, Choosers!Contract!ContractSpec
-----------------------------------------------------------------------------
(***************************************************************************)
(* Animations.                                                              *)
(***************************************************************************)
MotionFrames == [kind : {"tick", "reduce", "apply"}, left : SUBSET Animations,
                 id : Animations \cup {0}, at : Motion!Calling \cup {"next"}, done : BOOLEAN]

\* Animations are known from their start on.
MotionKnown == running \cup ended \subseteq {i \in Animations : i <= started} /\ started \in Nat

MotionFlags == wake \in BOOLEAN /\ reduced_motion \in BOOLEAN /\ destroyed \in BOOLEAN

MotionBounded == thrown \in 0..MaxThrown

MotionStacked == stack \in Seq(MotionFrames) /\ Len(stack) <= MaxNested

MotionHistories == age \in [Animations -> 0..Duration] /\ completions \in [Animations -> 0..1]

\* The frame that is at work on animation i.
MotionWorks(f, i) == f.id = i /\ f.at \in {"write", "invalidate"}

\* Callbacks are for an animation; one that is applied at once was never registered.
MotionBusy ==
    \A k \in 1..Len(stack) :
       /\ stack[k].at \in Motion!Calling => stack[k].id \in Animations
       /\ stack[k].kind = "apply" =>
             /\ stack[k].left = {} /\ stack[k].done
             /\ stack[k].id \in {i \in Animations : i <= started} \ (running \cup ended)
             /\ stack[k].at \in {"write", "invalidate"} => completions[stack[k].id] = 0
             /\ \A l \in 1..Len(stack) :
                   stack[l].kind = "apply" /\ stack[l].id = stack[k].id => k = l

\* What runs was not completed or cancelled, nor was what is still to come.
MotionFresh ==
    /\ \A i \in running : completions[i] = 0 /\ i \notin ended
    /\ \A i \in Animations : i > started => completions[i] = 0

\* Reduced motion leaves only what it has not come to yet.
MotionReducing(f, i) == f.kind = "reduce" /\ (i \in f.left \/ (MotionWorks(f, i) /\ f.done))
MotionReduced ==
    reduced_motion => \A i \in running : \E k \in 1..Len(stack) : MotionReducing(stack[k], i)

MotionAttended ==
    running # {} => wake \/ \E k \in 1..Len(stack) : stack[k].kind # "apply"

MotionClosed == destroyed => running = {} /\ ~wake

MotionIInv == /\ MotionKnown /\ MotionFlags /\ MotionBounded /\ MotionStacked /\ MotionHistories
              /\ MotionBusy /\ MotionFresh /\ MotionReduced /\ MotionAttended /\ MotionClosed
              /\ Motion!OneWake
-----------------------------------------------------------------------------
\* The frame at the top, and what is left when it is popped.
LEMMA StackTop ==
  ASSUME NEW S, NEW s \in Seq(S), s # <<>>
  PROVE  /\ Len(s) \in Nat \ {0} /\ Motion!Last(s) = s[Len(s)] /\ Motion!Last(s) \in S
         /\ Motion!Front(s) \in Seq(S) /\ Len(Motion!Front(s)) = Len(s) - 1
         /\ \A k \in 1 .. Len(s) - 1 : Motion!Front(s)[k] = s[k]
  <1>1. Len(s) \in Nat \ {0}
    OBVIOUS
  <1>2. Motion!Last(s) = s[Len(s)] /\ Motion!Last(s) \in S
    BY <1>1 DEF Motion!Last
  <1> DEFINE n == Len(s) - 1
             r == SubSeq(s, 1, n)
  <1>3. Motion!Front(s) = r
    BY DEF Motion!Front
  <1>4. n \in Nat /\ \A k \in 1 .. n : s[k] \in S
    BY <1>1
  <1> HIDE DEF n
  <1>5. /\ r \in Seq(S)
        /\ Len(r) = IF 1 <= n THEN n - 1 + 1 ELSE 0
        /\ \A i \in 1 .. n - 1 + 1 : r[i] = s[1 + i - 1]
    <2>1. n \in Int /\ 1 \in Int
      BY <1>4
    <2> QED
      BY <1>4, <2>1, SubSeqProperties
  <1> HIDE DEF r
  <1>6. Len(r) = n
    BY <1>4, <1>5
  <1>7. ASSUME NEW i \in 1 .. n
        PROVE  r[i] = s[i]
    <2>1. i \in 1 .. n - 1 + 1 /\ 1 + i - 1 = i
      BY <1>4
    <2> QED
      BY <1>5, <2>1
  <1> QED
    BY <1>1, <1>2, <1>3, <1>5, <1>6, <1>7 DEF n

\* Another frame in the place of the top.
LEMMA StackSet ==
  ASSUME NEW S, NEW s \in Seq(S), s # <<>>, NEW x \in S
  PROVE  /\ Motion!Front(s) \o <<x>> \in Seq(S) /\ Len(Motion!Front(s) \o <<x>>) = Len(s)
         /\ \A k \in 1 .. Len(s) - 1 : (Motion!Front(s) \o <<x>>)[k] = s[k]
         /\ (Motion!Front(s) \o <<x>>)[Len(s)] = x
  <1> DEFINE f == Motion!Front(s)
  <1>1. f \in Seq(S) /\ Len(f) = Len(s) - 1 /\ Len(s) \in Nat \ {0}
        /\ \A k \in 1 .. Len(s) - 1 : f[k] = s[k]
    BY StackTop
  <1> HIDE DEF f
  <1>2. <<x>> \in Seq(S) /\ Len(<<x>>) = 1 /\ <<x>>[1] = x
    OBVIOUS
  <1>3. f \o <<x>> \in Seq(S) /\ Len(f \o <<x>>) = Len(f) + 1
        /\ \A k \in 1 .. Len(f) : (f \o <<x>>)[k] = f[k]
        /\ (f \o <<x>>)[Len(f) + 1] = x
    BY <1>1, <1>2
  <1> QED
    BY <1>1, <1>3 DEF f

\* A frame on top of the others.
LEMMA StackPush ==
  ASSUME NEW S, NEW s \in Seq(S), NEW x \in S
  PROVE  /\ Append(s, x) \in Seq(S) /\ Len(Append(s, x)) = Len(s) + 1
         /\ \A k \in 1 .. Len(s) : Append(s, x)[k] = s[k]
         /\ Append(s, x)[Len(s) + 1] = x
  OBVIOUS

\* The parts of the invariant.
LEMMA MotionInvParts ==
  ASSUME MotionIInv
  PROVE  /\ MotionKnown /\ MotionFlags /\ MotionBounded /\ MotionStacked /\ MotionHistories
         /\ MotionBusy /\ MotionFresh /\ MotionReduced /\ MotionAttended /\ MotionClosed
         /\ Motion!OneWake
  BY DEF MotionIInv

\* A wake is scheduled, or the animations that need it are dropped.
LEMMA MotionWakeEnsured ==
  ASSUME MotionFlags, MotionBounded, Motion!OneWake, Motion!AnimationAssumption,
         NEW E, NEW r \in BOOLEAN, NEW O, Motion!EnsureWake(E, r, O)
  PROVE  /\ Motion!OneWake' /\ MotionBounded' /\ wake' \in BOOLEAN /\ (wake => wake')
         /\ \/ running' = E /\ ended' = ended /\ (E = {} \/ r \/ wake')
            \/ running' = O /\ ended' = ended \cup (running \ O) /\ E # {} /\ ~r
  <1>0. wake \in BOOLEAN /\ thrown \in 0 .. MaxThrown /\ MaxThrown \in Nat
    BY DEF MotionFlags, MotionBounded, Motion!AnimationAssumption
  <1>1. Motion!OneWake'
    BY <1>0 DEF Motion!EnsureWake, Motion!Keep, Motion!Drop, Motion!KeepWake, Motion!OneWake
  <1>2. MotionBounded'
    BY <1>0 DEF Motion!EnsureWake, Motion!Smoothly, Motion!Fault, MotionBounded
  <1>3. wake' \in BOOLEAN
    BY <1>0 DEF Motion!EnsureWake, Motion!KeepWake
  <1>4. wake => wake'
    BY <1>0 DEF Motion!EnsureWake, Motion!KeepWake
  <1>5. \/ running' = E /\ ended' = ended /\ (E = {} \/ r \/ wake')
        \/ running' = O /\ ended' = ended \cup (running \ O) /\ E # {} /\ ~r
    BY <1>0 DEF Motion!EnsureWake, Motion!Keep, Motion!Drop, Motion!KeepWake
  <1> QED
    BY <1>1, <1>2, <1>3, <1>4, <1>5

\* The initial state satisfies the invariant.
LEMMA MotionInit == Motion!AnimationAssumption /\ Motion!Init => MotionIInv
  <1> SUFFICES ASSUME Motion!AnimationAssumption, Motion!Init PROVE MotionIInv
    OBVIOUS
  <1>1. stack = <<>> /\ Len(stack) = 0 /\ stack \in Seq(MotionFrames)
    BY DEF Motion!Init
  <1>2. MotionKnown /\ MotionFlags /\ MotionFresh /\ MotionReduced /\ MotionAttended /\ MotionClosed
    BY DEF MotionKnown, MotionFlags, MotionFresh, MotionReduced, MotionAttended, MotionClosed,
           Motion!Init
  <1>3. MotionBounded /\ MotionHistories /\ Motion!OneWake
    BY DEF MotionBounded, MotionHistories, Motion!OneWake, Motion!Init, Motion!AnimationAssumption
  <1>4. MotionBusy /\ MotionStacked
    BY <1>1 DEF MotionBusy, MotionStacked, Motion!AnimationAssumption
  <1> QED
    BY <1>2, <1>3, <1>4 DEF MotionIInv

\* A start registers an animation of which nothing was known, or applies its target.
LEMMA MotionStartKeeps ==
  ASSUME MotionIInv, Motion!AnimationAssumption, NEW i \in Animations, Motion!Start(i)
  PROVE  MotionIInv'
  <1>p. /\ MotionKnown /\ MotionFlags /\ MotionBounded /\ MotionStacked /\ MotionHistories
        /\ MotionBusy /\ MotionFresh /\ MotionReduced /\ MotionAttended /\ MotionClosed
        /\ Motion!OneWake
    BY MotionInvParts
  <1>0. /\ started' = started + 1 /\ i = started + 1
        /\ UNCHANGED <<reduced_motion, destroyed, age, completions>> /\ ~destroyed
    BY DEF Motion!Start, Motion!Callable
  <1>1. started \in Nat /\ i \notin running \cup ended /\ completions[i] = 0 /\ \A j \in running \cup ended : j # i
    <2>1. started \in Nat /\ \A j \in running \cup ended : j \in Nat /\ j <= started
      BY <1>p DEF MotionKnown, Motion!AnimationAssumption
    <2>2. completions[i] = 0
      BY <1>0, <1>p, <2>1 DEF MotionFresh
    <2> QED
      BY <1>0, <2>1, <2>2
  <1>2. \A E \in SUBSET (running \cup {i}) : \A D \in SUBSET ended :
           running' = E /\ ended' = D => MotionKnown'
    <2>1. \A j \in running \cup ended : j \in Animations /\ j <= started /\ j \in Nat
      BY <1>p DEF MotionKnown, Motion!AnimationAssumption
    <2>2. \A j \in running \cup ended \cup {i} : j \in Animations /\ j <= started'
      BY <1>0, <1>1, <2>1
    <2> QED
      BY <1>0, <1>1, <2>2 DEF MotionKnown
  <1>3. \A j \in Animations : j > started' => j > started
    BY <1>0, <1>1 DEF Motion!AnimationAssumption
  <1>4. CASE ~reduced_motion /\ Motion!EnsureWake(running \cup {i}, FALSE, running) /\ UNCHANGED stack
    <2>1. Motion!OneWake' /\ MotionBounded' /\ wake' \in BOOLEAN /\ (wake => wake')
          /\ \/ running' = running \cup {i} /\ ended' = ended /\ wake'
             \/ running' = running /\ ended' = ended
      <3>1. ended \cup (running \ running) = ended /\ running \cup {i} # {}
        OBVIOUS
      <3> QED
        BY <1>p, <1>4, <3>1, MotionWakeEnsured
    <2>2. MotionKnown'
      BY <1>2, <2>1
    <2>3. MotionFlags' /\ MotionStacked' /\ MotionHistories'
      BY <1>p, <1>0, <1>4, <2>1 DEF MotionFlags, MotionStacked, MotionHistories
    <2>4. MotionFresh'
      BY <1>p, <1>0, <1>1, <1>3, <2>1 DEF MotionFresh
    <2>5. MotionReduced' /\ MotionAttended' /\ MotionClosed'
      BY <1>p, <1>0, <1>4, <2>1 DEF MotionReduced, MotionAttended, MotionClosed
    <2>6. MotionBusy'
      <3>1. \A j \in Animations : j <= started => j <= started' /\ j # i
        BY <1>0, <1>1 DEF Motion!AnimationAssumption
      <3>2. running' \cup ended' \subseteq running \cup ended \cup {i}
        BY <2>1
      <3> QED
        BY <1>p, <1>0, <1>4, <3>1, <3>2 DEF MotionBusy
    <2> QED
      BY <2>1, <2>2, <2>3, <2>4, <2>5, <2>6 DEF MotionIInv
  <1>5. CASE ~(~reduced_motion /\ Motion!EnsureWake(running \cup {i}, FALSE, running) /\ UNCHANGED stack)
    <2> DEFINE f == [Motion!Frame("apply", {}) EXCEPT !.id = i, !.at = "write", !.done = TRUE]
    <2>1. stack' = Append(stack, f) /\ Motion!Deeper
          /\ UNCHANGED <<running, ended, wake, timers, thrown>>
      BY <1>5 DEF Motion!Start, Motion!KeepWake, Motion!Smoothly
    <2>2. /\ f \in MotionFrames /\ f.kind = "apply" /\ f.left = {} /\ f.id = i /\ f.at = "write"
          /\ f.done = TRUE
      BY DEF Motion!Frame, MotionFrames, Motion!Calling
    <2> HIDE DEF f
    <2>3. /\ stack' \in Seq(MotionFrames) /\ Len(stack') = Len(stack) + 1 /\ Len(stack) \in Nat
          /\ \A k \in 1 .. Len(stack) : stack'[k] = stack[k]
          /\ stack'[Len(stack) + 1] = f
      BY <1>p, <2>1, <2>2, StackPush DEF MotionStacked
    <2>4. /\ MotionKnown' /\ MotionFlags' /\ MotionBounded' /\ MotionHistories' /\ Motion!OneWake'
          /\ MotionClosed'
      BY <1>p, <1>0, <1>2, <2>1
         DEF MotionFlags, MotionBounded, MotionHistories, Motion!OneWake, MotionClosed
    <2>5. MotionStacked'
      BY <2>1, <2>3 DEF MotionStacked, Motion!Deeper, Motion!AnimationAssumption
    <2>6. MotionFresh'
      BY <1>p, <1>0, <1>3, <2>1 DEF MotionFresh
    <2>7. MotionReduced' /\ MotionAttended'
      BY <1>p, <1>0, <2>1, <2>3 DEF MotionReduced, MotionAttended
    <2>8. MotionBusy'
      <3>1. \A j \in Animations : j <= started => j <= started' /\ j # i
        BY <1>0, <1>1 DEF Motion!AnimationAssumption
      <3>2. i <= started'
        BY <1>0, <1>1
      <3>3. \A k \in 1 .. Len(stack) :
               stack[k].kind = "apply" => stack[k].id \in Animations /\ stack[k].id # i
        BY <1>p, <3>1 DEF MotionBusy
      <3>4. \A k \in 1 .. Len(stack') : k \in 1 .. Len(stack) \/ k = Len(stack) + 1
        BY <2>3
      <3> SUFFICES ASSUME NEW k \in 1 .. Len(stack')
                   PROVE  /\ stack'[k].at \in Motion!Calling => stack'[k].id \in Animations
                          /\ stack'[k].kind = "apply" =>
                                /\ stack'[k].left = {} /\ stack'[k].done
                                /\ stack'[k].id \in {j \in Animations : j <= started'} \ (running' \cup ended')
                                /\ stack'[k].at \in {"write", "invalidate"} => completions'[stack'[k].id] = 0
                                /\ \A l \in 1 .. Len(stack') :
                                      stack'[l].kind = "apply" /\ stack'[l].id = stack'[k].id => k = l
        BY DEF MotionBusy
      <3>5. CASE k = Len(stack) + 1
        BY <1>0, <1>1, <2>1, <2>2, <2>3, <3>2, <3>3, <3>4, <3>5
      <3>6. CASE k \in 1 .. Len(stack)
        <4>1. /\ stack'[k] = stack[k]
              /\ \A l \in 1 .. Len(stack') : \/ stack'[l] = stack[l] /\ l \in 1 .. Len(stack)
                                            \/ stack'[l].id = i
          BY <2>2, <2>3, <3>4, <3>6
        <4>2. stack[k].at \in Motion!Calling => stack[k].id \in Animations
          BY <1>p, <3>6 DEF MotionBusy
        <4>3. ASSUME stack[k].kind = "apply"
              PROVE  /\ stack[k].left = {} /\ stack[k].done /\ stack[k].id # i
                     /\ stack[k].id \in {j \in Animations : j <= started} \ (running \cup ended)
                     /\ stack[k].at \in {"write", "invalidate"} => completions[stack[k].id] = 0
                     /\ \A l \in 1 .. Len(stack) :
                            stack[l].kind = "apply" /\ stack[l].id = stack[k].id => k = l
          BY <1>p, <3>3, <3>6, <4>3 DEF MotionBusy
        <4> QED
          BY <1>0, <2>1, <3>1, <4>1, <4>2, <4>3
      <3> QED
        BY <3>4, <3>5, <3>6
    <2> QED
      BY <1>p, <2>4, <2>5, <2>6, <2>7, <2>8 DEF MotionIInv
  <1> QED
    BY <1>4, <1>5

\* The last one that is cancelled takes the wake with it.
LEMMA MotionCancelKeeps ==
  ASSUME MotionIInv, Motion!AnimationAssumption, NEW i \in Animations, Motion!Cancel(i)
  PROVE  MotionIInv'
  <1>p. /\ MotionKnown /\ MotionFlags /\ MotionBounded /\ MotionStacked /\ MotionHistories
        /\ MotionBusy /\ MotionFresh /\ MotionReduced /\ MotionAttended /\ MotionClosed
        /\ Motion!OneWake
    BY MotionInvParts
  <1>1. /\ running' = running \ {i} /\ ended' = ended \cup {i} /\ i \in running /\ ~destroyed
        /\ UNCHANGED <<reduced_motion, destroyed, stack, started, age, completions, thrown>>
    BY DEF Motion!Cancel, Motion!Drop, Motion!Callable
  <1>2. wake' \in BOOLEAN /\ (wake /\ running' # {} => wake')
    BY <1>p DEF Motion!Cancel, Motion!Drop, Motion!CancelWake, Motion!KeepWake, MotionFlags
  <1>3. Motion!OneWake'
    BY <1>p DEF Motion!Cancel, Motion!CancelWake, Motion!KeepWake, Motion!OneWake, MotionFlags
  <1>4. running' \cup ended' = running \cup ended
    BY <1>1
  <1>5. /\ MotionKnown' /\ MotionFlags' /\ MotionBounded' /\ MotionStacked' /\ MotionHistories'
        /\ MotionClosed'
    BY <1>p, <1>1, <1>2, <1>4
       DEF MotionKnown, MotionFlags, MotionBounded, MotionStacked, MotionHistories, MotionClosed
  <1>6. MotionBusy'
    BY <1>p, <1>1, <1>4 DEF MotionBusy
  <1>7. MotionFresh' /\ MotionReduced' /\ MotionAttended'
    BY <1>p, <1>1, <1>2 DEF MotionFresh, MotionReduced, MotionAttended
  <1> QED
    BY <1>3, <1>5, <1>6, <1>7 DEF MotionIInv

\* Reduced motion takes the animations there are to their targets, or drops them.
LEMMA MotionReduceKeeps ==
  ASSUME MotionIInv, Motion!AnimationAssumption, Motion!Reduce
  PROVE  MotionIInv'
  <1>p. /\ MotionKnown /\ MotionFlags /\ MotionBounded /\ MotionStacked /\ MotionHistories
        /\ MotionBusy /\ MotionFresh /\ MotionReduced /\ MotionAttended /\ MotionClosed
        /\ Motion!OneWake
    BY MotionInvParts
  <1>0. wake' = FALSE /\ reduced_motion' = TRUE /\ ~destroyed /\ Motion!Deeper
        /\ UNCHANGED <<destroyed, started, age, completions>>
    BY DEF Motion!Reduce, Motion!CancelWake, Motion!Callable
  <1>1. Motion!OneWake'
    BY <1>p DEF Motion!Reduce, Motion!CancelWake, Motion!OneWake, MotionFlags
  <1>2. CASE stack' = Append(stack, Motion!Frame("reduce", running)) /\ UNCHANGED <<running, ended>> /\ Motion!Smoothly
    <2> DEFINE f == Motion!Frame("reduce", running)
    <2>1. f \in MotionFrames /\ f.kind = "reduce" /\ f.left = running /\ f.at = "next"
      BY <1>p DEF Motion!Frame, MotionFrames, Motion!Calling, MotionKnown
    <2>2. stack' = Append(stack, f) /\ UNCHANGED <<running, ended, thrown>>
      BY <1>2 DEF Motion!Smoothly
    <2> HIDE DEF f
    <2>3. /\ stack' \in Seq(MotionFrames) /\ Len(stack') = Len(stack) + 1 /\ Len(stack) \in Nat
          /\ \A k \in 1 .. Len(stack) : stack'[k] = stack[k]
          /\ stack'[Len(stack) + 1] = f
      BY <1>p, <2>1, <2>2, StackPush DEF MotionStacked
    <2>4. /\ MotionKnown' /\ MotionFlags' /\ MotionBounded' /\ MotionHistories' /\ MotionFresh'
          /\ MotionClosed'
      BY <1>p, <1>0, <2>2
         DEF MotionKnown, MotionFlags, MotionBounded, MotionHistories, MotionFresh, MotionClosed
    <2>5. MotionStacked'
      BY <1>0, <2>3 DEF MotionStacked, Motion!Deeper, Motion!AnimationAssumption
    <2>6. MotionBusy'
      BY <1>p, <1>0, <2>1, <2>2, <2>3 DEF MotionBusy, Motion!Calling
    <2>7. Len(stack) + 1 \in 1 .. Len(stack')
      BY <2>3
    <2>8. MotionReduced' /\ MotionAttended'
      BY <1>0, <2>1, <2>2, <2>3, <2>7 DEF MotionReduced, MotionAttended, MotionReducing
    <2> QED
      BY <1>1, <2>4, <2>5, <2>6, <2>8 DEF MotionIInv
  <1>3. CASE Motion!Drop({}) /\ UNCHANGED stack /\ Motion!Fault
    <2>1. running' = {} /\ ended' = ended \cup running /\ UNCHANGED stack
      BY <1>3 DEF Motion!Drop
    <2>2. MotionBounded'
      BY <1>p, <1>3 DEF Motion!Fault, MotionBounded, Motion!AnimationAssumption
    <2>3. /\ MotionKnown' /\ MotionFlags' /\ MotionStacked' /\ MotionHistories' /\ MotionFresh'
          /\ MotionClosed'
      BY <1>p, <1>0, <2>1
         DEF MotionKnown, MotionFlags, MotionStacked, MotionHistories, MotionFresh, MotionClosed
    <2>4. MotionBusy' /\ MotionReduced' /\ MotionAttended'
      BY <1>p, <1>0, <2>1 DEF MotionBusy, MotionReduced, MotionAttended
    <2> QED
      BY <1>1, <2>2, <2>3, <2>4 DEF MotionIInv
  <1> QED
    BY <1>2, <1>3 DEF Motion!Reduce

\* Full motion again: what is there gets a wake, or is dropped.
LEMMA MotionRestoreKeeps ==
  ASSUME MotionIInv, Motion!AnimationAssumption, Motion!Restore
  PROVE  MotionIInv'
  <1>p. /\ MotionKnown /\ MotionFlags /\ MotionBounded /\ MotionStacked /\ MotionHistories
        /\ MotionBusy /\ MotionFresh /\ MotionReduced /\ MotionAttended /\ MotionClosed
        /\ Motion!OneWake
    BY MotionInvParts
  <1>1. /\ ~destroyed /\ reduced_motion' = FALSE /\ Motion!EnsureWake(running, FALSE, {})
        /\ UNCHANGED <<destroyed, stack, started, age, completions>>
    BY DEF Motion!Restore, Motion!Callable
  <1>2. Motion!OneWake' /\ MotionBounded' /\ wake' \in BOOLEAN
        /\ \/ running' = running /\ ended' = ended /\ (running = {} \/ wake')
           \/ running' = {} /\ ended' = ended \cup running
    <2>1. ended \cup (running \ {}) = ended \cup running
      OBVIOUS
    <2>2. Motion!EnsureWake(running, FALSE, {}) /\ FALSE \in BOOLEAN
      BY <1>1
    <2>3. Motion!OneWake' /\ MotionBounded' /\ wake' \in BOOLEAN
      BY <1>p, <2>2, MotionWakeEnsured
    <2>4. \/ running' = running /\ ended' = ended /\ (running = {} \/ FALSE \/ wake')
          \/ running' = {} /\ ended' = ended \cup (running \ {}) /\ running # {} /\ ~FALSE
      BY <1>p, <2>2, MotionWakeEnsured
    <2> QED
      BY <2>1, <2>3, <2>4
  <1>3. running' \cup ended' = running \cup ended
    BY <1>2
  <1>4. MotionKnown' /\ MotionFlags' /\ MotionStacked' /\ MotionHistories'
    BY <1>p, <1>1, <1>2, <1>3 DEF MotionKnown, MotionFlags, MotionStacked, MotionHistories
  <1>5. MotionBusy'
    BY <1>p, <1>1, <1>3 DEF MotionBusy
  <1>6. MotionFresh' /\ MotionReduced' /\ MotionAttended' /\ MotionClosed'
    BY <1>p, <1>1, <1>2 DEF MotionFresh, MotionReduced, MotionAttended, MotionClosed
  <1> QED
    BY <1>2, <1>4, <1>5, <1>6 DEF MotionIInv

\* The timer calls back: a tick, unless the motion is reduced or there is no memory.
LEMMA MotionWakeFiresKeeps ==
  ASSUME MotionIInv, Motion!AnimationAssumption, Motion!WakeFires
  PROVE  MotionIInv'
  <1>p. /\ MotionKnown /\ MotionFlags /\ MotionBounded /\ MotionStacked /\ MotionHistories
        /\ MotionBusy /\ MotionFresh /\ MotionReduced /\ MotionAttended /\ MotionClosed
        /\ Motion!OneWake
    BY MotionInvParts
  <1>0. /\ timers = 1 /\ wake /\ ~destroyed /\ Motion!Deeper
        /\ UNCHANGED <<reduced_motion, destroyed, started, age, completions>>
    BY <1>p DEF Motion!WakeFires, Motion!OneWake, MotionClosed, MotionFlags
  <1>1. CASE reduced_motion
    <2>1. timers' = 0 /\ wake' = FALSE /\ UNCHANGED <<running, ended, stack, thrown>>
      BY <1>0, <1>1 DEF Motion!WakeFires, Motion!Smoothly
    <2>2. /\ MotionKnown' /\ MotionFlags' /\ MotionBounded' /\ MotionStacked' /\ MotionHistories'
          /\ MotionFresh' /\ MotionClosed'
      BY <1>p, <1>0, <2>1
         DEF MotionKnown, MotionFlags, MotionBounded, MotionStacked, MotionHistories, MotionFresh,
             MotionClosed
    <2>3. MotionBusy' /\ MotionReduced'
      BY <1>p, <1>0, <2>1 DEF MotionBusy, MotionReduced
    <2>4. MotionAttended'
      BY <1>p, <1>0, <1>1, <2>1 DEF MotionAttended, MotionReduced, MotionReducing
    <2>5. Motion!OneWake'
      BY <2>1 DEF Motion!OneWake
    <2> QED
      BY <2>2, <2>3, <2>4, <2>5 DEF MotionIInv
  <1>2. CASE ~reduced_motion /\ stack' = Append(stack, Motion!Frame("tick", running)) /\ timers' = timers - 1
             /\ wake' = FALSE /\ UNCHANGED <<running, ended>> /\ Motion!Smoothly
    <2> DEFINE f == Motion!Frame("tick", running)
    <2>1. f \in MotionFrames /\ f.kind = "tick" /\ f.left = running /\ f.at = "next"
      BY <1>p DEF Motion!Frame, MotionFrames, Motion!Calling, MotionKnown
    <2>2. stack' = Append(stack, f) /\ UNCHANGED <<running, ended, thrown>> /\ timers' = 0
          /\ wake' = FALSE
      BY <1>0, <1>2 DEF Motion!Smoothly
    <2> HIDE DEF f
    <2>3. /\ stack' \in Seq(MotionFrames) /\ Len(stack') = Len(stack) + 1 /\ Len(stack) \in Nat
          /\ \A k \in 1 .. Len(stack) : stack'[k] = stack[k]
          /\ stack'[Len(stack) + 1] = f
      BY <1>p, <2>1, <2>2, StackPush DEF MotionStacked
    <2>4. /\ MotionKnown' /\ MotionFlags' /\ MotionBounded' /\ MotionHistories' /\ MotionFresh'
          /\ MotionClosed'
      BY <1>p, <1>0, <2>2
         DEF MotionKnown, MotionFlags, MotionBounded, MotionHistories, MotionFresh, MotionClosed
    <2>5. MotionStacked'
      BY <1>0, <2>3 DEF MotionStacked, Motion!Deeper, Motion!AnimationAssumption
    <2>6. MotionBusy'
      BY <1>p, <1>0, <2>1, <2>2, <2>3 DEF MotionBusy, Motion!Calling
    <2>7. Len(stack) + 1 \in 1 .. Len(stack')
      BY <2>3
    <2>8. MotionReduced' /\ MotionAttended'
      BY <1>0, <1>2, <2>1, <2>2, <2>3, <2>7 DEF MotionReduced, MotionAttended
    <2>9. Motion!OneWake'
      BY <2>2 DEF Motion!OneWake
    <2> QED
      BY <2>4, <2>5, <2>6, <2>8, <2>9 DEF MotionIInv
  <1>3. CASE ~reduced_motion /\ UNCHANGED stack
             /\ \/ Motion!Keep(running) /\ wake' = (running # {}) /\ Motion!Fault
                   /\ timers' = IF running = {} THEN timers - 1 ELSE timers
                \/ /\ running # {} /\ thrown + 2 <= MaxThrown /\ thrown' = thrown + 2
                   /\ Motion!Drop({}) /\ wake' = FALSE /\ timers' = timers - 1
    <2>1. /\ \/ running' = running /\ ended' = ended
             \/ running' = {} /\ ended' = ended \cup running
          /\ wake' = (running' # {})
      BY <1>3 DEF Motion!Keep, Motion!Drop
    <2>2. running' \cup ended' = running \cup ended
      BY <2>1
    <2>3. MotionBounded'
      BY <1>p, <1>3 DEF MotionBounded, Motion!Fault, Motion!AnimationAssumption
    <2>4. Motion!OneWake'
      <3>1. timers' = IF wake' THEN 1 ELSE 0
        <4>1. CASE wake' = (running # {}) /\ timers' = IF running = {} THEN timers - 1 ELSE timers
          <5>1. CASE running = {}
            <6>1. ~wake' /\ timers' = timers - 1
              BY <4>1, <5>1
            <6> QED
              BY <1>0, <6>1
          <5>2. CASE running # {}
            BY <1>0, <4>1, <5>2
          <5> QED
            BY <5>1, <5>2
        <4>2. CASE wake' = FALSE /\ timers' = timers - 1
          BY <1>0, <4>2
        <4> QED
          BY <1>3, <4>1, <4>2
      <3> QED
        BY <3>1 DEF Motion!OneWake
    <2>5. MotionKnown' /\ MotionFlags' /\ MotionStacked' /\ MotionHistories'
      BY <1>p, <1>0, <1>3, <2>1, <2>2 DEF MotionKnown, MotionFlags, MotionStacked, MotionHistories
    <2>6. MotionBusy'
      BY <1>p, <1>0, <1>3, <2>2 DEF MotionBusy
    <2>7. MotionFresh' /\ MotionReduced' /\ MotionAttended' /\ MotionClosed'
      BY <1>p, <1>0, <1>3, <2>1 DEF MotionFresh, MotionReduced, MotionAttended, MotionClosed
    <2> QED
      BY <2>3, <2>4, <2>5, <2>6, <2>7 DEF MotionIInv
  <1> QED
    BY <1>0, <1>1, <1>2, <1>3 DEF Motion!WakeFires

\* The context is destroyed, with its wake and its entries.
LEMMA MotionDestroyKeeps ==
  ASSUME MotionIInv, Motion!AnimationAssumption, Motion!Destroy
  PROVE  MotionIInv'
  <1>p. /\ MotionKnown /\ MotionFlags /\ MotionBounded /\ MotionStacked /\ MotionHistories
        /\ MotionBusy /\ MotionFresh /\ MotionReduced /\ MotionAttended /\ MotionClosed
        /\ Motion!OneWake
    BY MotionInvParts
  <1>1. /\ destroyed' = TRUE /\ running' = {} /\ wake' = FALSE
        /\ UNCHANGED <<reduced_motion, stack, started, age, ended, completions, thrown>>
    BY DEF Motion!Destroy, Motion!CancelWake
  <1>2. Motion!OneWake'
    BY <1>p DEF Motion!Destroy, Motion!CancelWake, Motion!OneWake, MotionFlags
  <1>3. MotionKnown' /\ MotionFlags' /\ MotionBounded' /\ MotionStacked' /\ MotionHistories'
    BY <1>p, <1>1 DEF MotionKnown, MotionFlags, MotionBounded, MotionStacked, MotionHistories
  <1>4. MotionBusy' /\ MotionFresh' /\ MotionReduced' /\ MotionAttended' /\ MotionClosed'
    BY <1>p, <1>1 DEF MotionBusy, MotionFresh, MotionReduced, MotionAttended, MotionClosed
  <1> QED
    BY <1>2, <1>3, <1>4 DEF MotionIInv

\* The operation that is in progress.
LEMMA MotionTopOf ==
  ASSUME MotionStacked, stack # <<>>
  PROVE  /\ Len(stack) \in Nat \ {0} /\ Len(stack) \in 1 .. Len(stack)
         /\ Motion!Top = stack[Len(stack)] /\ Motion!Top \in MotionFrames
  <1>1. /\ Len(stack) \in Nat \ {0} /\ Motion!Last(stack) = stack[Len(stack)]
        /\ Motion!Last(stack) \in MotionFrames
    BY StackTop DEF MotionStacked
  <1> QED
    BY <1>1 DEF Motion!Top

\* It goes on.
LEMMA MotionSetOf ==
  ASSUME MotionStacked, stack # <<>>, NEW f \in MotionFrames, Motion!SetTop(f)
  PROVE  /\ MotionStacked' /\ Len(stack') = Len(stack)
         /\ \A k \in 1 .. Len(stack) : stack'[k] = IF k = Len(stack) THEN f ELSE stack[k]
  <1>1. /\ stack' \in Seq(MotionFrames) /\ Len(stack') = Len(stack)
        /\ \A k \in 1 .. Len(stack) - 1 : stack'[k] = stack[k]
        /\ stack'[Len(stack)] = f
    BY StackSet DEF MotionStacked, Motion!SetTop
  <1>2. Len(stack) \in Nat \ {0}
    BY MotionTopOf
  <1>3. \A k \in 1 .. Len(stack) : k # Len(stack) => k \in 1 .. Len(stack) - 1
    BY <1>2
  <1>4. MotionStacked'
    BY <1>1 DEF MotionStacked
  <1> QED
    BY <1>1, <1>3, <1>4

\* It returns to the one below.
LEMMA MotionPopOf ==
  ASSUME MotionStacked, stack # <<>>, Motion!Pop, Motion!AnimationAssumption
  PROVE  /\ MotionStacked'
         /\ \A k \in 1 .. Len(stack') : k \in 1 .. Len(stack) /\ k # Len(stack) /\ stack'[k] = stack[k]
         /\ \A k \in 1 .. Len(stack) : k # Len(stack) => k \in 1 .. Len(stack')
  <1>1. /\ stack' \in Seq(MotionFrames) /\ Len(stack') = Len(stack) - 1 /\ Len(stack) \in Nat \ {0}
        /\ \A k \in 1 .. Len(stack) - 1 : stack'[k] = stack[k]
    BY StackTop DEF MotionStacked, Motion!Pop
  <1>2. MotionStacked'
    BY <1>1 DEF MotionStacked, Motion!AnimationAssumption
  <1> QED
    BY <1>1, <1>2

\* Whatever the operation that returns does to the wake and the entries, nothing
\* new is known, and the other operations are where they were.
LEMMA MotionPopBusy ==
  ASSUME MotionStacked, stack # <<>>, Motion!Pop, Motion!AnimationAssumption, MotionBusy,
         UNCHANGED <<started, completions>>, running' \cup ended' \subseteq running \cup ended
  PROVE  MotionBusy'
  <1>1. \A k \in 1 .. Len(stack') : k \in 1 .. Len(stack) /\ stack'[k] = stack[k]
    BY MotionPopOf
  <1> QED
    BY <1>1 DEF MotionBusy

\* The next animation of the snapshot.
LEMMA MotionStepOfKeeps ==
  ASSUME MotionIInv, Motion!AnimationAssumption, stack # <<>>, Motion!StepOf
  PROVE  MotionIInv'
  <1>p. /\ MotionKnown /\ MotionFlags /\ MotionBounded /\ MotionStacked /\ MotionHistories
        /\ MotionBusy /\ MotionFresh /\ MotionReduced /\ MotionAttended /\ MotionClosed
        /\ Motion!OneWake
    BY MotionInvParts
  <1> DEFINE n == Len(stack)
  <1>0. /\ n \in Nat \ {0} /\ n \in 1 .. n /\ Motion!Top = stack[n] /\ Motion!Top \in MotionFrames
        /\ Motion!Top.at = "next"
        /\ UNCHANGED <<running, wake, timers, reduced_motion, destroyed, started, ended, completions, thrown>>
    BY <1>p, MotionTopOf DEF Motion!StepOf
  <1>1. PICK i \in Motion!Top.left :
          IF i \in running
          THEN /\ \E done \in IF Motion!Top.kind = "reduce" THEN {TRUE} ELSE Motion!Due(i) :
                     Motion!SetTop([Motion!Top EXCEPT !.left = @ \ {i}, !.id = i, !.at = "write", !.done = done])
               /\ age' = IF Motion!Top.kind = "tick" /\ age[i] < Duration THEN [age EXCEPT ![i] = @ + 1] ELSE age
          ELSE Motion!SetTop([Motion!Top EXCEPT !.left = @ \ {i}]) /\ UNCHANGED age
    BY DEF Motion!StepOf
  <1>2. i \in Animations /\ Motion!Top.kind # "apply"
    BY <1>p, <1>0, <1>1 DEF MotionFrames, MotionBusy
  <1>3. PICK f \in MotionFrames :
          /\ Motion!SetTop(f) /\ f.kind = Motion!Top.kind /\ f.left = Motion!Top.left \ {i}
          /\ f.at \in Motion!Calling => f.id \in Animations
          /\ i \in running => f.id = i /\ f.at = "write" /\ (Motion!Top.kind = "reduce" => f.done)
    <2>1. CASE i \in running
      <3>1. PICK done \in BOOLEAN :
               /\ Motion!SetTop([Motion!Top EXCEPT !.left = @ \ {i}, !.id = i, !.at = "write", !.done = done])
               /\ Motion!Top.kind = "reduce" => done
        BY <1>1, <2>1 DEF Motion!Due
      <3> DEFINE f == [Motion!Top EXCEPT !.left = @ \ {i}, !.id = i, !.at = "write", !.done = done]
      <3>2. /\ f \in MotionFrames /\ f.kind = Motion!Top.kind /\ f.left = Motion!Top.left \ {i}
            /\ f.id = i
            /\ f.at = "write" /\ f.done = done
        BY <1>0, <1>2 DEF MotionFrames, Motion!Calling
      <3> QED
        BY <1>2, <3>1, <3>2
    <2>2. CASE i \notin running
      <3> DEFINE f == [Motion!Top EXCEPT !.left = @ \ {i}]
      <3>1. /\ f \in MotionFrames /\ f.kind = Motion!Top.kind /\ f.left = Motion!Top.left \ {i}
            /\ f.at = "next"
        BY <1>0 DEF MotionFrames
      <3>2. Motion!SetTop(f)
        BY <1>1, <2>2
      <3> QED
        BY <2>2, <3>1, <3>2 DEF Motion!Calling
    <2> QED
      BY <2>1, <2>2
  <1>4. /\ MotionStacked' /\ Len(stack') = n
        /\ \A k \in 1 .. n : stack'[k] = IF k = n THEN f ELSE stack[k]
    BY <1>p, <1>3, MotionSetOf
  <1> HIDE DEF n
  <1>5. /\ MotionKnown' /\ MotionFlags' /\ MotionBounded' /\ MotionFresh' /\ MotionClosed'
        /\ Motion!OneWake'
    BY <1>p, <1>0
       DEF MotionKnown, MotionFlags, MotionBounded, MotionFresh, MotionClosed, Motion!OneWake
  <1>6. MotionHistories'
    <2>1. age' \in [Animations -> 0 .. Duration]
      <3>1. CASE i \in running /\ Motion!Top.kind = "tick" /\ age[i] < Duration
        <4>1. age' = [age EXCEPT ![i] = @ + 1]
          BY <1>1, <3>1
        <4> QED
          BY <1>p, <1>2, <3>1, <4>1 DEF MotionHistories, Motion!AnimationAssumption
      <3>2. CASE ~(i \in running /\ Motion!Top.kind = "tick" /\ age[i] < Duration)
        <4>1. age' = age
          BY <1>1, <3>2
        <4> QED
          BY <1>p, <4>1 DEF MotionHistories
      <3> QED
        BY <3>1, <3>2
    <2> QED
      BY <1>p, <1>0, <2>1 DEF MotionHistories
  <1>7. MotionBusy'
    <2>1. \A k \in 1 .. n : stack[k].kind = "apply" \/ stack'[k].kind = "apply" => stack'[k] = stack[k]
      BY <1>0, <1>2, <1>3, <1>4
    <2>2. \A k \in 1 .. n : stack'[k].at \in Motion!Calling => stack'[k].id \in Animations
      BY <1>p, <1>3, <1>4 DEF MotionBusy, n
    <2> QED
      BY <1>p, <1>0, <1>4, <2>1, <2>2 DEF MotionBusy, n
  <1>8. MotionAttended'
    <2>1. \A k \in 1 .. n : stack'[k].kind = stack[k].kind
      BY <1>0, <1>3, <1>4
    <2> QED
      BY <1>p, <1>0, <1>4, <2>1 DEF MotionAttended, n
  <1>9. MotionReduced'
    <2>1. \A j \in running : \A k \in 1 .. n : MotionReducing(stack[k], j) => MotionReducing(stack'[k], j)
      <3> SUFFICES ASSUME NEW j \in running, MotionReducing(Motion!Top, j) PROVE MotionReducing(f,
                          j)
        BY <1>0, <1>4
      <3>1. Motion!Top.kind = "reduce" /\ j \in Motion!Top.left
        BY <1>0 DEF MotionReducing, MotionWorks
      <3> QED
        BY <1>3, <3>1 DEF MotionReducing, MotionWorks
    <2> QED
      BY <1>p, <1>0, <1>4, <2>1 DEF MotionReduced, n
  <1> QED
    BY <1>4, <1>5, <1>6, <1>7, <1>8, <1>9 DEF MotionIInv

\* A snapshot is done: what is there gets a wake, unless another operation is at it.
LEMMA MotionFrameEndsKeeps ==
  ASSUME MotionIInv, Motion!AnimationAssumption, stack # <<>>, Motion!FrameEnds
  PROVE  MotionIInv'
  <1>p. /\ MotionKnown /\ MotionFlags /\ MotionBounded /\ MotionStacked /\ MotionHistories
        /\ MotionBusy /\ MotionFresh /\ MotionReduced /\ MotionAttended /\ MotionClosed
        /\ Motion!OneWake
    BY MotionInvParts
  <1> DEFINE n == Len(stack)
  <1>0. /\ n \in Nat \ {0} /\ n \in 1 .. n /\ Motion!Top = stack[n] /\ Motion!Top \in MotionFrames
        /\ Motion!Top.at = "next" /\ Motion!Top.left = {} /\ Motion!Pop
        /\ UNCHANGED <<destroyed, started, age, completions>>
    BY <1>p, MotionTopOf DEF Motion!FrameEnds
  <1>1. /\ MotionStacked'
        /\ \A k \in 1 .. Len(stack') : k \in 1 .. n /\ k # n /\ stack'[k] = stack[k]
        /\ \A k \in 1 .. n : k # n => k \in 1 .. Len(stack')
    BY <1>p, <1>0, MotionPopOf
  <1>2. \A j : ~MotionReducing(stack[n], j)
    BY <1>0 DEF MotionReducing, MotionWorks
  <1>3. reduced_motion => \A j \in running : \E k \in 1 .. Len(stack') : MotionReducing(stack'[k], j)
    BY <1>p, <1>1, <1>2 DEF MotionReduced
  <1>4. reduced_motion /\ running # {} => \E k \in 1 .. Len(stack') : stack'[k].kind # "apply"
    BY <1>3 DEF MotionReducing
  <1>5. Motion!Top.kind = "apply" /\ running # {} /\ ~wake => \E k \in 1 .. Len(stack') : stack'[k].kind # "apply"
    BY <1>p, <1>0, <1>1 DEF MotionAttended
  <1> HIDE DEF n
  <1>6. /\ Motion!OneWake' /\ MotionBounded' /\ wake' \in BOOLEAN /\ reduced_motion' \in BOOLEAN
        /\ \/ running' = running /\ ended' = ended
           \/ running' = {} /\ ended' = ended \cup running
        /\ running' # {} => /\ reduced_motion' = reduced_motion
                            /\ wake' \/ reduced_motion \/ (Motion!Top.kind = "apply" /\ ~wake)
        /\ wake' => wake \/ running # {}
    <2>0. ended \cup (running \ {}) = ended \cup running
      OBVIOUS
    <2>1. CASE Motion!EnsureWake(running, reduced_motion, {}) /\ UNCHANGED reduced_motion
      <3>1. Motion!OneWake' /\ MotionBounded' /\ wake' \in BOOLEAN
        BY <1>p, <2>1, MotionWakeEnsured DEF MotionFlags
      <3>2. \/ running' = running /\ ended' = ended /\ (running = {} \/ reduced_motion \/ wake')
            \/ running' = {} /\ ended' = ended \cup (running \ {}) /\ running # {} /\ ~reduced_motion
        BY <1>p, <2>1, MotionWakeEnsured DEF MotionFlags
      <3>3. wake' => wake \/ running # {}
        BY <2>1 DEF Motion!EnsureWake, Motion!KeepWake
      <3>4. reduced_motion' \in BOOLEAN /\ reduced_motion' = reduced_motion
        BY <1>p, <2>1 DEF MotionFlags
      <3> QED
        BY <2>0, <3>1, <3>2, <3>3, <3>4
    <2>2. CASE Motion!Top.kind = "reduce" /\ running = {}
      <3>1. Motion!CancelWake /\ Motion!Smoothly /\ UNCHANGED <<running, ended, reduced_motion>>
        BY <2>2 DEF Motion!FrameEnds
      <3>2. Motion!OneWake'
        BY <1>p, <3>1 DEF Motion!CancelWake, Motion!OneWake, MotionFlags
      <3>3. MotionBounded' /\ wake' = FALSE /\ reduced_motion' \in BOOLEAN
        BY <1>p, <3>1 DEF Motion!CancelWake, Motion!Smoothly, MotionBounded, MotionFlags
      <3> QED
        BY <2>2, <3>1, <3>2, <3>3
    <2>3. CASE ~wake /\ ~reduced_motion /\ Motion!Fault /\ reduced_motion' = TRUE /\ Motion!Drop({}) /\ Motion!KeepWake
      <3>1. Motion!OneWake' /\ wake' = wake
        BY <1>p, <2>3 DEF Motion!KeepWake, Motion!OneWake
      <3>2. MotionBounded'
        BY <1>p, <2>3 DEF Motion!Fault, MotionBounded, Motion!AnimationAssumption
      <3>3. running' = {} /\ ended' = ended \cup running /\ reduced_motion' \in BOOLEAN
        BY <2>0, <2>3 DEF Motion!Drop
      <3> QED
        BY <1>p, <3>1, <3>2, <3>3 DEF MotionFlags
    <2>4. CASE Motion!Top.kind = "apply"
      <3>1. Motion!Smoothly /\ Motion!KeepWake /\ UNCHANGED <<running, ended, reduced_motion>>
        BY <2>4 DEF Motion!FrameEnds
      <3>2. Motion!OneWake' /\ wake' = wake /\ MotionBounded'
        BY <1>p, <3>1 DEF Motion!KeepWake, Motion!Smoothly, Motion!OneWake, MotionBounded
      <3>3. wake \in BOOLEAN /\ reduced_motion \in BOOLEAN
        BY <1>p DEF MotionFlags
      <3> QED
        BY <2>4, <3>1, <3>2, <3>3
    <2>5. Motion!Top.kind \in {"tick", "reduce", "apply"}
      BY <1>0 DEF MotionFrames
    <2> QED
      BY <2>1, <2>2, <2>3, <2>4, <2>5 DEF Motion!FrameEnds
  <1>7. running' \cup ended' = running \cup ended
    BY <1>6
  <1>8. MotionKnown' /\ MotionFlags' /\ MotionHistories'
    BY <1>p, <1>0, <1>6, <1>7 DEF MotionKnown, MotionFlags, MotionHistories
  <1>9. MotionBusy'
    BY <1>p, <1>0, <1>7, MotionPopBusy
  <1>10. MotionFresh'
    BY <1>p, <1>0, <1>6 DEF MotionFresh
  <1>11. MotionReduced'
    BY <1>3, <1>6 DEF MotionReduced
  <1>12. MotionAttended'
    BY <1>4, <1>5, <1>6 DEF MotionAttended
  <1>13. MotionClosed'
    BY <1>p, <1>0, <1>6 DEF MotionClosed
  <1> QED
    BY <1>1, <1>6, <1>8, <1>9, <1>10, <1>11, <1>12, <1>13 DEF MotionIInv

\* A callback returns; an animation that is done is completed, if it is still there.
LEMMA MotionReturnsKeeps ==
  ASSUME MotionIInv, Motion!AnimationAssumption, Motion!Returns
  PROVE  MotionIInv'
  <1>p. /\ MotionKnown /\ MotionFlags /\ MotionBounded /\ MotionStacked /\ MotionHistories
        /\ MotionBusy /\ MotionFresh /\ MotionReduced /\ MotionAttended /\ MotionClosed
        /\ Motion!OneWake
    BY MotionInvParts
  <1> DEFINE n == Len(stack)
  <1>0. /\ stack # <<>> /\ Motion!Top.at \in Motion!Calling
        /\ UNCHANGED <<wake, timers, reduced_motion, destroyed, started, age, ended, thrown>>
    BY DEF Motion!Returns
  <1>1. n \in Nat \ {0} /\ n \in 1 .. n /\ Motion!Top = stack[n] /\ Motion!Top \in MotionFrames
    BY <1>p, <1>0, MotionTopOf
  <1>2. CASE destroyed
    <2>1. Motion!Pop /\ UNCHANGED <<running, completions>> /\ running = {}
      BY <1>p, <1>2 DEF Motion!Returns, MotionClosed
    <2>2. MotionStacked'
      BY <1>p, <1>0, <2>1, MotionPopOf
    <2>3. /\ MotionKnown' /\ MotionFlags' /\ MotionBounded' /\ MotionHistories' /\ MotionFresh'
          /\ MotionClosed' /\ Motion!OneWake'
      BY <1>p, <1>0, <2>1
         DEF MotionKnown, MotionFlags, MotionBounded, MotionHistories, MotionFresh, MotionClosed,
             Motion!OneWake
    <2>4. MotionBusy'
      BY <1>p, <1>0, <2>1, MotionPopBusy
    <2>5. MotionReduced' /\ MotionAttended'
      BY <2>1 DEF MotionReduced, MotionAttended
    <2> QED
      BY <2>2, <2>3, <2>4, <2>5 DEF MotionIInv
  <1>3. CASE ~destroyed
    <2> DEFINE completes == /\ Motion!Top.at = "invalidate" /\ Motion!Top.done
                            /\ Motion!Top.kind = "apply" \/ Motion!Top.id \in running
               at == IF completes THEN "complete"
                     ELSE IF Motion!Top.at = "write" THEN "invalidate" ELSE "next"
               f == [Motion!Top EXCEPT !.at = at]
    <2>1. /\ Motion!SetTop(f)
          /\ running' = IF completes THEN running \ {Motion!Top.id} ELSE running
          /\ completions' = IF completes THEN [completions EXCEPT ![Motion!Top.id] = @ + 1] ELSE completions
      BY <1>3 DEF Motion!Returns
    <2>2. /\ f \in MotionFrames /\ f.kind = Motion!Top.kind /\ f.left = Motion!Top.left
          /\ f.id = Motion!Top.id
          /\ f.done = Motion!Top.done /\ f.at = at
      BY <1>1 DEF MotionFrames, Motion!Calling
    <2>3. /\ Motion!Top.id \in Animations
          /\ Motion!Top.kind = "apply" =>
                       /\ Motion!Top.left = {} /\ Motion!Top.done
                       /\ Motion!Top.id \in {i \in Animations : i <= started} \ (running \cup ended)
                       /\ Motion!Top.at \in {"write", "invalidate"} => completions[Motion!Top.id] = 0
                       /\ \A l \in 1 .. n : stack[l].kind = "apply" /\ stack[l].id = Motion!Top.id => n = l
      BY <1>p, <1>0, <1>1 DEF MotionBusy
    <2>4. completes => completions[Motion!Top.id] = 0 /\ Motion!Top.id <= started
      BY <1>p, <2>3 DEF MotionFresh, MotionKnown
    <2>5. f.at \in {"write", "invalidate"} => f.at = "invalidate" /\ Motion!Top.at = "write"
      BY <1>0, <2>2 DEF Motion!Calling
    <2>6. Motion!Top.at = "invalidate" /\ Motion!Top.done /\ Motion!Top.id \in running => completes
      OBVIOUS
    <2>7. completes => f.at = "complete"
      BY <2>2
    <2>8. /\ running' \subseteq running /\ (completes => Motion!Top.id \notin running')
          /\ \A i \in Animations : i # Motion!Top.id \/ ~completes => completions'[i] = completions[i]
      BY <1>p, <2>1, <2>3 DEF MotionHistories
    <2>9. MotionHistories'
      <3>1. completions' \in [Animations -> 0 .. 1]
        <4>1. CASE completes
          <5>1. /\ completions' = [completions EXCEPT ![Motion!Top.id] = completions[Motion!Top.id] + 1]
                /\ completions[Motion!Top.id] + 1 = 1
            BY <2>1, <2>4, <4>1
          <5> QED
            BY <1>p, <2>3, <5>1 DEF MotionHistories
        <4>2. CASE ~completes
          BY <1>p, <2>1, <4>2 DEF MotionHistories
        <4> QED
          BY <4>1, <4>2
      <3> QED
        BY <1>p, <1>0, <3>1 DEF MotionHistories
    <2> HIDE DEF f, completes, at
    <2>10. /\ MotionStacked' /\ Len(stack') = n
           /\ \A k \in 1 .. n : stack'[k] = IF k = n THEN f ELSE stack[k]
      BY <1>p, <1>0, <2>1, <2>2, MotionSetOf
    <2> HIDE DEF n
    <2>11. MotionKnown' /\ MotionFlags' /\ MotionBounded' /\ Motion!OneWake' /\ MotionClosed'
      BY <1>p, <1>0, <2>8 DEF MotionKnown, MotionFlags, MotionBounded, Motion!OneWake, MotionClosed
    <2>12. MotionFresh'
      <3>1. \A i \in Animations : i > started => i # Motion!Top.id \/ ~completes
        BY <1>p, <2>3, <2>4 DEF MotionKnown, Motion!AnimationAssumption
      <3> QED
        BY <1>p, <1>0, <2>8, <3>1 DEF MotionFresh, MotionKnown
    <2>13. MotionAttended'
      <3>1. \A k \in 1 .. n : stack'[k].kind = stack[k].kind
        BY <1>1, <2>2, <2>10
      <3> QED
        BY <1>p, <1>0, <2>8, <2>10, <3>1 DEF MotionAttended, n
    <2>14. MotionReduced'
      <3>1. \A j \in running' : \A k \in 1 .. n : MotionReducing(stack[k], j) => MotionReducing(stack'[k], j)
        <4> SUFFICES ASSUME NEW j \in running', MotionReducing(Motion!Top,
                            j) PROVE MotionReducing(f, j)
          BY <1>1, <2>10
        <4>1. CASE j \in Motion!Top.left
          BY <2>2, <4>1 DEF MotionReducing
        <4>2. CASE j \notin Motion!Top.left
          <5>1. /\ Motion!Top.id = j /\ Motion!Top.at \in {"write", "invalidate"} /\ Motion!Top.done
                /\ Motion!Top.kind = "reduce"
            BY <4>2 DEF MotionReducing, MotionWorks
          <5>2. Motion!Top.at = "write"
            BY <2>6, <2>8, <5>1
          <5>3. f.at = "invalidate"
            BY <2>2, <5>2 DEF at, completes
          <5> QED
            BY <2>2, <5>1, <5>3 DEF MotionReducing, MotionWorks
        <4> QED
          BY <4>1, <4>2
      <3> QED
        BY <1>p, <1>0, <2>8, <2>10, <3>1 DEF MotionReduced, n
    <2>15. MotionBusy'
      <3> SUFFICES ASSUME NEW k \in 1 .. n
                   PROVE  /\ stack'[k].at \in Motion!Calling => stack'[k].id \in Animations
                          /\ stack'[k].kind = "apply" =>
                                /\ stack'[k].left = {} /\ stack'[k].done
                                /\ stack'[k].id \in {j \in Animations : j <= started'} \ (running' \cup ended')
                                /\ stack'[k].at \in {"write", "invalidate"} => completions'[stack'[k].id] = 0
                                /\ \A l \in 1 .. n :
                                      stack'[l].kind = "apply" /\ stack'[l].id = stack'[k].id => k = l
        BY <2>10 DEF MotionBusy
      <3>1. \A l \in 1 .. n : /\ stack'[l].kind = stack[l].kind /\ stack'[l].id = stack[l].id
                              /\ stack'[l].left = stack[l].left /\ stack'[l].done = stack[l].done
        BY <1>1, <2>2, <2>10
      <3>2. stack[k].at \in Motion!Calling => stack[k].id \in Animations
        BY <1>p DEF MotionBusy, n
      <3>3. stack[k].id \in Animations \/ stack'[k].at \notin Motion!Calling
        BY <1>1, <2>3, <2>10, <3>2
      <3>4. ASSUME stack[k].kind = "apply"
            PROVE  /\ stack[k].left = {} /\ stack[k].done
                   /\ stack[k].id \in {j \in Animations : j <= started} \ (running \cup ended)
                   /\ stack[k].at \in {"write", "invalidate"} => completions[stack[k].id] = 0
                   /\ \A l \in 1 .. n : stack[l].kind = "apply" /\ stack[l].id = stack[k].id => k = l
        BY <1>p, <3>4 DEF MotionBusy, n
      <3>5. ASSUME stack[k].kind = "apply", stack'[k].at \in {"write", "invalidate"}
            PROVE  completions'[stack[k].id] = 0
        <4>1. CASE k = n
          <5>1. Motion!Top.at = "write" /\ f.at = "invalidate"
            BY <2>5, <2>10, <3>5, <4>1
          <5>2. ~completes
            BY <2>7, <5>1
          <5> QED
            BY <1>1, <2>8, <3>4, <3>5, <4>1, <5>1, <5>2
        <4>2. CASE k # n
          <5>1. stack'[k] = stack[k]
            BY <2>10, <4>2
          <5>2. completions[stack[k].id] = 0
            BY <3>4, <3>5, <5>1
          <5>3. completes => stack[k].id # Motion!Top.id
            <6>1. CASE Motion!Top.kind = "apply"
              BY <1>1, <3>4, <3>5, <4>2, <6>1
            <6>2. CASE Motion!Top.kind # "apply"
              BY <3>4, <3>5, <6>2 DEF completes
            <6> QED
              BY <6>1, <6>2
          <5> QED
            BY <2>8, <3>4, <3>5, <5>2, <5>3
        <4> QED
          BY <4>1, <4>2
      <3> QED
        BY <1>0, <2>8, <3>1, <3>3, <3>4, <3>5
    <2> QED
      BY <2>9, <2>10, <2>11, <2>12, <2>13, <2>14, <2>15 DEF MotionIInv
  <1> QED
    BY <1>2, <1>3

\* A callback throws: what is left of a tick gets a wake, or is dropped.
LEMMA MotionThrowsKeeps ==
  ASSUME MotionIInv, Motion!AnimationAssumption, Motion!Throws
  PROVE  MotionIInv'
  <1>p. /\ MotionKnown /\ MotionFlags /\ MotionBounded /\ MotionStacked /\ MotionHistories
        /\ MotionBusy /\ MotionFresh /\ MotionReduced /\ MotionAttended /\ MotionClosed
        /\ Motion!OneWake
    BY MotionInvParts
  <1> DEFINE n == Len(stack)
  <1>0. stack # <<>> /\ Motion!Pop /\ UNCHANGED <<destroyed, started, age, completions>>
    BY DEF Motion!Throws
  <1>1. n \in Nat \ {0} /\ n \in 1 .. n /\ Motion!Top = stack[n] /\ Motion!Top \in MotionFrames
    BY <1>p, <1>0, MotionTopOf
  <1>2. /\ MotionStacked'
        /\ \A k \in 1 .. Len(stack') : k \in 1 .. n /\ k # n /\ stack'[k] = stack[k]
        /\ \A k \in 1 .. n : k # n => k \in 1 .. Len(stack')
    BY <1>p, <1>0, MotionPopOf
  <1> HIDE DEF n
  <1>3. CASE destroyed \/ Motion!Top.kind = "apply"
    <2>1. Motion!Fault /\ Motion!KeepWake /\ UNCHANGED <<running, ended, reduced_motion>>
      BY <1>3 DEF Motion!Throws
    <2>2. MotionBounded'
      BY <1>p, <2>1 DEF Motion!Fault, MotionBounded, Motion!AnimationAssumption
    <2>3. /\ MotionKnown' /\ MotionFlags' /\ MotionHistories' /\ MotionFresh' /\ MotionClosed'
          /\ Motion!OneWake'
      BY <1>p, <1>0, <2>1
         DEF Motion!KeepWake, MotionKnown, MotionFlags, MotionHistories, MotionFresh, MotionClosed,
             Motion!OneWake
    <2>4. MotionBusy'
      <3>1. running' \cup ended' \subseteq running \cup ended
        BY <2>1
      <3> QED
        BY <1>p, <1>0, <3>1, MotionPopBusy
    <2>5. running # {} => Motion!Top.kind = "apply"
      BY <1>p, <1>3 DEF MotionClosed
    <2>6. MotionReduced'
      <3>1. running # {} => \A j : ~MotionReducing(stack[n], j)
        BY <1>1, <2>5 DEF MotionReducing
      <3> QED
        BY <1>p, <1>2, <2>1, <3>1 DEF MotionReduced, n
    <2>7. MotionAttended'
      BY <1>p, <1>1, <1>2, <2>1, <2>5 DEF MotionAttended, Motion!KeepWake, n
    <2> QED
      BY <1>2, <2>2, <2>3, <2>4, <2>6, <2>7 DEF MotionIInv
  <1>4. CASE ~destroyed /\ Motion!Top.kind # "apply"
    <2>1. \/ Motion!Recover(running \ {Motion!Top.id}) /\ UNCHANGED reduced_motion
          \/ Motion!Fault /\ reduced_motion' = TRUE /\ Motion!Drop({}) /\ Motion!CancelWake
      BY <1>4 DEF Motion!Throws
    <2>2. /\ Motion!OneWake' /\ MotionBounded' /\ wake' \in BOOLEAN /\ reduced_motion' \in BOOLEAN
          /\ running' \subseteq running /\ ended' = ended \cup (running \ running')
          /\ running' # {} => wake' /\ ~reduced_motion'
      <3>0. /\ wake \in BOOLEAN /\ reduced_motion \in BOOLEAN /\ thrown \in 0 .. MaxThrown
            /\ MaxThrown \in Nat
        BY <1>p DEF MotionFlags, MotionBounded, Motion!AnimationAssumption
      <3>1. CASE Motion!Drop({}) /\ Motion!CancelWake /\ Motion!Fault /\ reduced_motion' \in BOOLEAN
        <4>1. Motion!OneWake'
          BY <1>p, <3>0, <3>1 DEF Motion!OneWake, Motion!CancelWake
        <4>2. MotionBounded'
          BY <3>0, <3>1 DEF MotionBounded, Motion!Fault
        <4>3. wake' = FALSE /\ running' = {} /\ ended' = ended \cup (running \ {})
          BY <3>1 DEF Motion!Drop, Motion!CancelWake
        <4> QED
          BY <3>1, <4>1, <4>2, <4>3
      <3>2. CASE /\ Motion!Drop(running \ {Motion!Top.id}) /\ wake' = TRUE /\ Motion!Fault
                 /\ timers' = (IF wake THEN timers ELSE timers + 1)
                 /\ ~reduced_motion /\ UNCHANGED reduced_motion
        <4>1. Motion!OneWake'
          BY <1>p, <3>0, <3>2 DEF Motion!OneWake
        <4>2. MotionBounded'
          BY <3>0, <3>2 DEF MotionBounded, Motion!Fault
        <4>3. running' \subseteq running /\ ended' = ended \cup (running \ running')
          BY <3>2 DEF Motion!Drop
        <4> QED
          BY <3>0, <3>2, <4>1, <4>2, <4>3
      <3>3. CASE ~wake /\ thrown + 2 <= MaxThrown /\ thrown' = thrown + 2 /\ Motion!Drop({}) /\ Motion!KeepWake
                 /\ UNCHANGED reduced_motion
        <4>1. Motion!OneWake' /\ wake' = wake
          BY <1>p, <3>3 DEF Motion!OneWake, Motion!KeepWake
        <4>2. MotionBounded'
          BY <3>0, <3>3 DEF MotionBounded
        <4>3. running' = {} /\ ended' = ended \cup (running \ {})
          BY <3>3 DEF Motion!Drop
        <4> QED
          BY <3>0, <3>3, <4>1, <4>2, <4>3
      <3> QED
        BY <2>1, <3>0, <3>1, <3>2, <3>3 DEF Motion!Recover
    <2>3. running' \cup ended' = running \cup ended
      BY <2>2
    <2>4. MotionKnown' /\ MotionFlags' /\ MotionHistories'
      BY <1>p, <1>0, <2>2, <2>3 DEF MotionKnown, MotionFlags, MotionHistories
    <2>5. MotionBusy'
      BY <1>p, <1>0, <2>3, MotionPopBusy
    <2>6. MotionFresh' /\ MotionReduced' /\ MotionAttended' /\ MotionClosed'
      BY <1>p, <1>0, <1>4, <2>2 DEF MotionFresh, MotionReduced, MotionAttended, MotionClosed
    <2> QED
      BY <1>2, <2>2, <2>4, <2>5, <2>6 DEF MotionIInv
  <1> QED
    BY <1>3, <1>4

\* Every step keeps the invariant.
LEMMA MotionStep ==
  ASSUME MotionIInv, Motion!AnimationAssumption, [Motion!Next]_(Motion!vars)
  PROVE  MotionIInv'
  <1>1. CASE UNCHANGED Motion!vars
    <2>1. MotionIInv' <=> MotionIInv
      BY <1>1
         DEF Motion!vars, MotionIInv, MotionKnown, MotionFlags, MotionBounded, MotionStacked,
             MotionHistories, MotionBusy, MotionFresh, MotionReduced, MotionAttended, MotionClosed,
             Motion!OneWake
    <2> QED
      BY <2>1
  <1>2. CASE Motion!Next
    BY <1>2, MotionStartKeeps, MotionCancelKeeps, MotionReduceKeeps, MotionRestoreKeeps,
       MotionWakeFiresKeeps, MotionStepOfKeeps, MotionFrameEndsKeeps, MotionReturnsKeeps,
       MotionThrowsKeeps, MotionDestroyKeeps DEF Motion!Next, Motion!Goes
  <1> QED
    BY <1>1, <1>2

\* What the runs check of every state follows from the invariant.
LEMMA MotionInvSound ==
  ASSUME MotionIInv, Motion!AnimationAssumption
  PROVE  Motion!TypeOK /\ Motion!NoneStranded /\ Motion!OneWake
  <1>p. /\ MotionKnown /\ MotionFlags /\ MotionBounded /\ MotionStacked /\ MotionHistories
        /\ MotionBusy /\ MotionFresh /\ MotionReduced /\ MotionAttended /\ MotionClosed
        /\ Motion!OneWake
    BY MotionInvParts
  <1>1. DOMAIN stack = 1 .. Len(stack) /\ Len(stack) \in Nat /\ \A k \in 1 .. Len(stack) : stack[k] \in MotionFrames
    BY <1>p DEF MotionStacked
  <1>2. Motion!TypeOK
    <2>1. timers \in 0 .. 2
      BY <1>p DEF Motion!OneWake
    <2>2. age \in [Animations -> 0 .. Duration] /\ completions \in [Animations -> 0 .. 2]
      <3>1. \A i \in Animations : completions[i] \in 0 .. 2
        BY <1>p DEF MotionHistories
      <3> QED
        BY <1>p, <3>1 DEF MotionHistories
    <2>3. \A k \in DOMAIN stack :
             /\ stack[k].kind \in {"tick", "reduce", "apply"}
             /\ stack[k].at \in Motion!Calling \cup {"next"}
             /\ stack[k].left \subseteq Animations /\ stack[k].id \in Animations \cup {0}
      BY <1>1 DEF MotionFrames
    <2>4. running \cup ended \subseteq {i \in Animations : i <= started}
          /\ thrown \in 0 .. MaxThrown /\ Len(stack) <= MaxNested
      BY <1>p DEF MotionKnown, MotionBounded, MotionStacked
    <2>5. {wake, reduced_motion, destroyed} \subseteq BOOLEAN
      BY <1>p DEF MotionFlags
    <2> QED
      BY <2>1, <2>2, <2>3, <2>4, <2>5 DEF Motion!TypeOK
  <1>3. Motion!NoneStranded
    <2>1. CASE stack = <<>>
      <3>1. Len(stack) = 0
        BY <2>1
      <3>2. \A k \in 1 .. Len(stack) : FALSE
        BY <3>1
      <3> QED
        BY <1>p, <2>1, <3>2 DEF Motion!NoneStranded, MotionAttended, MotionReduced
    <2>2. CASE stack # <<>>
      BY <1>p, <1>1, <2>2 DEF Motion!NoneStranded, MotionAttended
    <2> QED
      BY <2>1, <2>2
  <1> QED
    BY <1>p, <1>2, <1>3

\* Only a callback's return tells a completion: of an animation to which nothing
\* has happened.
LEMMA MotionCompletesStep ==
  ASSUME MotionIInv, Motion!AnimationAssumption, [Motion!Next]_(Motion!vars)
  PROVE  \A i \in Animations : completions'[i] # completions[i] => completions[i] = 0 /\ i \notin ended
  <1>p. /\ MotionKnown /\ MotionFlags /\ MotionBounded /\ MotionStacked /\ MotionHistories
        /\ MotionBusy /\ MotionFresh /\ MotionReduced /\ MotionAttended /\ MotionClosed
        /\ Motion!OneWake
    BY MotionInvParts
  <1>1. CASE Motion!Returns
    <2>1. stack # <<>> /\ Motion!Top.at \in Motion!Calling
      BY <1>1 DEF Motion!Returns
    <2>2. Len(stack) \in 1 .. Len(stack) /\ Motion!Top = stack[Len(stack)]
      BY <1>p, <2>1, MotionTopOf
    <2>3. CASE completions' # completions
      <3>1. /\ Motion!Top.at = "invalidate"
            /\ (Motion!Top.kind = "apply" \/ Motion!Top.id \in running)
            /\ completions' = [completions EXCEPT ![Motion!Top.id] = @ + 1]
        BY <1>1, <2>3 DEF Motion!Returns
      <3>2. completions[Motion!Top.id] = 0 /\ Motion!Top.id \notin ended
        BY <1>p, <2>2, <3>1 DEF MotionBusy, MotionFresh
      <3>3. \A i \in Animations : i # Motion!Top.id => completions'[i] = completions[i]
        BY <1>p, <3>1 DEF MotionHistories
      <3> QED
        BY <3>2, <3>3
    <2> QED
      BY <2>3
  <1>2. CASE ~Motion!Returns
    <2>1. completions' = completions
      BY <1>2
         DEF Motion!Next, Motion!vars, Motion!Start, Motion!Cancel, Motion!Reduce, Motion!Restore,
             Motion!WakeFires, Motion!Goes, Motion!StepOf, Motion!FrameEnds, Motion!Throws,
             Motion!Destroy
    <2> QED
      BY <2>1
  <1> QED
    BY <1>1, <1>2

\* What is written to was begun with this step, or has not ended.
LEMMA MotionWritesStep ==
  ASSUME MotionIInv, Motion!AnimationAssumption, [Motion!Next]_(Motion!vars)
  PROVE  \A i \in Animations :
           LET writes == \E k \in DOMAIN stack' : stack'[k].id = i /\ stack'[k].at = "write"
                                                  /\ (k \notin DOMAIN stack \/ stack[k] # stack'[k])
           IN  writes => i \in running \/ i = started'
  <1>p. /\ MotionKnown /\ MotionFlags /\ MotionBounded /\ MotionStacked /\ MotionHistories
        /\ MotionBusy /\ MotionFresh /\ MotionReduced /\ MotionAttended /\ MotionClosed
        /\ Motion!OneWake
    BY MotionInvParts
  <1>d. DOMAIN stack = 1 .. Len(stack) /\ Len(stack) \in Nat
    BY <1>p DEF MotionStacked
  <1> SUFFICES ASSUME NEW i \in Animations, NEW k \in DOMAIN stack',
                      stack'[k].id = i, stack'[k].at = "write",
                      k \notin DOMAIN stack \/ stack[k] # stack'[k]
               PROVE  i \in running \/ i = started'
    OBVIOUS
  <1>1. CASE UNCHANGED stack
    BY <1>1
  <1>2. ASSUME NEW f \in MotionFrames, stack' = Append(stack, f), f.at = "write" => f.id = started'
        PROVE  i = started'
    <2>1. /\ Len(stack') = Len(stack) + 1 /\ stack' \in Seq(MotionFrames)
          /\ \A l \in 1 .. Len(stack) : stack'[l] = stack[l]
          /\ stack'[Len(stack) + 1] = f
      BY <1>p, <1>2, StackPush DEF MotionStacked
    <2>2. k \in 1 .. Len(stack) + 1
      BY <2>1
    <2>3. k \notin 1 .. Len(stack)
      BY <1>d, <2>1
    <2>4. k = Len(stack) + 1
      BY <1>d, <2>2, <2>3
    <2> QED
      BY <1>2, <2>1, <2>4
  <1>3. ASSUME stack # <<>>, NEW f \in MotionFrames, Motion!SetTop(f),
               f.at = "write" => f.id \in running
        PROVE  i \in running
    <2>1. /\ stack' \in Seq(MotionFrames) /\ Len(stack') = Len(stack)
          /\ \A l \in 1 .. Len(stack) : stack'[l] = IF l = Len(stack) THEN f ELSE stack[l]
      BY <1>p, <1>3, MotionSetOf DEF MotionStacked
    <2>2. k \in 1 .. Len(stack)
      BY <2>1
    <2> QED
      BY <1>3, <1>d, <2>1, <2>2
  <1>4. CASE stack # <<>> /\ Motion!Pop
    <2>1. stack' \in Seq(MotionFrames) /\ \A l \in 1 .. Len(stack') : l \in 1 .. Len(stack) /\ stack'[l] = stack[l]
      BY <1>p, <1>4, MotionPopOf DEF MotionStacked
    <2>2. k \in 1 .. Len(stack')
      BY <2>1
    <2> QED
      BY <1>d, <2>1, <2>2
  <1>5. CASE \E j \in Animations : Motion!Start(j)
    <2>1. PICK j \in Animations : Motion!Start(j)
      BY <1>5
    <2> DEFINE f == [Motion!Frame("apply", {}) EXCEPT !.id = j, !.at = "write", !.done = TRUE]
    <2>2. f \in MotionFrames /\ f.id = j
      BY DEF Motion!Frame, MotionFrames, Motion!Calling
    <2>3. stack' = Append(stack, f) \/ UNCHANGED stack
      BY <2>1 DEF Motion!Start
    <2>4. started' = j
      BY <2>1 DEF Motion!Start
    <2> HIDE DEF f
    <2> QED
      BY <1>1, <1>2, <2>2, <2>3, <2>4
  <1>6. CASE Motion!Reduce \/ Motion!WakeFires
    <2>1. UNCHANGED stack \/ \E kind \in {"reduce", "tick"} : stack' = Append(stack, Motion!Frame(kind, running))
      BY <1>6 DEF Motion!Reduce, Motion!WakeFires
    <2>2. \A kind \in {"reduce", "tick"} : Motion!Frame(kind, running) \in MotionFrames /\ Motion!Frame(kind, running).at # "write"
      BY <1>p DEF Motion!Frame, MotionFrames, Motion!Calling, MotionKnown
    <2> QED
      BY <1>1, <1>2, <2>1, <2>2
  <1>7. CASE stack # <<>> /\ Motion!StepOf
    <2>0. /\ Motion!Top \in MotionFrames /\ Len(stack) \in 1 .. Len(stack)
          /\ Motion!Top = stack[Len(stack)] /\ Motion!Top.at = "next"
      BY <1>p, <1>7, MotionTopOf DEF Motion!StepOf
    <2>1. PICK j \in Motion!Top.left :
            IF j \in running
            THEN \E done \in IF Motion!Top.kind = "reduce" THEN {TRUE} ELSE Motion!Due(j) :
                       Motion!SetTop([Motion!Top EXCEPT !.left = @ \ {j}, !.id = j, !.at = "write", !.done = done])
            ELSE Motion!SetTop([Motion!Top EXCEPT !.left = @ \ {j}])
      BY <1>7 DEF Motion!StepOf
    <2>2. j \in Animations
      BY <2>0, <2>1 DEF MotionFrames
    <2>3. CASE j \in running
      <3>1. PICK done \in BOOLEAN :
               Motion!SetTop([Motion!Top EXCEPT !.left = @ \ {j}, !.id = j, !.at = "write", !.done = done])
        BY <2>1, <2>3 DEF Motion!Due
      <3> DEFINE f == [Motion!Top EXCEPT !.left = @ \ {j}, !.id = j, !.at = "write", !.done = done]
      <3>2. f \in MotionFrames /\ f.id = j /\ f.at = "write"
        BY <2>0, <2>2 DEF MotionFrames, Motion!Calling
      <3>3. Motion!SetTop(f)
        BY <3>1
      <3> HIDE DEF f
      <3> QED
        BY <1>3, <1>7, <2>3, <3>2, <3>3
    <2>4. CASE j \notin running
      <3> DEFINE f == [Motion!Top EXCEPT !.left = @ \ {j}]
      <3>1. f \in MotionFrames /\ f.at = "next"
        BY <2>0 DEF MotionFrames
      <3>2. Motion!SetTop(f)
        BY <2>1, <2>4
      <3> HIDE DEF f
      <3> QED
        BY <1>3, <1>7, <3>1, <3>2
    <2> QED
      BY <2>3, <2>4
  <1>8. CASE Motion!Returns
    <2>0. stack # <<>> /\ Motion!Top.at \in Motion!Calling
      BY <1>8 DEF Motion!Returns
    <2>1. Motion!Top \in MotionFrames
      BY <1>p, <2>0, MotionTopOf
    <2>2. Motion!Pop \/ \E at \in {"invalidate", "complete", "next"} : Motion!SetTop([Motion!Top EXCEPT !.at = at])
      BY <1>8 DEF Motion!Returns
    <2>3. \A at \in {"invalidate", "complete", "next"} :
             /\ [Motion!Top EXCEPT !.at = at] \in MotionFrames
             /\ [Motion!Top EXCEPT !.at = at].at # "write"
      BY <2>1 DEF MotionFrames, Motion!Calling
    <2> QED
      BY <1>3, <1>4, <2>0, <2>2, <2>3
  <1>9. CASE Motion!Throws \/ (stack # <<>> /\ Motion!FrameEnds)
    BY <1>4, <1>9 DEF Motion!Throws, Motion!FrameEnds
  <1>10. CASE (\E j \in Animations : Motion!Cancel(j)) \/ Motion!Restore \/ Motion!Destroy \/ UNCHANGED Motion!vars
    BY <1>1, <1>10 DEF Motion!Cancel, Motion!Restore, Motion!Destroy, Motion!vars
  <1> QED
    BY <1>5, <1>6, <1>7, <1>8, <1>9, <1>10 DEF Motion!Next, Motion!Goes
-----------------------------------------------------------------------------
SceneFrameType == [pc : {"idle", "prepare", "paint", "present"}, legacy : BOOLEAN, all : BOOLEAN,
                   clip : SUBSET Regions, left : SUBSET Regions, captured : SUBSET Regions, used : BOOLEAN]

SceneFramed == /\ frame \in SceneFrameType
               /\ scene \in [valid : BOOLEAN, full : BOOLEAN, sized : BOOLEAN, effects : BOOLEAN]

ScenePixels == /\ dirty \subseteq Regions /\ effects \subseteq Regions /\ pending \subseteq Regions
               /\ drawn \subseteq Regions /\ shown \subseteq Regions
               /\ snapshot = Scene!None \/ snapshot \subseteq Regions

SceneFlags == /\ layout_dirty \in BOOLEAN /\ transition \in BOOLEAN /\ overlays \in BOOLEAN
              /\ redraw \in BOOLEAN /\ present \in BOOLEAN /\ later \in BOOLEAN
              /\ exposed \in BOOLEAN /\ missed \in BOOLEAN

SceneCounts == changes \in 0..MaxChanges /\ failures \in 0..MaxFailures

\* It is known of region r that the scene does not show it.
SceneMissing(r) == ~scene.valid \/ scene.full \/ r \in dirty \/ layout_dirty

\* What the scene, or what will be shown of it, lacks is known, and so is a
\* component with effects that it was not painted with.
SceneKnown ==
    ~Scene!At("paint") =>
              \A r \in Regions :
            (r \notin drawn \/ r \notin Scene!Snapshot \/ (r \in effects /\ ~scene.effects)) => SceneMissing(r)

\* What a frame has not painted as it should be will be painted by it, or it will
\* not be committed, or there is damage for another one.
ScenePainting ==
    Scene!At("paint") =>
        /\ snapshot = Scene!None
        /\ \A e \in effects : e \in frame.left \/ frame.used \/ Scene!UIDirty
        /\ \A r \in Regions \ drawn :
              \/ r \in frame.left \/ Scene!UIDirty
              \/ ~frame.all /\ (frame.used \/ \E e \in effects : e \in frame.left)

\* What is presented is committed.
SceneCommitted ==
    Scene!At("present") => scene.valid /\ (scene.full => Scene!UIDirty) /\ (Scene!UIDirty => redraw)

\* Damage is to be presented, and so is what is not on the screen.
SceneAsked ==
    /\ dirty # {} => present
    /\ Scene!At("idle") /\ shown # Regions => present \/ exposed

SceneIInv == /\ SceneFramed /\ ScenePixels /\ SceneFlags /\ SceneCounts
             /\ SceneKnown /\ ScenePainting /\ SceneCommitted /\ SceneAsked
             /\ Scene!DamageIsScheduled
\* A set of numbers that is not empty has a least one.
LEMMA LeastOne ==
  ASSUME NEW T \in SUBSET Nat, T # {}
  PROVE  \E x \in T : \A y \in T : x <= y
  <1> DEFINE R == {ss \in Nat \X Nat : ss[1] < ss[2]}
  <1>1. IsWellFoundedOn(R, Nat)
    BY NatLessThanWellFounded, Zenon DEF OpToRel
  <1>2. \A x, y \in Nat : <<y, x>> \in R <=> y < x
    OBVIOUS
  <1> HIDE DEF R
  <1>3. PICK x \in T : \A y \in T : ~ (<<y, x>> \in R)
    BY <1>1, WFMin
  <1>4. ASSUME NEW y \in T
        PROVE  x <= y
    <2>1. ~ (y < x) /\ x \in Nat /\ y \in Nat
      BY <1>2, <1>3
    <2> QED
      BY <2>1
  <1> QED
    BY <1>4

LEMMA MinOf ==
  ASSUME NEW T \in SUBSET Nat, T # {}
  PROVE  Scene!Min(T) \in T /\ \A y \in T : Scene!Min(T) <= y
  <1>1. \E x \in T : \A y \in T : x <= y
    BY LeastOne
  <1> QED
    BY <1>1, Zenon DEF Scene!Min

LEMMA MaxOf ==
  ASSUME NEW n \in Nat, NEW T \in SUBSET (1 .. n), T # {}
  PROVE  Scene!Max(T) \in T /\ \A y \in T : Scene!Max(T) >= y
  <1> DEFINE U == {n - x : x \in T}
  <1>1. U \in SUBSET Nat /\ U # {}
    <2>1. \A x \in T : n - x \in Nat
      OBVIOUS
    <2>2. U \subseteq Nat /\ U # {}
      BY <2>1
    <2> QED
      BY <2>2
  <1>2. \A x \in T : n - x \in U
    OBVIOUS
  <1> HIDE DEF U
  <1>3. PICK u \in U : \A y \in U : u <= y
    BY <1>1, LeastOne
  <1>4. PICK x \in T : u = n - x
    BY <1>3 DEF U
  <1>5. ASSUME NEW y \in T
        PROVE  x >= y
    <2>1. n - x <= n - y
      BY <1>2, <1>3, <1>4
    <2> QED
      BY <2>1
  <1> QED
    BY <1>5, Zenon DEF Scene!Max

\* The hull of regions are regions.
LEMMA SceneHullOf ==
  ASSUME Scene!SceneAssumption, NEW S \in SUBSET Regions
  PROVE  Scene!Hull(S) \subseteq Regions
  <1>1. PICK n \in Nat : Regions = 1 .. n
    BY DEF Scene!SceneAssumption
  <1>2. CASE S = {}
    BY <1>2 DEF Scene!Hull
  <1>3. CASE S # {}
    <2>0. S \in SUBSET Nat /\ S \in SUBSET (1 .. n)
      BY <1>1
    <2>1. Scene!Min(S) \in S /\ Scene!Max(S) \in S
      <3>1. Scene!Min(S) \in S
        BY <1>3, <2>0, MinOf
      <3>2. Scene!Max(S) \in S
        BY <1>3, <2>0, MaxOf
      <3> QED
        BY <3>1, <3>2
    <2>2. Scene!Hull(S) = Scene!Min(S) .. Scene!Max(S)
      BY <1>3 DEF Scene!Hull
    <2>3. Scene!Min(S) \in 1 .. n /\ Scene!Max(S) \in 1 .. n
      BY <1>1, <2>1
    <2> QED
      BY <1>1, <2>2, <2>3
  <1> QED
    BY <1>2, <1>3

LEMMA SceneNoneIsNone == Scene!SceneAssumption => \A S \in SUBSET Regions : S # Scene!None
  <1> SUFFICES ASSUME Scene!SceneAssumption PROVE 0 \notin Regions
    BY DEF Scene!None
  <1>1. PICK n \in Nat : Regions = 1 .. n
    BY DEF Scene!SceneAssumption
  <1> QED
    BY <1>1

\* A component asks for another frame.
LEMMA SceneNotified ==
  ASSUME Scene!SceneAssumption, ScenePixels, SceneFlags, NEW rect \in SUBSET Regions,
         Scene!Notify(rect)
  PROVE  /\ pending' \subseteq Regions /\ present' = TRUE /\ redraw' \in BOOLEAN
         /\ exposed' \in BOOLEAN
         /\ Scene!At("idle") => exposed'
         /\ exposed => exposed'
  <1>1. pending' \subseteq Regions
    BY SceneHullOf DEF Scene!Notify, ScenePixels
  <1>2. redraw' \in BOOLEAN /\ exposed' \in BOOLEAN
    BY DEF Scene!Notify, SceneFlags
  <1>3. present' = TRUE /\ (Scene!At("idle") => exposed') /\ (exposed => exposed')
    BY DEF Scene!Notify
  <1> QED
    BY <1>1, <1>2, <1>3

\* Damage is kept, and asks for a frame unless all of it is known.
LEMMA SceneDamaged ==
  ASSUME Scene!SceneAssumption, ScenePixels, SceneFlags, NEW D \in SUBSET Regions, Scene!Damage(D)
  PROVE  /\ dirty' = dirty \cup D /\ dirty' \subseteq Regions /\ pending' \subseteq Regions
         /\ present' \in BOOLEAN /\ redraw' \in BOOLEAN /\ exposed' \in BOOLEAN
         /\ present => present'
         /\ exposed => exposed'
         /\ D \subseteq dirty \/ (present' /\ (Scene!At("idle") => exposed'))
  <1>1. CASE D \subseteq dirty
    <2>1. UNCHANGED <<dirty, pending, present, redraw, exposed>>
      BY <1>1 DEF Scene!Damage, Scene!Unnoticed
    <2>2. dirty' = dirty \cup D
      BY <1>1, <2>1
    <2> QED
      BY <1>1, <2>1, <2>2 DEF ScenePixels, SceneFlags
  <1>2. CASE ~(D \subseteq dirty)
    <2>1. dirty' = dirty \cup D /\ Scene!Notify(Scene!Merged(dirty', D))
      BY <1>2 DEF Scene!Damage
    <2>2. dirty' \subseteq Regions
      BY <2>1 DEF ScenePixels
    <2>3. Scene!Merged(dirty', D) \in SUBSET Regions
      BY <2>2 DEF Scene!Merged
    <2>4. /\ pending' \subseteq Regions /\ present' = TRUE /\ redraw' \in BOOLEAN
          /\ exposed' \in BOOLEAN
          /\ Scene!At("idle") => exposed'
          /\ exposed => exposed'
      BY <2>1, <2>3, SceneNotified
    <2> QED
      BY <2>1, <2>2, <2>4
  <1> QED
    BY <1>1, <1>2

\* What was drawn there is not what the components would paint now.
LEMMA SceneIsOutdated ==
  ASSUME Scene!SceneAssumption, ScenePixels, NEW D \in SUBSET Regions, Scene!Outdated(D)
  PROVE  /\ drawn' = drawn \ D /\ shown' = shown \ D /\ drawn' \subseteq Regions
         /\ shown' \subseteq Regions
         /\ snapshot' = Scene!None \/ snapshot' \subseteq Regions
         /\ snapshot = Scene!None => snapshot' = Scene!None
         /\ \A r \in Regions : r \notin Scene!Snapshot' => r \notin Scene!Snapshot \/ r \in D
  <1>1. /\ drawn' = drawn \ D /\ shown' = shown \ D /\ drawn' \subseteq Regions
        /\ shown' \subseteq Regions
    BY DEF Scene!Outdated, ScenePixels
  <1>2. CASE snapshot = Scene!None
    BY <1>1, <1>2 DEF Scene!Outdated, Scene!Snapshot
  <1>3. CASE snapshot # Scene!None
    <2>1. snapshot' = snapshot \ D /\ snapshot \subseteq Regions
      BY <1>3 DEF Scene!Outdated, ScenePixels
    <2>2. snapshot' \in SUBSET Regions
      BY <2>1
    <2>3. snapshot' # Scene!None
      BY <2>2, SceneNoneIsNone
    <2> QED
      BY <1>1, <1>3, <2>1, <2>3 DEF Scene!Snapshot
  <1> QED
    BY <1>2, <1>3

LEMMA SceneFringeOf ==
  ASSUME Scene!SceneAssumption, NEW r \in Regions
  PROVE  Scene!Fringe(r) \subseteq Regions /\ r \in Scene!Fringe(r)
  <1>1. PICK n \in Nat : Regions = 1 .. n
    BY DEF Scene!SceneAssumption
  <1> QED
    BY <1>1 DEF Scene!Fringe

LEMMA SceneInvParts ==
  ASSUME SceneIInv
  PROVE  /\ SceneFramed /\ ScenePixels /\ SceneFlags /\ SceneCounts /\ SceneKnown /\ ScenePainting
         /\ SceneCommitted /\ SceneAsked /\ Scene!DamageIsScheduled
  BY DEF SceneIInv

LEMMA SceneFrameFields ==
  ASSUME SceneFramed
  PROVE  /\ frame \in SceneFrameType /\ frame.pc \in {"idle", "prepare", "paint", "present"}
         /\ frame.legacy \in BOOLEAN /\ frame.all \in BOOLEAN /\ frame.used \in BOOLEAN
         /\ frame.clip \subseteq Regions /\ frame.left \subseteq Regions
         /\ frame.captured \subseteq Regions
         /\ scene.valid \in BOOLEAN /\ scene.full \in BOOLEAN /\ scene.sized \in BOOLEAN
         /\ scene.effects \in BOOLEAN
  BY DEF SceneFramed, SceneFrameType

\* Code of the application changes what a component paints.
LEMMA SceneUserChange ==
  ASSUME SceneIInv, Scene!SceneAssumption, Scene!UserCode, NEW D \in SUBSET Regions, D # {},
         Scene!Damage(D), Scene!Outdated(D),
         effects' \subseteq effects \cup D, UNCHANGED <<frame, later, missed>>,
         layout_dirty => layout_dirty', layout_dirty' \in BOOLEAN,
         scene' \in [valid : BOOLEAN, full : BOOLEAN, sized : BOOLEAN, effects : BOOLEAN],
         scene'.valid = scene.valid, scene'.full = scene.full, scene'.effects = scene.effects
  PROVE  /\ SceneFramed' /\ ScenePixels' /\ SceneKnown' /\ ScenePainting' /\ SceneCommitted'
         /\ SceneAsked' /\ Scene!DamageIsScheduled'
         /\ redraw' \in BOOLEAN /\ present' \in BOOLEAN /\ exposed' \in BOOLEAN
  <1>p. /\ SceneFramed /\ ScenePixels /\ SceneFlags /\ SceneCounts /\ SceneKnown /\ ScenePainting
        /\ SceneCommitted /\ SceneAsked /\ Scene!DamageIsScheduled
    BY SceneInvParts
  <1>1. /\ dirty' = dirty \cup D /\ dirty' \subseteq Regions /\ pending' \subseteq Regions
        /\ present' \in BOOLEAN /\ redraw' \in BOOLEAN /\ exposed' \in BOOLEAN
        /\ present => present'
        /\ exposed => exposed'
        /\ D \subseteq dirty \/ (present' /\ (Scene!At("idle") => exposed'))
    BY <1>p, SceneDamaged
  <1>2. /\ drawn' = drawn \ D /\ shown' = shown \ D /\ drawn' \subseteq Regions
        /\ shown' \subseteq Regions
        /\ snapshot' = Scene!None \/ snapshot' \subseteq Regions
        /\ snapshot = Scene!None => snapshot' = Scene!None
        /\ \A r \in Regions : r \notin Scene!Snapshot' => r \notin Scene!Snapshot \/ r \in D
    BY <1>p, SceneIsOutdated
  <1>3. Scene!UIDirty' /\ dirty' # {}
    BY <1>1 DEF Scene!UIDirty
  <1>4. SceneFramed'
    BY <1>p DEF SceneFramed
  <1>5. ScenePixels'
    <2>1. effects' \subseteq Regions
      BY <1>p DEF ScenePixels
    <2> QED
      BY <1>1, <1>2, <2>1 DEF ScenePixels
  <1>6. SceneKnown'
    <2> SUFFICES ASSUME ~Scene!At("paint"), NEW r \in Regions,
                        r \notin drawn' \/ r \notin Scene!Snapshot' \/ (r \in effects' /\ ~scene'.effects)
                 PROVE  SceneMissing(r)'
      BY DEF SceneKnown, Scene!At
    <2>1. CASE r \in D
      BY <1>1, <2>1 DEF SceneMissing
    <2>2. CASE r \notin D
      <3>1. r \notin drawn \/ r \notin Scene!Snapshot \/ (r \in effects /\ ~scene.effects)
        BY <1>2, <2>2
      <3>2. SceneMissing(r)
        BY <1>p, <3>1 DEF SceneKnown
      <3> QED
        BY <1>1, <3>2 DEF SceneMissing
    <2> QED
      BY <2>1, <2>2
  <1>7. ScenePainting'
    BY <1>p, <1>2, <1>3 DEF ScenePainting, Scene!At
  <1>8. SceneCommitted'
    BY DEF SceneCommitted, Scene!At, Scene!UserCode
  <1>9. present'
    BY <1>p, <1>1 DEF SceneAsked
  <1>10. SceneAsked'
    BY <1>9 DEF SceneAsked
  <1>11. Scene!DamageIsScheduled'
    BY <1>p, <1>1 DEF Scene!DamageIsScheduled, Scene!At, Scene!UIDirty
  <1> QED
    BY <1>1, <1>4, <1>5, <1>6, <1>7, <1>8, <1>10, <1>11

LEMMA SceneInit == Scene!SceneAssumption /\ Scene!Init => SceneIInv
  <1> SUFFICES ASSUME Scene!SceneAssumption, Scene!Init PROVE SceneIInv
    OBVIOUS
  <1>1. frame = Scene!NoFrame /\ Scene!NoFrame \in SceneFrameType /\ Scene!NoFrame.pc = "idle"
    BY DEF Scene!Init, Scene!NoFrame, SceneFrameType
  <1>2. scene.valid = FALSE
        /\ scene \in [valid : BOOLEAN, full : BOOLEAN, sized : BOOLEAN, effects : BOOLEAN]
    BY DEF Scene!Init
  <1>3. SceneFramed /\ ScenePixels /\ SceneFlags
    BY <1>1, <1>2 DEF Scene!Init, SceneFramed, ScenePixels, SceneFlags, Scene!None
  <1>4. SceneCounts
    BY DEF Scene!Init, SceneCounts, Scene!SceneAssumption
  <1>5. SceneKnown
    BY <1>2 DEF SceneKnown, SceneMissing
  <1>6. ScenePainting /\ SceneCommitted
    BY <1>1 DEF ScenePainting, SceneCommitted, Scene!At
  <1>7. SceneAsked /\ Scene!DamageIsScheduled
    BY DEF Scene!Init, SceneAsked, Scene!DamageIsScheduled
  <1> QED
    BY <1>3, <1>4, <1>5, <1>6, <1>7 DEF SceneIInv

LEMMA SceneChangeKeeps ==
  ASSUME SceneIInv, Scene!SceneAssumption, NEW r \in Regions, Scene!Change(r)
  PROVE  SceneIInv'
  <1>p. /\ SceneFramed /\ ScenePixels /\ SceneFlags /\ SceneCounts /\ SceneKnown /\ ScenePainting
        /\ SceneCommitted /\ SceneAsked /\ Scene!DamageIsScheduled
    BY SceneInvParts
  <1> DEFINE D == IF r \in effects \cup effects' THEN Scene!Fringe(r) ELSE {r}
  <1>1. /\ Scene!UserCode /\ Scene!Damage(D) /\ Scene!Outdated(D) /\ Scene!Counted
        /\ effects' \in {effects, effects \cup {r}, effects \ {r}}
        /\ UNCHANGED <<layout_dirty, transition, overlays, scene, frame, later, missed, failures>>
    BY DEF Scene!Change
  <1>2. D \in SUBSET Regions /\ r \in D
    BY SceneFringeOf
  <1> HIDE DEF D
  <1>3. D # {} /\ effects' \subseteq effects \cup D
    BY <1>1, <1>2
  <1>4. SceneFramed' /\ ScenePixels' /\ SceneKnown' /\ ScenePainting' /\ SceneCommitted' /\ SceneAsked' /\ Scene!DamageIsScheduled'
        /\ redraw' \in BOOLEAN /\ present' \in BOOLEAN /\ exposed' \in BOOLEAN
    <2>1. /\ layout_dirty' \in BOOLEAN /\ (layout_dirty => layout_dirty')
          /\ UNCHANGED <<frame, later, missed>>
      BY <1>p, <1>1 DEF SceneFlags
    <2>2. /\ scene' \in [valid : BOOLEAN, full : BOOLEAN, sized : BOOLEAN, effects : BOOLEAN]
          /\ scene'.valid = scene.valid /\ scene'.full = scene.full
          /\ scene'.effects = scene.effects
      BY <1>p, <1>1 DEF SceneFramed
    <2> QED
      BY <1>1, <1>2, <1>3, <2>1, <2>2, SceneUserChange
  <1>5. SceneFlags'
    BY <1>p, <1>1, <1>4 DEF SceneFlags
  <1>6. SceneCounts'
    BY <1>p, <1>1 DEF SceneCounts, Scene!Counted, Scene!SceneAssumption
  <1> QED
    BY <1>4, <1>5, <1>6 DEF SceneIInv

LEMMA SceneRestructureKeeps ==
  ASSUME SceneIInv, Scene!SceneAssumption, Scene!Restructure
  PROVE  SceneIInv'
  <1>p. /\ SceneFramed /\ ScenePixels /\ SceneFlags /\ SceneCounts /\ SceneKnown /\ ScenePainting
        /\ SceneCommitted /\ SceneAsked /\ Scene!DamageIsScheduled
    BY SceneInvParts
  <1>1. /\ Scene!UserCode /\ Scene!Damage(Regions) /\ Scene!Outdated(Regions) /\ Scene!Counted
        /\ layout_dirty' = TRUE /\ overlays' \in BOOLEAN
        /\ UNCHANGED <<transition, effects, scene, frame, later, missed, failures>>
    BY DEF Scene!Restructure
  <1>2. Regions \in SUBSET Regions /\ Regions # {} /\ effects' \subseteq effects \cup Regions
    BY <1>1 DEF Scene!SceneAssumption
  <1>3. SceneFramed' /\ ScenePixels' /\ SceneKnown' /\ ScenePainting' /\ SceneCommitted' /\ SceneAsked' /\ Scene!DamageIsScheduled'
        /\ redraw' \in BOOLEAN /\ present' \in BOOLEAN /\ exposed' \in BOOLEAN
    <2>1. /\ layout_dirty' \in BOOLEAN /\ (layout_dirty => layout_dirty')
          /\ UNCHANGED <<frame, later, missed>>
      BY <1>1
    <2>2. /\ scene' \in [valid : BOOLEAN, full : BOOLEAN, sized : BOOLEAN, effects : BOOLEAN]
          /\ scene'.valid = scene.valid /\ scene'.full = scene.full
          /\ scene'.effects = scene.effects
      BY <1>p, <1>1 DEF SceneFramed
    <2> QED
      BY <1>1, <1>2, <2>1, <2>2, SceneUserChange
  <1>4. SceneFlags'
    BY <1>p, <1>1, <1>3 DEF SceneFlags
  <1>5. SceneCounts'
    BY <1>p, <1>1 DEF SceneCounts, Scene!Counted, Scene!SceneAssumption
  <1> QED
    BY <1>3, <1>4, <1>5 DEF SceneIInv

\* Between frames the view is laid out at its new size, and all of it is damage;
\* in the midst of something the layout is left to the next frame.
LEMMA SceneConfigureKeeps ==
  ASSUME SceneIInv, Scene!SceneAssumption, Scene!Configure
  PROVE  SceneIInv'
  <1>p. /\ SceneFramed /\ ScenePixels /\ SceneFlags /\ SceneCounts /\ SceneKnown /\ ScenePainting
        /\ SceneCommitted /\ SceneAsked /\ Scene!DamageIsScheduled
    BY SceneInvParts
  <1>1. /\ Scene!UserCode /\ Scene!Outdated(Regions) /\ Scene!Counted
        /\ scene' = [scene EXCEPT !.sized = FALSE]
        /\ UNCHANGED <<transition, overlays, effects, frame, later, missed, failures>>
    BY DEF Scene!Configure
  <1>2. /\ scene' \in [valid : BOOLEAN, full : BOOLEAN, sized : BOOLEAN, effects : BOOLEAN]
        /\ scene'.valid = scene.valid /\ scene'.full = scene.full /\ scene'.effects = scene.effects
    BY <1>p, <1>1 DEF SceneFramed
  <1>3. Regions \in SUBSET Regions /\ Regions # {} /\ effects' \subseteq effects \cup Regions
    BY <1>1 DEF Scene!SceneAssumption
  <1>4. SceneCounts'
    BY <1>p, <1>1 DEF SceneCounts, Scene!Counted, Scene!SceneAssumption
  <1>5. CASE Scene!At("idle") /\ ~transition
    <2>1. layout_dirty' = FALSE /\ dirty' = Regions /\ Scene!Notify(Regions)
      BY <1>5 DEF Scene!Configure
    <2>2. /\ pending' \subseteq Regions /\ present' = TRUE /\ redraw' \in BOOLEAN
          /\ exposed' \in BOOLEAN
          /\ exposed'
      BY <1>p, <1>3, <1>5, <2>1, SceneNotified
    <2>3. /\ drawn' \subseteq Regions /\ shown' \subseteq Regions
          /\ snapshot' = Scene!None \/ snapshot' \subseteq Regions
      BY <1>p, <1>1, <1>3, SceneIsOutdated
    <2>4. SceneFramed' /\ ScenePixels' /\ SceneFlags'
      BY <1>p, <1>1, <1>2, <2>1, <2>2, <2>3 DEF SceneFramed, ScenePixels, SceneFlags
    <2>5. SceneKnown'
      BY <2>1 DEF SceneKnown, SceneMissing
    <2>6. frame'.pc = "idle"
      BY <1>1, <1>5 DEF Scene!At
    <2>7. ScenePainting' /\ SceneCommitted'
      BY <2>6 DEF ScenePainting, SceneCommitted, Scene!At
    <2>8. SceneAsked' /\ Scene!DamageIsScheduled'
      BY <2>2 DEF SceneAsked, Scene!DamageIsScheduled
    <2> QED
      BY <1>4, <2>4, <2>5, <2>7, <2>8 DEF SceneIInv
  <1>6. CASE ~(Scene!At("idle") /\ ~transition)
    <2>1. layout_dirty' = TRUE /\ Scene!Damage(Regions)
      BY <1>6 DEF Scene!Configure
    <2>2. SceneFramed' /\ ScenePixels' /\ SceneKnown' /\ ScenePainting' /\ SceneCommitted' /\ SceneAsked' /\ Scene!DamageIsScheduled'
          /\ redraw' \in BOOLEAN /\ present' \in BOOLEAN /\ exposed' \in BOOLEAN
      <3>1. /\ layout_dirty' \in BOOLEAN /\ (layout_dirty => layout_dirty')
            /\ UNCHANGED <<frame, later, missed>>
        BY <1>1, <2>1
      <3> QED
        BY <1>1, <1>2, <1>3, <2>1, <3>1, SceneUserChange
    <2>3. SceneFlags'
      BY <1>p, <1>1, <2>1, <2>2 DEF SceneFlags
    <2> QED
      BY <1>4, <2>2, <2>3 DEF SceneIInv
  <1> QED
    BY <1>5, <1>6

\* Transitions of the tree, and what the window system says of the view.
LEMMA SceneViewKeeps ==
  ASSUME SceneIInv, Scene!SceneAssumption,
         Scene!TransitionBegins \/ Scene!TransitionEnds \/ Scene!Uncovered \/ Scene!Show \/ Scene!Update
  PROVE  SceneIInv'
  <1>p. /\ SceneFramed /\ ScenePixels /\ SceneFlags /\ SceneCounts /\ SceneKnown /\ ScenePainting
        /\ SceneCommitted /\ SceneAsked /\ Scene!DamageIsScheduled
    BY SceneInvParts
  <1>1. CASE Scene!TransitionBegins \/ Scene!TransitionEnds
    <2>1. transition' \in BOOLEAN /\ (Scene!Counted \/ UNCHANGED changes)
          /\ UNCHANGED <<dirty, layout_dirty, overlays, effects, scene, pending, redraw, present, frame,
                         later, exposed, drawn, snapshot, shown, missed, failures>>
      BY <1>1 DEF Scene!TransitionBegins, Scene!TransitionEnds
    <2>2. SceneFramed' /\ ScenePixels' /\ SceneFlags'
      BY <1>p, <2>1 DEF SceneFramed, ScenePixels, SceneFlags
    <2>3. SceneCounts'
      BY <1>p, <2>1 DEF SceneCounts, Scene!Counted, Scene!SceneAssumption
    <2>4. /\ SceneKnown' /\ ScenePainting' /\ SceneCommitted' /\ SceneAsked'
          /\ Scene!DamageIsScheduled'
      BY <1>p, <2>1
         DEF SceneKnown, Scene!Snapshot, SceneMissing, ScenePainting, SceneCommitted, SceneAsked,
             Scene!DamageIsScheduled, Scene!At, Scene!UIDirty
    <2> QED
      BY <2>2, <2>3, <2>4 DEF SceneIInv
  <1>2. CASE Scene!Uncovered \/ Scene!Update
    <2>1. exposed' = TRUE /\ later' \in BOOLEAN /\ (Scene!Counted \/ UNCHANGED changes) /\ shown' \subseteq Regions
          /\ UNCHANGED <<dirty, layout_dirty, transition, overlays, effects, scene, pending, redraw, present, frame,
                         drawn, snapshot, missed, failures>>
      BY <1>p, <1>2 DEF Scene!Uncovered, Scene!Update, Scene!UIVars, SceneFlags, ScenePixels
    <2>2. SceneFramed' /\ ScenePixels' /\ SceneFlags'
      BY <1>p, <2>1 DEF SceneFramed, ScenePixels, SceneFlags
    <2>3. SceneCounts'
      BY <1>p, <2>1 DEF SceneCounts, Scene!Counted, Scene!SceneAssumption
    <2>4. /\ SceneKnown' /\ ScenePainting' /\ SceneCommitted' /\ SceneAsked'
          /\ Scene!DamageIsScheduled'
      BY <1>p, <2>1
         DEF SceneKnown, Scene!Snapshot, SceneMissing, ScenePainting, SceneCommitted, SceneAsked,
             Scene!DamageIsScheduled, Scene!At, Scene!UIDirty
    <2> QED
      BY <2>2, <2>3, <2>4 DEF SceneIInv
  <1>3. CASE Scene!Show
    <2>1. /\ Scene!At("idle") /\ Scene!Counted /\ scene' = [scene EXCEPT !.full = TRUE]
          /\ present' = TRUE /\ exposed' = TRUE /\ shown' = {}
          /\ UNCHANGED <<dirty, layout_dirty, transition, overlays, effects, pending, redraw, frame,
                         later, drawn, snapshot, missed, failures>>
      BY <1>3 DEF Scene!Show, Scene!UIVars
    <2>2. /\ scene'.full = TRUE
          /\ scene' \in [valid : BOOLEAN, full : BOOLEAN, sized : BOOLEAN, effects : BOOLEAN]
      BY <1>p, <2>1 DEF SceneFramed
    <2>3. SceneFramed' /\ ScenePixels' /\ SceneFlags'
      BY <1>p, <2>1, <2>2 DEF SceneFramed, ScenePixels, SceneFlags
    <2>4. SceneCounts'
      BY <1>p, <2>1 DEF SceneCounts, Scene!Counted, Scene!SceneAssumption
    <2>5. /\ SceneKnown' /\ ScenePainting' /\ SceneCommitted' /\ SceneAsked'
          /\ Scene!DamageIsScheduled'
      BY <2>1, <2>2
         DEF SceneKnown, SceneMissing, ScenePainting, SceneCommitted, SceneAsked,
             Scene!DamageIsScheduled, Scene!At
    <2> QED
      BY <2>3, <2>4, <2>5 DEF SceneIInv
  <1> QED
    BY <1>1, <1>2, <1>3

\* A frame that does not come to its end leaves a scene that is to be repainted,
\* to be presented, with a redraw put off or an expose missed.
LEMMA SceneFrameLost ==
  ASSUME SceneIInv, Scene!SceneAssumption, frame' = Scene!NoFrame, present' = TRUE,
         missed' \in BOOLEAN, missed' \/ later',
         scene' \in [valid : BOOLEAN, full : BOOLEAN, sized : BOOLEAN, effects : BOOLEAN],
         scene'.valid = FALSE \/ scene'.full = TRUE,
         ScenePixels', redraw' \in BOOLEAN, later' \in BOOLEAN, exposed' \in BOOLEAN,
         UNCHANGED Scene!UIVars, UNCHANGED changes, Scene!Fault \/ UNCHANGED failures
  PROVE  SceneIInv'
  <1>p. /\ SceneFramed /\ ScenePixels /\ SceneFlags /\ SceneCounts /\ SceneKnown /\ ScenePainting
        /\ SceneCommitted /\ SceneAsked /\ Scene!DamageIsScheduled
    BY SceneInvParts
  <1>1. Scene!NoFrame \in SceneFrameType /\ Scene!NoFrame.pc = "idle"
    BY DEF Scene!NoFrame, SceneFrameType
  <1>2. SceneFramed' /\ SceneFlags'
    BY <1>p, <1>1 DEF SceneFramed, SceneFlags, Scene!UIVars
  <1>3. SceneCounts'
    BY <1>p DEF SceneCounts, Scene!Fault, Scene!SceneAssumption
  <1>4. SceneKnown'
    BY DEF SceneKnown, SceneMissing
  <1>5. ScenePainting' /\ SceneCommitted'
    BY <1>1 DEF ScenePainting, SceneCommitted, Scene!At
  <1>6. SceneAsked' /\ Scene!DamageIsScheduled'
    BY DEF SceneAsked, Scene!DamageIsScheduled
  <1> QED
    BY <1>2, <1>3, <1>4, <1>5, <1>6 DEF SceneIInv

LEMMA SceneInvalidatedScene ==
  ASSUME SceneFramed
  PROVE  /\ Scene!Invalidated(scene) \in [valid : BOOLEAN, full : BOOLEAN, sized : BOOLEAN, effects : BOOLEAN]
         /\ Scene!Invalidated(scene).full = TRUE /\ Scene!Invalidated(scene).valid = scene.valid
  BY DEF SceneFramed, Scene!Invalidated

LEMMA SceneRefusedKeeps ==
  ASSUME SceneIInv, Scene!SceneAssumption, Scene!Refused
  PROVE  SceneIInv'
  <1>p. /\ SceneFramed /\ ScenePixels /\ SceneFlags /\ SceneCounts /\ SceneKnown /\ ScenePainting
        /\ SceneCommitted /\ SceneAsked /\ Scene!DamageIsScheduled
    BY SceneInvParts
  <1>1. /\ Scene!UserCode /\ exposed' = FALSE /\ scene' = Scene!Invalidated(scene)
        /\ present' = TRUE
        /\ later' = (later \/ redraw) /\ redraw' = FALSE /\ missed' = (missed \/ Scene!At("idle"))
        /\ UNCHANGED <<dirty, layout_dirty, transition, overlays, effects, pending, frame, drawn, snapshot,
                       shown, changes, failures>>
    BY DEF Scene!Refused, Scene!UIVars
  <1>2. /\ scene' \in [valid : BOOLEAN, full : BOOLEAN, sized : BOOLEAN, effects : BOOLEAN]
        /\ scene'.full = TRUE
    BY <1>p, <1>1, SceneInvalidatedScene
  <1>3. later' \in BOOLEAN /\ missed' \in BOOLEAN
    BY <1>p, <1>1 DEF SceneFlags
  <1>4. SceneFramed' /\ ScenePixels' /\ SceneFlags' /\ SceneCounts'
    BY <1>p, <1>1, <1>2, <1>3 DEF SceneFramed, ScenePixels, SceneFlags, SceneCounts
  <1>5. SceneKnown'
    BY <1>2 DEF SceneKnown, SceneMissing
  <1>6. ScenePainting'
    BY <1>p, <1>1 DEF ScenePainting, Scene!At, Scene!UIDirty
  <1>7. SceneCommitted'
    BY <1>1 DEF SceneCommitted, Scene!At, Scene!UserCode
  <1>8. SceneAsked' /\ Scene!DamageIsScheduled'
    BY <1>1 DEF SceneAsked, Scene!DamageIsScheduled, Scene!At
  <1> QED
    BY <1>4, <1>5, <1>6, <1>7, <1>8 DEF SceneIInv

LEMMA SceneCannotBeginKeeps ==
  ASSUME SceneIInv, Scene!SceneAssumption, Scene!CannotBegin
  PROVE  SceneIInv'
  <1>p. /\ SceneFramed /\ ScenePixels /\ SceneFlags /\ SceneCounts /\ SceneKnown /\ ScenePainting
        /\ SceneCommitted /\ SceneAsked /\ Scene!DamageIsScheduled
    BY SceneInvParts
  <1>1. exposed' = FALSE /\ Scene!Fault /\ UNCHANGED <<dirty, Scene!UIVars, shown, changes>>
        /\ frame' = Scene!NoFrame /\ present' = TRUE /\ missed' = TRUE /\ redraw' = FALSE
    BY DEF Scene!CannotBegin, Scene!Failed
  <1>2. later' \in BOOLEAN
    BY <1>p DEF Scene!CannotBegin, Scene!Failed, SceneFlags
  <1>3. /\ scene' \in [valid : BOOLEAN, full : BOOLEAN, sized : BOOLEAN, effects : BOOLEAN]
        /\ scene'.valid = FALSE
    <2>1. CASE scene' = [valid |-> FALSE, full |-> TRUE, sized |-> FALSE, effects |-> FALSE]
      BY <2>1
    <2>2. CASE scene' = [scene EXCEPT !.valid = FALSE, !.full = TRUE]
      BY <1>p, <2>2 DEF SceneFramed
    <2> QED
      BY <2>1, <2>2 DEF Scene!CannotBegin
  <1>4. ScenePixels'
    <2>1. \/ pending' = {} /\ drawn' = {} /\ snapshot' = Scene!None
          \/ UNCHANGED <<pending, drawn, snapshot>>
      BY DEF Scene!CannotBegin
    <2> QED
      BY <1>p, <1>1, <2>1 DEF ScenePixels, Scene!UIVars
  <1> QED
    BY <1>1, <1>2, <1>3, <1>4, SceneFrameLost

\* A frame begins when the scene is not what the tree shows; otherwise the scene
\* is presented as it is.
LEMMA SceneBeginKeeps ==
  ASSUME SceneIInv, Scene!SceneAssumption, Scene!Begin
  PROVE  SceneIInv'
  <1>p. /\ SceneFramed /\ ScenePixels /\ SceneFlags /\ SceneCounts /\ SceneKnown /\ ScenePainting
        /\ SceneCommitted /\ SceneAsked /\ Scene!DamageIsScheduled
    BY SceneInvParts
  <1>f. /\ scene.valid \in BOOLEAN /\ scene.full \in BOOLEAN /\ scene.sized \in BOOLEAN
        /\ scene.effects \in BOOLEAN
    BY <1>p, SceneFrameFields
  <1> DEFINE valid == scene.valid /\ scene.sized
             full  == scene.full \/ ~scene.sized
             needs == ~valid \/ full \/ Scene!UIDirty
             clear == needs /\ overlays
  <1>1. /\ Scene!At("idle") /\ exposed' = FALSE
        /\ frame' = [Scene!NoFrame EXCEPT !.pc = IF needs THEN "prepare" ELSE "present", !.legacy = clear]
        /\ scene' = [scene EXCEPT !.sized = TRUE, !.valid = valid /\ ~clear, !.full = full /\ ~clear]
        /\ pending' = IF needs THEN pending ELSE {}
        /\ drawn' = IF clear \/ ~scene.sized THEN {} ELSE drawn
        /\ snapshot' = IF clear \/ ~scene.sized THEN Scene!None ELSE snapshot
        /\ present' = (present \/ ~scene.sized)
        /\ UNCHANGED <<dirty, layout_dirty, transition, overlays, effects, redraw, later, shown, missed,
                       changes, failures>>
    BY DEF Scene!Begin, Scene!UIVars
  <1>2. clear \in BOOLEAN /\ valid \in BOOLEAN /\ full \in BOOLEAN
    BY <1>p, <1>f DEF SceneFlags
  <1>3. /\ frame' \in SceneFrameType /\ frame'.pc = IF needs THEN "prepare" ELSE "present"
    BY <1>1, <1>2 DEF Scene!NoFrame, SceneFrameType
  <1>4. /\ scene' \in [valid : BOOLEAN, full : BOOLEAN, sized : BOOLEAN, effects : BOOLEAN]
        /\ scene'.valid = (valid /\ ~clear) /\ scene'.full = (full /\ ~clear)
        /\ scene'.effects = scene.effects
    BY <1>p, <1>1, <1>2 DEF SceneFramed
  <1>5. ScenePixels'
    BY <1>p, <1>1 DEF ScenePixels
  <1>6. present' \in BOOLEAN /\ (present => present')
    BY <1>p, <1>1 DEF SceneFlags
  <1>7. SceneFramed' /\ SceneFlags' /\ SceneCounts'
    BY <1>p, <1>1, <1>3, <1>4, <1>6 DEF SceneFramed, SceneFlags, SceneCounts
  <1>8. ScenePainting' /\ SceneAsked' /\ Scene!DamageIsScheduled'
    <2>1. frame'.pc # "paint" /\ frame'.pc # "idle"
      BY <1>3
    <2> QED
      BY <1>p, <1>1, <1>6, <2>1 DEF ScenePainting, SceneAsked, Scene!DamageIsScheduled, Scene!At
  <1>9. SceneKnown'
    <2>1. CASE clear \/ ~scene.sized
      <3>1. ~scene'.valid \/ scene'.full
        BY <1>4, <2>1
      <3> QED
        BY <3>1 DEF SceneKnown, SceneMissing
    <2>2. CASE ~(clear \/ ~scene.sized)
      <3>1. /\ scene'.valid = scene.valid /\ scene'.full = scene.full
            /\ UNCHANGED <<drawn, snapshot>>
        BY <1>1, <1>4, <1>f, <2>2
      <3>2. \A r \in Regions : (r \notin drawn \/ r \notin Scene!Snapshot \/ (r \in effects /\ ~scene.effects)) => SceneMissing(r)
        BY <1>p, <1>1 DEF SceneKnown, Scene!At
      <3> QED
        BY <1>1, <1>4, <3>1, <3>2 DEF SceneKnown, Scene!Snapshot, SceneMissing
    <2> QED
      BY <2>1, <2>2
  <1>10. SceneCommitted'
    <2>1. CASE needs
      BY <1>3, <2>1 DEF SceneCommitted, Scene!At
    <2>2. CASE ~needs
      <3>1. scene'.valid /\ ~scene'.full /\ ~Scene!UIDirty
        BY <1>4, <2>2
      <3> QED
        BY <1>1, <3>1 DEF SceneCommitted, Scene!UIDirty
    <2> QED
      BY <2>1, <2>2
  <1> QED
    BY <1>5, <1>7, <1>8, <1>9, <1>10 DEF SceneIInv

\* Layout or paint throws, the submission fails, or a part turns out to be
\* painted with effects.
LEMMA SceneFrameFailsKeeps ==
  ASSUME SceneIInv, Scene!SceneAssumption,
         Scene!PrepareThrows \/ Scene!PaintThrows \/ Scene!SubmissionFails \/ Scene!PartUsedEffects
  PROVE  SceneIInv'
  <1>p. /\ SceneFramed /\ ScenePixels /\ SceneFlags /\ SceneCounts /\ SceneKnown /\ ScenePainting
        /\ SceneCommitted /\ SceneAsked /\ Scene!DamageIsScheduled
    BY SceneInvParts
  <1>1. scene' = Scene!Invalidated(scene) /\ frame' = Scene!NoFrame /\ present' = TRUE /\ UNCHANGED Scene!UIVars /\ UNCHANGED changes
        /\ (Scene!Fault \/ UNCHANGED failures)
        /\ UNCHANGED <<pending, exposed, drawn, snapshot, shown>>
        /\ (UNCHANGED dirty \/ Scene!RolledBack)
    BY DEF Scene!PrepareThrows, Scene!PaintThrows, Scene!SubmissionFails, Scene!PartUsedEffects,
           Scene!Thrown, Scene!Failed
  <1>2. missed' \in BOOLEAN /\ later' \in BOOLEAN /\ redraw' \in BOOLEAN /\ exposed' \in BOOLEAN
        /\ (missed' \/ later')
    BY <1>p, <1>1
       DEF Scene!PrepareThrows, Scene!PaintThrows, Scene!SubmissionFails, Scene!PartUsedEffects,
           Scene!Thrown, Scene!Failed, SceneFlags
  <1>3. ScenePixels'
    <2>1. dirty' \subseteq Regions
      BY <1>p, <1>1, SceneFrameFields DEF Scene!RolledBack, ScenePixels
    <2> QED
      BY <1>p, <1>1, <2>1 DEF ScenePixels, Scene!UIVars
  <1>4. /\ scene' \in [valid : BOOLEAN, full : BOOLEAN, sized : BOOLEAN, effects : BOOLEAN]
        /\ scene'.full = TRUE
    BY <1>p, <1>1, SceneInvalidatedScene
  <1> QED
    BY <1>1, <1>2, <1>3, <1>4, SceneFrameLost

\* The damage is taken; what is not repainted was right.
LEMMA ScenePreparedKeeps ==
  ASSUME SceneIInv, Scene!SceneAssumption, Scene!Prepared
  PROVE  SceneIInv'
  <1>p. /\ SceneFramed /\ ScenePixels /\ SceneFlags /\ SceneCounts /\ SceneKnown /\ ScenePainting
        /\ SceneCommitted /\ SceneAsked /\ Scene!DamageIsScheduled
    BY SceneInvParts
  <1>f. /\ frame \in SceneFrameType /\ scene.valid \in BOOLEAN /\ scene.full \in BOOLEAN
        /\ scene.effects \in BOOLEAN /\ frame.legacy \in BOOLEAN
    BY <1>p, SceneFrameFields
  <1> DEFINE damaged == IF layout_dirty THEN Regions ELSE dirty
             all     == Scene!Whole(damaged, pending')
             clip    == IF all THEN Regions ELSE pending'
  <1>1. /\ Scene!At("prepare") /\ dirty' = {} /\ drawn' = drawn \ clip /\ snapshot' = Scene!None
        /\ frame' = [frame EXCEPT !.pc = "paint", !.all = all, !.clip = clip, !.left = clip,
                                  !.captured = damaged]
        /\ scene' = [scene EXCEPT !.valid = FALSE, !.full = ~frame.legacy]
        /\ UNCHANGED <<transition, overlays, effects, later, missed, failures>>
    BY DEF Scene!Prepared
  <1>2. /\ \/ layout_dirty' = FALSE /\ UNCHANGED <<shown, changes>>
           \/ layout_dirty' = TRUE /\ layout_dirty /\ shown' = {} /\ Scene!Counted
        /\ IF layout_dirty THEN Scene!Notify(Regions) ELSE Scene!Unnoticed
    BY DEF Scene!Prepared
  <1>3. /\ pending' \subseteq Regions /\ present' \in BOOLEAN /\ redraw' \in BOOLEAN
        /\ exposed' \in BOOLEAN
    <2>1. CASE layout_dirty
      BY <1>p, <1>2, <2>1, SceneNotified
    <2>2. CASE ~layout_dirty
      BY <1>p, <1>2, <2>2 DEF Scene!Unnoticed, ScenePixels, SceneFlags
    <2> QED
      BY <2>1, <2>2
  <1>4. clip \subseteq Regions /\ damaged \subseteq Regions /\ all \in BOOLEAN
    BY <1>p, <1>3, <1>f DEF ScenePixels, Scene!Whole, SceneFlags
  <1>5. ~all => ~layout_dirty /\ damaged \subseteq clip /\ damaged = dirty
                /\ ~(~scene.valid \/ scene.full \/ scene.effects)
    BY DEF Scene!Whole
  <1> HIDE DEF all, clip, damaged
  <1>6. /\ frame' \in SceneFrameType /\ frame'.pc = "paint" /\ frame'.all = all
        /\ frame'.left = clip
    BY <1>1, <1>4, <1>f DEF SceneFrameType
  <1>7. scene' \in [valid : BOOLEAN, full : BOOLEAN, sized : BOOLEAN, effects : BOOLEAN]
    BY <1>p, <1>1, <1>f DEF SceneFramed
  <1>8. SceneFramed'
    BY <1>6, <1>7 DEF SceneFramed
  <1>9. ScenePixels'
    <2>1. shown' \subseteq Regions
      BY <1>p, <1>2 DEF ScenePixels
    <2> QED
      BY <1>p, <1>1, <1>3, <2>1 DEF ScenePixels
  <1>10. SceneFlags'
    BY <1>p, <1>1, <1>2, <1>3 DEF SceneFlags
  <1>11. SceneCounts'
    BY <1>p, <1>1, <1>2 DEF SceneCounts, Scene!Counted, Scene!SceneAssumption
  <1>12. SceneKnown' /\ SceneCommitted' /\ SceneAsked' /\ Scene!DamageIsScheduled'
    BY <1>1, <1>6 DEF SceneKnown, SceneCommitted, SceneAsked, Scene!DamageIsScheduled, Scene!At
  <1>13. ScenePainting'
    <2>1. \A r \in Regions : r \in clip \/ (r \in drawn /\ (r \in effects => all))
      <3>1. CASE all
        BY <3>1 DEF clip
      <3>2. CASE ~all
        <4>1. \A r \in Regions : (r \notin drawn \/ r \in effects) => r \in dirty
          BY <1>p, <1>1, <1>5, <3>2 DEF SceneKnown, SceneMissing, Scene!At
        <4> QED
          BY <1>5, <3>2, <4>1
      <3> QED
        BY <3>1, <3>2
    <2>2. all => clip = Regions
      BY DEF clip
    <2>3. effects' \subseteq Regions
      BY <1>9 DEF ScenePixels
    <2> QED
      BY <1>1, <1>6, <2>1, <2>2, <2>3 DEF ScenePainting
  <1> QED
    BY <1>8, <1>9, <1>10, <1>11, <1>12, <1>13 DEF SceneIInv

\* A region is painted: right, unless layout is needed again, or it is a part in
\* which effects lack something.
LEMMA ScenePaintKeeps ==
  ASSUME SceneIInv, Scene!SceneAssumption, NEW r \in Regions, Scene!Paint(r)
  PROVE  SceneIInv'
  <1>p. /\ SceneFramed /\ ScenePixels /\ SceneFlags /\ SceneCounts /\ SceneKnown /\ ScenePainting
        /\ SceneCommitted /\ SceneAsked /\ Scene!DamageIsScheduled
    BY SceneInvParts
  <1>f. /\ frame \in SceneFrameType /\ frame.used \in BOOLEAN /\ frame.left \subseteq Regions
    BY <1>p, SceneFrameFields
  <1> DEFINE used == frame.used \/ \E e \in effects : r \in Scene!Fringe(e)
  <1>1. /\ Scene!At("paint")
        /\ frame' = [frame EXCEPT !.left = @ \ {r}, !.used = used]
        /\ drawn' = IF (frame.all \/ effects = {}) /\ ~layout_dirty THEN drawn \cup {r} ELSE drawn
        /\ UNCHANGED <<dirty, layout_dirty, transition, overlays, effects, scene, pending, redraw, present,
                       later, exposed, snapshot, shown, missed, changes, failures>>
    BY DEF Scene!Paint, Scene!UIVars
  <1>2. used \in BOOLEAN /\ (frame.used => used) /\ (r \in effects => used)
    BY <1>f, SceneFringeOf
  <1> HIDE DEF used
  <1>3. /\ frame' \in SceneFrameType /\ frame'.pc = "paint" /\ frame'.all = frame.all
        /\ frame'.left = frame.left \ {r} /\ frame'.used = used
    BY <1>1, <1>2, <1>f DEF SceneFrameType, Scene!At
  <1>4. SceneFramed' /\ SceneFlags' /\ SceneCounts'
    BY <1>p, <1>1, <1>3 DEF SceneFramed, SceneFlags, SceneCounts
  <1>5. ScenePixels'
    BY <1>p, <1>1 DEF ScenePixels
  <1>6. SceneKnown' /\ SceneCommitted' /\ SceneAsked' /\ Scene!DamageIsScheduled'
    BY <1>p, <1>1, <1>3
       DEF SceneKnown, SceneCommitted, SceneAsked, Scene!DamageIsScheduled, Scene!At
  <1>7. ScenePainting'
    <2>1. /\ snapshot = Scene!None
          /\ \A e \in effects : e \in frame.left \/ frame.used \/ Scene!UIDirty
          /\ \A x \in Regions \ drawn :
                \/ x \in frame.left \/ Scene!UIDirty
                \/ ~frame.all /\ (frame.used \/ \E e \in effects : e \in frame.left)
      BY <1>p, <1>1 DEF ScenePainting
    <2>2. Scene!UIDirty' = Scene!UIDirty
      BY <1>1 DEF Scene!UIDirty
    <2>3. \A e \in effects : e \in frame.left => e \in frame'.left \/ used
      BY <1>2, <1>3
    <2>4. \A e \in effects : e \in frame'.left \/ used \/ Scene!UIDirty
      BY <1>2, <2>1, <2>3
    <2>5. ASSUME NEW x \in Regions, x \notin drawn', ~Scene!UIDirty
          PROVE  x \in frame'.left \/ (~frame.all /\ (used \/ \E e \in effects : e \in frame'.left))
      <3>1. x \notin drawn
        BY <1>1, <2>5
      <3>2. CASE x = r
        <4>1. ~layout_dirty
          BY <2>5 DEF Scene!UIDirty
        <4>2. ~frame.all /\ effects # {}
          BY <1>1, <2>5, <3>2, <4>1
        <4> QED
          BY <2>4, <2>5, <4>2
      <3>3. CASE x # r
        BY <1>2, <1>3, <2>1, <2>3, <2>5, <3>1, <3>3
      <3> QED
        BY <3>2, <3>3
    <2> QED
      BY <1>1, <1>3, <2>1, <2>2, <2>4, <2>5 DEF ScenePainting
  <1> QED
    BY <1>4, <1>5, <1>6, <1>7 DEF SceneIInv

\* The frame is done: what is not right is damage, for which there is another one.
LEMMA SceneCommitKeeps ==
  ASSUME SceneIInv, Scene!SceneAssumption, Scene!Commit
  PROVE  SceneIInv'
  <1>p. /\ SceneFramed /\ ScenePixels /\ SceneFlags /\ SceneCounts /\ SceneKnown /\ ScenePainting
        /\ SceneCommitted /\ SceneAsked /\ Scene!DamageIsScheduled
    BY SceneInvParts
  <1>f. /\ frame \in SceneFrameType /\ frame.used \in BOOLEAN /\ frame.legacy \in BOOLEAN
        /\ frame.all \in BOOLEAN
        /\ scene.effects \in BOOLEAN
    BY <1>p, SceneFrameFields
  <1> DEFINE with == IF frame.legacy THEN TRUE
                     ELSE IF frame.all THEN frame.used ELSE scene.effects \/ frame.used
  <1>1. /\ Scene!At("paint") /\ frame.left = {} /\ (frame.all \/ ~frame.used)
        /\ scene' = [scene EXCEPT !.valid = TRUE, !.full = Scene!UIDirty, !.effects = with]
        /\ redraw' = (redraw \/ Scene!UIDirty) /\ pending' = IF Scene!UIDirty THEN pending ELSE {}
        /\ frame' = [frame EXCEPT !.pc = "present"]
        /\ UNCHANGED <<dirty, layout_dirty, transition, overlays, effects, present, later, exposed, drawn,
                       snapshot, shown, missed, changes, failures>>
    BY DEF Scene!Commit, Scene!Painted, Scene!UIVars
  <1>2. with \in BOOLEAN /\ (frame.used => with) /\ Scene!UIDirty \in BOOLEAN
    BY <1>p, <1>f DEF Scene!UIDirty, SceneFlags
  <1> HIDE DEF with
  <1>3. /\ scene' \in [valid : BOOLEAN, full : BOOLEAN, sized : BOOLEAN, effects : BOOLEAN]
        /\ scene'.valid = TRUE /\ scene'.full = Scene!UIDirty /\ scene'.effects = with
    BY <1>p, <1>1, <1>2 DEF SceneFramed
  <1>4. frame' \in SceneFrameType /\ frame'.pc = "present"
    BY <1>1, <1>f DEF SceneFrameType
  <1>5. redraw' \in BOOLEAN
    BY <1>p, <1>1, <1>2 DEF SceneFlags
  <1>6. SceneFramed' /\ SceneFlags' /\ SceneCounts'
    BY <1>p, <1>1, <1>3, <1>4, <1>5 DEF SceneFramed, SceneFlags, SceneCounts
  <1>7. ScenePixels'
    BY <1>p, <1>1 DEF ScenePixels
  <1>8. ScenePainting' /\ SceneAsked' /\ Scene!DamageIsScheduled'
    BY <1>p, <1>1, <1>4 DEF ScenePainting, SceneAsked, Scene!DamageIsScheduled, Scene!At
  <1>9. SceneCommitted'
    BY <1>1, <1>3 DEF SceneCommitted, Scene!UIDirty
  <1>10. SceneKnown'
    <2>1. /\ snapshot = Scene!None
          /\ \A e \in effects : frame.used \/ Scene!UIDirty
          /\ \A r \in Regions \ drawn : Scene!UIDirty
      BY <1>p, <1>1 DEF ScenePainting
    <2>2. Scene!Snapshot' = drawn
      BY <1>1, <2>1 DEF Scene!Snapshot
    <2>3. \A r \in Regions : (r \notin drawn \/ (r \in effects /\ ~with)) => Scene!UIDirty
      BY <1>2, <2>1
    <2> QED
      BY <1>1, <1>3, <2>2, <2>3 DEF SceneKnown, SceneMissing
  <1> QED
    BY <1>6, <1>7, <1>8, <1>9, <1>10 DEF SceneIInv

LEMMA SceneSnapshotOf ==
  ASSUME Scene!SceneAssumption, ScenePixels
  PROVE  Scene!Snapshot \subseteq Regions /\ Scene!Snapshot # Scene!None
  <1>1. Scene!Snapshot \in SUBSET Regions
    BY DEF Scene!Snapshot, ScenePixels
  <1> QED
    BY <1>1, SceneNoneIsNone

\* The scene is presented; what it lacks is damage, for which there is a redraw.
LEMMA ScenePresentKeeps ==
  ASSUME SceneIInv, Scene!SceneAssumption, Scene!Present \/ Scene!PresentFails
  PROVE  SceneIInv'
  <1>p. /\ SceneFramed /\ ScenePixels /\ SceneFlags /\ SceneCounts /\ SceneKnown /\ ScenePainting
        /\ SceneCommitted /\ SceneAsked /\ Scene!DamageIsScheduled
    BY SceneInvParts
  <1>1. /\ Scene!At("present") /\ frame' = Scene!NoFrame /\ (Scene!Fault \/ UNCHANGED failures)
        /\ snapshot' \in {snapshot, Scene!Snapshot} /\ later' = (later \/ redraw) /\ redraw' = FALSE
        /\ UNCHANGED <<dirty, layout_dirty, transition, overlays, effects, scene, pending, exposed, drawn, changes>>
    BY DEF Scene!Present, Scene!PresentFails, Scene!Failed, Scene!UIVars
  <1>2. Scene!NoFrame \in SceneFrameType /\ Scene!NoFrame.pc = "idle"
    BY DEF Scene!NoFrame, SceneFrameType
  <1>3. Scene!Snapshot \subseteq Regions /\ Scene!Snapshot # Scene!None
    BY <1>p, SceneSnapshotOf
  <1>4. Scene!Snapshot' = Scene!Snapshot
    BY <1>1, <1>3 DEF Scene!Snapshot
  <1>5. ScenePixels'
    <2>1. shown' \subseteq Regions
      BY <1>p, <1>3 DEF Scene!Present, Scene!PresentFails, ScenePixels
    <2>2. snapshot' = Scene!None \/ snapshot' \subseteq Regions
      BY <1>p, <1>1, <1>3 DEF ScenePixels
    <2> QED
      BY <1>p, <1>1, <2>1, <2>2 DEF ScenePixels
  <1>6. later' \in BOOLEAN /\ present' \in BOOLEAN /\ missed' \in BOOLEAN
    BY <1>p, <1>1 DEF Scene!Present, Scene!PresentFails, Scene!Failed, SceneFlags, Scene!UIDirty
  <1>7. SceneFramed' /\ SceneFlags'
    BY <1>p, <1>1, <1>2, <1>6 DEF SceneFramed, SceneFlags
  <1>8. SceneCounts'
    BY <1>p, <1>1 DEF SceneCounts, Scene!Fault, Scene!SceneAssumption
  <1>9. SceneKnown'
    BY <1>p, <1>1, <1>4 DEF SceneKnown, SceneMissing, Scene!At
  <1>10. ScenePainting' /\ SceneCommitted'
    BY <1>1, <1>2 DEF ScenePainting, SceneCommitted, Scene!At
  <1>11. Scene!DamageIsScheduled'
    BY <1>p, <1>1 DEF Scene!DamageIsScheduled, SceneCommitted, Scene!UIDirty
  <1>12. SceneAsked'
    <2>1. CASE Scene!PresentFails
      BY <2>1 DEF Scene!PresentFails, Scene!Failed, SceneAsked
    <2>2. CASE Scene!Present
      <3>1. present' = Scene!UIDirty /\ shown' = Scene!Snapshot
        BY <2>2 DEF Scene!Present
      <3>2. \A r \in Regions : r \notin Scene!Snapshot => Scene!UIDirty
        BY <1>p, <1>1 DEF SceneKnown, SceneMissing, SceneCommitted, Scene!At, Scene!UIDirty
      <3>3. Scene!Snapshot # Regions => Scene!UIDirty
        BY <1>3, <3>2
      <3>4. dirty' # {} => Scene!UIDirty
        BY <1>1 DEF Scene!UIDirty
      <3> QED
        BY <1>1, <3>1, <3>3, <3>4 DEF SceneAsked
    <2> QED
      BY <2>1, <2>2
  <1> QED
    BY <1>5, <1>7, <1>8, <1>9, <1>10, <1>11, <1>12 DEF SceneIInv

LEMMA SceneStep ==
  ASSUME SceneIInv, Scene!SceneAssumption, [Scene!Next]_(Scene!vars)
  PROVE  SceneIInv'
  <1>1. CASE UNCHANGED Scene!vars
    BY <1>1
       DEF Scene!vars, Scene!UIVars, SceneIInv, SceneFramed, ScenePixels, SceneFlags, SceneCounts,
           SceneKnown, ScenePainting, SceneCommitted, SceneAsked, Scene!DamageIsScheduled,
           SceneMissing, Scene!Snapshot, Scene!UIDirty, Scene!At
  <1>2. CASE Scene!Next
    BY <1>2, SceneChangeKeeps, SceneRestructureKeeps, SceneConfigureKeeps, SceneViewKeeps,
       SceneRefusedKeeps, SceneCannotBeginKeeps, SceneBeginKeeps, SceneFrameFailsKeeps,
       ScenePreparedKeeps, ScenePaintKeeps, SceneCommitKeeps, ScenePresentKeeps
       DEF Scene!Next, Scene!Frame
  <1> QED
    BY <1>1, <1>2

LEMMA SceneInvSound ==
  ASSUME SceneIInv, Scene!SceneAssumption
  PROVE  Scene!TypeOK /\ Scene!NothingIsForgotten /\ Scene!DamageIsScheduled
  <1>p. /\ SceneFramed /\ ScenePixels /\ SceneFlags /\ SceneCounts /\ SceneKnown /\ ScenePainting
        /\ SceneCommitted /\ SceneAsked /\ Scene!DamageIsScheduled
    BY SceneInvParts
  <1>1. Scene!TypeOK
    <2>1. dirty \cup effects \cup pending \cup drawn \cup shown \subseteq Regions
      BY <1>p DEF ScenePixels
    <2>2. {layout_dirty, transition, overlays, redraw, present, later, exposed, missed} \subseteq BOOLEAN
      BY <1>p DEF SceneFlags
    <2>3. frame.pc \in {"idle", "prepare", "paint", "present"}
          /\ frame.clip \cup frame.left \cup frame.captured \subseteq Regions
      BY <1>p, SceneFrameFields
    <2> QED
      BY <1>p, <2>1, <2>2, <2>3 DEF Scene!TypeOK, SceneFramed, ScenePixels, SceneCounts
  <1>2. Scene!NothingIsForgotten
    BY <1>p DEF Scene!NothingIsForgotten, SceneKnown, SceneMissing, SceneAsked, Scene!At
  <1> QED
    BY <1>p, <1>1, <1>2
-----------------------------------------------------------------------------
\* A step of the whole is one of the animations, or leaves them alone.
LEMMA MotionSteps == [Next]_vars => [Motion!Next]_(Motion!vars)
  <1> SUFFICES ASSUME [Next]_vars PROVE [Motion!Next]_(Motion!vars)
    OBVIOUS
  <1>1. CASE OfMotion /\ Motion!Next
    BY <1>1
  <1>2. CASE UNCHANGED motionVars
    BY <1>2 DEF motionVars, Motion!vars
  <1> QED
    BY <1>1, <1>2 DEF Next, OfDbus, OfDesktop, OfScene, vars

LEMMA MotionInv == Spec => []MotionIInv
  <1>1. Init => MotionIInv
    BY ConstantsAsAssumed, MotionInit DEF Init
  <1>2. MotionIInv /\ [Next]_vars => MotionIInv'
    BY ConstantsAsAssumed, MotionSteps, MotionStep
  <1> QED
    BY <1>1, <1>2, PTL DEF Spec

\* The same of the scene.
LEMMA SceneSteps == [Next]_vars => [Scene!Next]_(Scene!vars)
  <1> SUFFICES ASSUME [Next]_vars PROVE [Scene!Next]_(Scene!vars)
    OBVIOUS
  <1>1. CASE OfScene /\ Scene!Next /\ Bounded
    BY <1>1
  <1>2. CASE UNCHANGED sceneVars
    BY <1>2 DEF sceneVars, Scene!vars
  <1> QED
    BY <1>1, <1>2 DEF Next, OfDbus, OfDesktop, OfMotion, vars

LEMMA SceneInv == Spec => []SceneIInv
  <1>1. Init => SceneIInv
    BY ConstantsAsAssumed, SceneInit DEF Init
  <1>2. SceneIInv /\ [Next]_vars => SceneIInv'
    BY ConstantsAsAssumed, SceneSteps, SceneStep
  <1> QED
    BY <1>1, <1>2, PTL DEF Spec

\* Whatever callbacks start, cancel, destroy and throw, each animation that runs has
\* somebody who comes back to it, and there is one timer at most; whatever changes
\* in the middle of a frame or makes it fail, what the scene or the screen lacks is
\* known, and a frame is asked for.
THEOREM UnfinishedIsAlwaysScheduled == Spec => []UnfinishedIsScheduled
  <1>1. MotionIInv => Motion!NoneStranded /\ Motion!OneWake
    BY ConstantsAsAssumed, MotionInvSound
  <1>2. SceneIInv => Scene!NothingIsForgotten /\ Scene!DamageIsScheduled
    BY ConstantsAsAssumed, SceneInvSound
  <1>3. MotionIInv /\ SceneIInv => UnfinishedIsScheduled
    BY <1>1, <1>2 DEF UnfinishedIsScheduled
  <1> QED
    BY <1>3, MotionInv, SceneInv, PTL

\* A completion is called once, and never for an animation that was cancelled.
LEMMA MotionAlwaysCompletesOnce == Spec => Motion!CompletesOnce
  <1> DEFINE Once == \A i \in Animations :
                        completions'[i] # completions[i] => completions[i] = 0 /\ i \notin ended
  <1>1. MotionIInv /\ [Next]_vars => [Once]_(Motion!vars)
    BY ConstantsAsAssumed, MotionSteps, MotionCompletesStep
  <1> QED
    BY <1>1, MotionInv, PTL DEF Spec, Motion!CompletesOnce

\* No value is written for an animation that has ended.
LEMMA MotionAlwaysWritesTheLiving == Spec => Motion!WritesTheLiving
  <1> DEFINE Writes == \A i \in Animations :
          LET writes == \E k \in DOMAIN stack' : stack'[k].id = i /\ stack'[k].at = "write"
                                                 /\ (k \notin DOMAIN stack \/ stack[k] # stack'[k])
          IN writes => i \in running \/ i = started'
  <1>1. MotionIInv /\ [Next]_vars => [Writes]_(Motion!vars)
    BY ConstantsAsAssumed, MotionSteps, MotionWritesStep
  <1> QED
    BY <1>1, MotionInv, PTL DEF Spec, Motion!WritesTheLiving

\* What is over stays over: requests are settled once, and no answer sets out for an
\* owner that has gone, although one whose task had passed the gate of the D-Bus client
\* before still arrives; an animation that has ended is written no value, and a
\* completion is called once, never for one that was cancelled.
THEOREM WhatIsOverAlwaysStaysOver == Spec => WhatIsOverStaysOver
  BY ConstantsAsAssumed, DbusBehaves, DbusCallsImplementContract, DesktopImplementsContract,
     MotionAlwaysWritesTheLiving, MotionAlwaysCompletesOnce, PTL DEF WhatIsOverStaysOver

LEMMA SubjectInv == Spec => [](subject \in {"dbus", "choosers", "opened", "motion", "scene"})
  <1> DEFINE Known == subject \in {"dbus", "choosers", "opened", "motion", "scene"}
  <1>1. Init => Known
    BY DEF Init
  <1>2. Known /\ [Next]_vars => Known'
    BY DEF Next, OfDbus, OfDesktop, OfMotion, OfScene, vars
  <1> QED
    BY <1>1, <1>2, PTL DEF Spec

\* Every component's variables have their types.
THEOREM AlwaysTyped == Spec => []TypeOK
  <1> DEFINE Known == subject \in {"dbus", "choosers", "opened", "motion", "scene"}
  <1>1. Spec => []Dbus!TypeOK
    BY ConstantsAsAssumed, DbusBehaves, DbusCallsTyped, PTL
  <1>2. /\ subject = "choosers" /\ DesktopIInv => Choosers!TypeOK
        /\ subject = "opened" /\ DesktopIInv => Opened!TypeOK
    BY ConstantsAsAssumed, Choosers!InvTyped, Opened!InvTyped DEF DesktopIInv
  <1>3. MotionIInv => Motion!TypeOK
    BY ConstantsAsAssumed, MotionInvSound
  <1>4. SceneIInv => Scene!TypeOK
    BY ConstantsAsAssumed, SceneInvSound
  <1>5. Known /\ Dbus!TypeOK /\ DesktopIInv /\ MotionIInv /\ SceneIInv => TypeOK
    BY <1>2, <1>3, <1>4 DEF TypeOK
  <1> QED
    BY <1>1, <1>5, SubjectInv, DesktopInv, MotionInv, SceneInv, PTL
=============================================================================
