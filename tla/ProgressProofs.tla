---------------------------- MODULE ProgressProofs ----------------------------
(***************************************************************************)
(* The edit session, and what TreeLifecycleProofs and WindowCloseProofs say *)
(* of their components, said of the behaviours that MCProgress checks: each *)
(* component behaves in them as its own specification says, for the others  *)
(* leave it alone.                                                          *)
(***************************************************************************)
EXTENDS MCProgress, TLAPS

-----------------------------------------------------------------------------
(***************************************************************************)
(* The edit session, for any values and whatever the user code does: it is  *)
(* in an interaction exactly when its callbacks are, and an interaction     *)
(* that has to end in a cancel does.                                        *)
(***************************************************************************)
\* The session's own view of an interaction is that of its callbacks.
EditAgrees ==
    /\ editing <=> heard \in {"begin", "change"}
    /\ callback \in {"begin", "observe", "change"} => editing
    /\ callback \in {"end", "cancel"} => ~editing

\* A terminal waits only for a callback that will return; a cancel that is wanted is
\* not forgotten; and a destroyed owner's interaction is about to end.
EditPending ==
    /\ terminal # "none" => callback \in {"begin", "observe", "change"}
    /\ editing => (spoiled <=> terminal = "cancel")
    /\ ~sessionAlive /\ editing => terminal # "none"

EditIInv == Edit!TypeOK /\ EditAgrees /\ EditPending

-----------------------------------------------------------------------------
\* What an operation still has to do is one of Rests, and an update has a value.
LEMMA EditRestForms ==
  ASSUME Edit!TypeOK
  PROVE  /\ rest.then = "update" => rest.with \in EditValues
         /\ Edit!Nothing \in Edit!Rests /\ [then |-> "check"] \in Edit!Rests
         /\ [then |-> "end"] \in Edit!Rests
         /\ \A v \in EditValues : [then |-> "update", with |-> v] \in Edit!Rests
  <1>1. ASSUME rest.then = "update" PROVE rest.with \in EditValues
    <2>1. rest \in {[then |-> "update", with |-> v] : v \in EditValues}
      BY <1>1 DEF Edit!TypeOK, Edit!Rests
    <2>2. PICK v \in EditValues : rest = [then |-> "update", with |-> v]
      BY <2>1
    <2> QED
      BY <2>2
  <1> QED
    BY <1>1 DEF Edit!Rests, Edit!Nothing

\* The session and its State begin at rest.
LEMMA EditInvInit ==
  ASSUME Edit!Init
  PROVE  EditIInv
  BY DEF Edit!Init, EditIInv, Edit!TypeOK, EditAgrees, EditPending, Edit!Rests, Edit!Nothing

\* Every step keeps the types.
LEMMA EditTypeStep ==
  ASSUME Edit!TypeOK, [Edit!Next]_(Edit!vars)
  PROVE  Edit!TypeOK'
  <1> USE EditRestForms DEF Edit!TypeOK
  <1>1. CASE Edit!Begin([then |-> "check"])
    BY <1>1 DEF Edit!Begin, Edit!Dispatching, Edit!control, Edit!model
  <1>2. ASSUME NEW v \in EditValues, Edit!Set(v) PROVE Edit!TypeOK'
    BY <1>2 DEF Edit!Set, Edit!Begin, Edit!Dispatching, Edit!control, Edit!model
  <1>3. ASSUME NEW v \in EditValues, Edit!Update(v) PROVE Edit!TypeOK'
    BY <1>3
       DEF Edit!Update, Edit!Updatable, Edit!UpdateControl, Edit!Terminate, Edit!Wanted,
           Edit!Notify, Edit!Nothing, Edit!Dispatching, Edit!control, Edit!model
  <1>4. ASSUME NEW v \in EditValues, Edit!Finish(v) PROVE Edit!TypeOK'
    BY <1>4
       DEF Edit!Finish, Edit!Updatable, Edit!UpdateControl, Edit!Terminate, Edit!Wanted,
           Edit!Notify, Edit!Dispatching, Edit!control, Edit!model
  <1>5. ASSUME NEW t \in {"end", "cancel"}, Edit!Stop(t) PROVE Edit!TypeOK'
    BY <1>5
       DEF Edit!Stop, Edit!Terminate, Edit!Wanted, Edit!Notify, Edit!Dispatching, Edit!control,
           Edit!model
  <1>6. CASE Edit!Destroy
    BY <1>6
       DEF Edit!Destroy, Edit!Terminate, Edit!Wanted, Edit!Notify, Edit!Dispatching, Edit!control,
           Edit!model
  <1>7. CASE Edit!CallbackReturns
    BY <1>7
       DEF Edit!CallbackReturns, Edit!Notified, Edit!Notify, Edit!Dispatching, Edit!control,
           Edit!model
  <1>8. CASE Edit!ObserversReturn
    BY <1>8 DEF Edit!ObserversReturn, Edit!Notify, Edit!Dispatching, Edit!control, Edit!model
  <1>9. CASE Edit!Throws
    BY <1>9 DEF Edit!Throws, Edit!Notify, Edit!Nothing, Edit!Dispatching, Edit!control, Edit!model
  <1>10. CASE Edit!TerminalReturns
    BY <1>10 DEF Edit!TerminalReturns, Edit!Nothing, Edit!Dispatching, Edit!control, Edit!model
  <1>11. CASE Edit!GoesOn
    <2>1. CASE editing /\ ((rest.then # "end" /\ ~valid) \/ rest.then = "end")
      BY <1>11, <2>1
         DEF Edit!GoesOn, Edit!Terminate, Edit!Wanted, Edit!Notify, Edit!Nothing, Edit!model
    <2>2. CASE /\ ~(editing /\ ((rest.then # "end" /\ ~valid) \/ rest.then = "end"))
               /\ editing /\ sessionAlive /\ rest.then = "update"
      <3>1. Edit!UpdateControl(rest.with, [then |-> "end"])
        BY <1>11, <2>2 DEF Edit!GoesOn
      <3>2. rest.with \in EditValues /\ [then |-> "end"] \in Edit!Rests
        BY <2>2
      <3>3. CASE ~valid
        BY <3>1, <3>2, <3>3
           DEF Edit!UpdateControl, Edit!Terminate, Edit!Wanted, Edit!Notify, Edit!model
      <3>4. CASE valid
        BY <3>1, <3>2, <3>4 DEF Edit!UpdateControl, Edit!control
      <3> QED
        BY <3>3, <3>4
    <2>3. CASE /\ ~(editing /\ ((rest.then # "end" /\ ~valid) \/ rest.then = "end"))
               /\ ~(editing /\ sessionAlive /\ rest.then = "update")
      BY <1>11, <2>3 DEF Edit!GoesOn, Edit!Nothing, Edit!control, Edit!model
    <2> QED
      BY <2>1, <2>2, <2>3
  <1>12. CASE Edit!StateBusyBegins
    BY <1>12 DEF Edit!StateBusyBegins, Edit!Dispatching, Edit!control, Edit!model
  <1>13. CASE Edit!StateBusyEnds
    BY <1>13 DEF Edit!StateBusyEnds, Edit!Dispatching, Edit!control, Edit!model
  <1>14. CASE Edit!ObserverWrites
    BY <1>14 DEF Edit!ObserverWrites, Edit!Dispatching, Edit!control, Edit!model
  <1>15. CASE Edit!DestroyState
    BY <1>15 DEF Edit!DestroyState, Edit!Dispatching, Edit!control, Edit!model
  <1>16. CASE UNCHANGED Edit!vars
    BY <1>16 DEF Edit!vars, Edit!control, Edit!model
  <1> QED
    BY <1>1, <1>2, <1>3, <1>4, <1>5, <1>6, <1>7, <1>8, <1>9, <1>10, <1>11, <1>12, <1>13, <1>14,
       <1>15, <1>16
       DEF Edit!Next, Edit!Returns

\* Every step keeps session and callbacks in agreement: only notifications change
\* either, and they change both.
LEMMA EditAgreesStep ==
  ASSUME Edit!TypeOK, EditAgrees, EditPending, [Edit!Next]_(Edit!vars)
  PROVE  EditAgrees'
  <1> USE DEF Edit!TypeOK, EditAgrees, EditPending
  <1>1. CASE Edit!Begin([then |-> "check"])
    BY <1>1 DEF Edit!Begin, Edit!Dispatching, Edit!control, Edit!model
  <1>2. ASSUME NEW v \in EditValues, Edit!Set(v) PROVE EditAgrees'
    BY <1>2 DEF Edit!Set, Edit!Begin, Edit!Dispatching, Edit!control, Edit!model
  <1>3. ASSUME NEW v \in EditValues, Edit!Update(v) PROVE EditAgrees'
    BY <1>3
       DEF Edit!Update, Edit!Updatable, Edit!UpdateControl, Edit!Terminate, Edit!Wanted,
           Edit!Notify, Edit!Nothing, Edit!Dispatching, Edit!control, Edit!model
  <1>4. ASSUME NEW v \in EditValues, Edit!Finish(v) PROVE EditAgrees'
    BY <1>4
       DEF Edit!Finish, Edit!Updatable, Edit!UpdateControl, Edit!Terminate, Edit!Wanted,
           Edit!Notify, Edit!Dispatching, Edit!control, Edit!model
  <1>5. ASSUME NEW t \in {"end", "cancel"}, Edit!Stop(t) PROVE EditAgrees'
    BY <1>5
       DEF Edit!Stop, Edit!Terminate, Edit!Wanted, Edit!Notify, Edit!Dispatching, Edit!control,
           Edit!model
  <1>6. CASE Edit!Destroy
    BY <1>6
       DEF Edit!Destroy, Edit!Terminate, Edit!Wanted, Edit!Notify, Edit!Dispatching, Edit!control,
           Edit!model
  <1>7. CASE Edit!CallbackReturns
    BY <1>7
       DEF Edit!CallbackReturns, Edit!Notified, Edit!Notify, Edit!Dispatching, Edit!control,
           Edit!model
  <1>8. CASE Edit!ObserversReturn
    BY <1>8 DEF Edit!ObserversReturn, Edit!Notify, Edit!Dispatching, Edit!control, Edit!model
  <1>9. CASE Edit!Throws
    BY <1>9 DEF Edit!Throws, Edit!Notify, Edit!Nothing, Edit!Dispatching, Edit!control, Edit!model
  <1>10. CASE Edit!TerminalReturns
    BY <1>10 DEF Edit!TerminalReturns, Edit!Nothing, Edit!Dispatching, Edit!control, Edit!model
  <1>11. CASE Edit!GoesOn
    BY <1>11
       DEF Edit!GoesOn, Edit!Running, Edit!UpdateControl, Edit!Terminate, Edit!Wanted, Edit!Notify,
           Edit!Nothing, Edit!Dispatching, Edit!control, Edit!model
  <1>12. CASE Edit!StateBusyBegins
    BY <1>12 DEF Edit!StateBusyBegins, Edit!Dispatching, Edit!control, Edit!model
  <1>13. CASE Edit!StateBusyEnds
    BY <1>13 DEF Edit!StateBusyEnds, Edit!Dispatching, Edit!control, Edit!model
  <1>14. CASE Edit!ObserverWrites
    BY <1>14 DEF Edit!ObserverWrites, Edit!Dispatching, Edit!control, Edit!model
  <1>15. CASE Edit!DestroyState
    BY <1>15 DEF Edit!DestroyState, Edit!Dispatching, Edit!control, Edit!model
  <1>16. CASE UNCHANGED Edit!vars
    BY <1>16 DEF Edit!vars, Edit!control, Edit!model
  <1> QED
    BY <1>1, <1>2, <1>3, <1>4, <1>5, <1>6, <1>7, <1>8, <1>9, <1>10, <1>11, <1>12, <1>13, <1>14,
       <1>15, <1>16
       DEF Edit!Next, Edit!Returns

\* Every step keeps what is pending.
LEMMA EditPendingStep ==
  ASSUME Edit!TypeOK, EditAgrees, EditPending, [Edit!Next]_(Edit!vars)
  PROVE  EditPending'
  <1> USE DEF Edit!TypeOK, EditAgrees, EditPending
  <1>1. CASE Edit!Begin([then |-> "check"])
    BY <1>1 DEF Edit!Begin, Edit!Dispatching, Edit!control, Edit!model
  <1>2. ASSUME NEW v \in EditValues, Edit!Set(v) PROVE EditPending'
    BY <1>2 DEF Edit!Set, Edit!Begin, Edit!Dispatching, Edit!control, Edit!model
  <1>3. ASSUME NEW v \in EditValues, Edit!Update(v) PROVE EditPending'
    BY <1>3
       DEF Edit!Update, Edit!Updatable, Edit!UpdateControl, Edit!Terminate, Edit!Wanted,
           Edit!Notify, Edit!Nothing, Edit!Dispatching, Edit!control, Edit!model
  <1>4. ASSUME NEW v \in EditValues, Edit!Finish(v) PROVE EditPending'
    BY <1>4
       DEF Edit!Finish, Edit!Updatable, Edit!UpdateControl, Edit!Terminate, Edit!Wanted,
           Edit!Notify, Edit!Dispatching, Edit!control, Edit!model
  <1>5. ASSUME NEW t \in {"end", "cancel"}, Edit!Stop(t) PROVE EditPending'
    BY <1>5
       DEF Edit!Stop, Edit!Terminate, Edit!Wanted, Edit!Notify, Edit!Dispatching, Edit!control,
           Edit!model
  <1>6. CASE Edit!Destroy
    BY <1>6
       DEF Edit!Destroy, Edit!Terminate, Edit!Wanted, Edit!Notify, Edit!Dispatching, Edit!control,
           Edit!model
  <1>7. CASE Edit!CallbackReturns
    BY <1>7
       DEF Edit!CallbackReturns, Edit!Notified, Edit!Notify, Edit!Dispatching, Edit!control,
           Edit!model
  <1>8. CASE Edit!ObserversReturn
    BY <1>8 DEF Edit!ObserversReturn, Edit!Notify, Edit!Dispatching, Edit!control, Edit!model
  <1>9. CASE Edit!Throws
    BY <1>9 DEF Edit!Throws, Edit!Notify, Edit!Nothing, Edit!Dispatching, Edit!control, Edit!model
  <1>10. CASE Edit!TerminalReturns
    BY <1>10 DEF Edit!TerminalReturns, Edit!Nothing, Edit!Dispatching, Edit!control, Edit!model
  <1>11. CASE Edit!GoesOn
    BY <1>11
       DEF Edit!GoesOn, Edit!Running, Edit!UpdateControl, Edit!Terminate, Edit!Wanted, Edit!Notify,
           Edit!Nothing, Edit!Dispatching, Edit!control, Edit!model
  <1>12. CASE Edit!StateBusyBegins
    BY <1>12 DEF Edit!StateBusyBegins, Edit!Dispatching, Edit!control, Edit!model
  <1>13. CASE Edit!StateBusyEnds
    BY <1>13 DEF Edit!StateBusyEnds, Edit!Dispatching, Edit!control, Edit!model
  <1>14. CASE Edit!ObserverWrites
    BY <1>14 DEF Edit!ObserverWrites, Edit!Dispatching, Edit!control, Edit!model
  <1>15. CASE Edit!DestroyState
    BY <1>15 DEF Edit!DestroyState, Edit!Dispatching, Edit!control, Edit!model
  <1>16. CASE UNCHANGED Edit!vars
    BY <1>16 DEF Edit!vars, Edit!control, Edit!model
  <1> QED
    BY <1>1, <1>2, <1>3, <1>4, <1>5, <1>6, <1>7, <1>8, <1>9, <1>10, <1>11, <1>12, <1>13, <1>14,
       <1>15, <1>16
       DEF Edit!Next, Edit!Returns

\* The invariant is inductive.
LEMMA EditInvStep ==
  ASSUME EditIInv, [Edit!Next]_(Edit!vars)
  PROVE  EditIInv'
  BY EditTypeStep, EditAgreesStep, EditPendingStep DEF EditIInv

LEMMA EditInvHolds == Edit!Spec => []EditIInv
  <1>1. Edit!Init => EditIInv
    BY EditInvInit
  <1>2. EditIInv /\ [Edit!Next]_(Edit!vars) => EditIInv'
    BY EditInvStep
  <1> QED
    BY <1>1, <1>2, PTL DEF Edit!Spec
-----------------------------------------------------------------------------
\* Every reachable state has its type.
THEOREM EditTyped == Edit!Spec => []Edit!TypeOK
  <1>1. EditIInv => Edit!TypeOK
    BY DEF EditIInv
  <1> QED
    BY <1>1, EditInvHolds, PTL

\* With no callback on the stack no terminal notification is pending, and the
\* session is active exactly when its callbacks were told so (EditSession::notify,
\* flush_terminal).
THEOREM EditAlwaysSettled == Edit!Spec => []Edit!RestsSettled
  <1>1. EditIInv => Edit!RestsSettled
    BY DEF EditIInv, EditAgrees, EditPending, Edit!RestsSettled, Edit!TypeOK
  <1> QED
    BY <1>1, EditInvHolds, PTL

\* The interaction of a destroyed owner is over once the callbacks that were on the
\* stack have returned (~EditSession, terminate).
THEOREM EditDestroyedIsAlwaysOver == Edit!Spec => []Edit!DestroyedIsOver
  <1>1. EditIInv => Edit!DestroyedIsOver
    BY DEF EditIInv, EditPending, Edit!DestroyedIsOver
  <1> QED
    BY <1>1, EditInvHolds, PTL
-----------------------------------------------------------------------------
\* No step leaves begin with an interaction over a State that is gone.
LEMMA EditTruthStep ==
  ASSUME EditIInv, [Edit!Next]_(Edit!vars), rest.then = "check", rest' = Edit!Nothing,
         callback' = "idle", editing'
  PROVE  valid
  <1> USE DEF EditIInv, Edit!TypeOK, EditAgrees, Edit!UserCode, Edit!Running
  <1>0. rest # Edit!Nothing
    BY DEF Edit!Nothing
  <1>1. CASE Edit!Begin([then |-> "check"])
    BY <1>1, <1>0 DEF Edit!Begin, Edit!Dispatching, Edit!control, Edit!model, Edit!Nothing
  <1>2. ASSUME NEW v \in EditValues, Edit!Set(v) PROVE valid
    BY <1>2, <1>0 DEF Edit!Set, Edit!Begin, Edit!Dispatching, Edit!control, Edit!model, Edit!Nothing
  <1>3. ASSUME NEW v \in EditValues, Edit!Update(v) PROVE valid
    BY <1>3, <1>0
       DEF Edit!Update, Edit!Updatable, Edit!UpdateControl, Edit!Terminate, Edit!Wanted,
           Edit!Notify, Edit!Nothing, Edit!Dispatching, Edit!control, Edit!model
  <1>4. ASSUME NEW v \in EditValues, Edit!Finish(v) PROVE valid
    BY <1>4, <1>0
       DEF Edit!Finish, Edit!Updatable, Edit!UpdateControl, Edit!Terminate, Edit!Wanted,
           Edit!Notify, Edit!Dispatching, Edit!control, Edit!model, Edit!Nothing
  <1>5. ASSUME NEW t \in {"end", "cancel"}, Edit!Stop(t) PROVE valid
    BY <1>5, <1>0
       DEF Edit!Stop, Edit!Terminate, Edit!Wanted, Edit!Notify, Edit!Dispatching, Edit!control,
           Edit!model, Edit!Nothing
  <1>6. CASE Edit!Destroy
    BY <1>6, <1>0
       DEF Edit!Destroy, Edit!Terminate, Edit!Wanted, Edit!Notify, Edit!Dispatching, Edit!control,
           Edit!model, Edit!Nothing
  <1>7. CASE Edit!CallbackReturns
    BY <1>7, <1>0
       DEF Edit!CallbackReturns, Edit!Notified, Edit!Notify, Edit!Dispatching, Edit!control,
           Edit!model, Edit!Nothing
  <1>8. CASE Edit!ObserversReturn
    BY <1>8, <1>0
       DEF Edit!ObserversReturn, Edit!Notify, Edit!Dispatching, Edit!control, Edit!model,
           Edit!Nothing
  <1>9. CASE Edit!Throws
    BY <1>9, <1>0
       DEF Edit!Throws, Edit!Notify, Edit!Nothing, Edit!Dispatching, Edit!control, Edit!model
  <1>10. CASE Edit!TerminalReturns
    BY <1>10, <1>0
       DEF Edit!TerminalReturns, Edit!Nothing, Edit!Dispatching, Edit!control, Edit!model
  <1>11. CASE Edit!GoesOn
    BY <1>11, <1>0
       DEF Edit!GoesOn, Edit!Running, Edit!UpdateControl, Edit!Terminate, Edit!Wanted, Edit!Notify,
           Edit!Nothing, Edit!Dispatching, Edit!control, Edit!model
  <1>12. CASE Edit!StateBusyBegins
    BY <1>12, <1>0
       DEF Edit!StateBusyBegins, Edit!Dispatching, Edit!control, Edit!model, Edit!Nothing
  <1>13. CASE Edit!StateBusyEnds
    BY <1>13, <1>0 DEF Edit!StateBusyEnds, Edit!Dispatching, Edit!control, Edit!model, Edit!Nothing
  <1>14. CASE Edit!ObserverWrites
    BY <1>14, <1>0 DEF Edit!ObserverWrites, Edit!Dispatching, Edit!control, Edit!model, Edit!Nothing
  <1>15. CASE Edit!DestroyState
    BY <1>15, <1>0 DEF Edit!DestroyState, Edit!Dispatching, Edit!control, Edit!model, Edit!Nothing
  <1>16. CASE UNCHANGED Edit!vars
    BY <1>16, <1>0 DEF Edit!vars, Edit!control, Edit!model, Edit!Nothing
  <1> QED
    BY <1>1, <1>2, <1>3, <1>4, <1>5, <1>6, <1>7, <1>8, <1>9, <1>10, <1>11, <1>12, <1>13, <1>14,
       <1>15, <1>16
       DEF Edit!Next, Edit!Returns

\* begin and set never report an interaction that cannot be updated: the State was
\* there when they returned, or no interaction is reported.
THEOREM EditBeginAlwaysReportsTruth == Edit!Spec => Edit!BeginReportsTruth
  <1>1. EditIInv /\ [Edit!Next]_(Edit!vars) =>
           [rest.then = "check" /\ rest' = Edit!Nothing /\ callback' = "idle" => (editing' => valid)]_(Edit!vars)
    BY EditTruthStep
  <1> QED
    BY <1>1, EditInvHolds, PTL DEF Edit!Spec, Edit!BeginReportsTruth
-----------------------------------------------------------------------------
\* Nobody was told anything at first.
LEMMA EditContractBegins ==
  ASSUME Edit!Init
  PROVE  Edit!Contract!Init
  BY DEF Edit!Init, Edit!Contract!Init

\* Every step notifies as the contract says, finds a reason for a cancel, or neither.
LEMMA EditContractStep ==
  ASSUME EditIInv, [Edit!Next]_(Edit!vars)
  PROVE  [Edit!Contract!Next]_(Edit!Contract!contractVars)
  <1> DEFINE Kind == [Edit!Contract!Next]_(Edit!Contract!contractVars)
  <1> USE DEF EditIInv, Edit!TypeOK, EditAgrees, EditPending, Edit!Contract!Next,
              Edit!Contract!contractVars, Edit!Contract!Under,
              Edit!Contract!Begin, Edit!Contract!Change, Edit!Contract!Spoil, Edit!Contract!End, Edit!Contract!Cancel
  <1>1. CASE Edit!Begin([then |-> "check"])
    BY <1>1 DEF Edit!Begin, Edit!Dispatching, Edit!control, Edit!model
  <1>2. ASSUME NEW v \in EditValues, Edit!Set(v) PROVE Kind
    BY <1>2 DEF Edit!Set, Edit!Begin, Edit!Dispatching, Edit!control, Edit!model
  <1>3. ASSUME NEW v \in EditValues, Edit!Update(v) PROVE Kind
    BY <1>3
       DEF Edit!Update, Edit!Updatable, Edit!UpdateControl, Edit!Terminate, Edit!Wanted,
           Edit!Notify, Edit!Nothing, Edit!Dispatching, Edit!control, Edit!model
  <1>4. ASSUME NEW v \in EditValues, Edit!Finish(v) PROVE Kind
    BY <1>4
       DEF Edit!Finish, Edit!Updatable, Edit!UpdateControl, Edit!Terminate, Edit!Wanted,
           Edit!Notify, Edit!Dispatching, Edit!control, Edit!model
  <1>5. ASSUME NEW t \in {"end", "cancel"}, Edit!Stop(t) PROVE Kind
    BY <1>5
       DEF Edit!Stop, Edit!Terminate, Edit!Wanted, Edit!Notify, Edit!Dispatching, Edit!control,
           Edit!model
  <1>6. CASE Edit!Destroy
    BY <1>6
       DEF Edit!Destroy, Edit!Terminate, Edit!Wanted, Edit!Notify, Edit!Dispatching, Edit!control,
           Edit!model
  <1>7. CASE Edit!CallbackReturns
    BY <1>7
       DEF Edit!CallbackReturns, Edit!Notified, Edit!Notify, Edit!Dispatching, Edit!control,
           Edit!model
  <1>8. CASE Edit!ObserversReturn
    BY <1>8 DEF Edit!ObserversReturn, Edit!Notify, Edit!Dispatching, Edit!control, Edit!model
  <1>9. CASE Edit!Throws
    BY <1>9 DEF Edit!Throws, Edit!Notify, Edit!Nothing, Edit!Dispatching, Edit!control, Edit!model
  <1>10. CASE Edit!TerminalReturns
    BY <1>10 DEF Edit!TerminalReturns, Edit!Nothing, Edit!Dispatching, Edit!control, Edit!model
  <1>11. CASE Edit!GoesOn
    BY <1>11
       DEF Edit!GoesOn, Edit!Running, Edit!UpdateControl, Edit!Terminate, Edit!Wanted, Edit!Notify,
           Edit!Nothing, Edit!Dispatching, Edit!control, Edit!model
  <1>12. CASE Edit!StateBusyBegins
    BY <1>12 DEF Edit!StateBusyBegins, Edit!Dispatching, Edit!control, Edit!model
  <1>13. CASE Edit!StateBusyEnds
    BY <1>13 DEF Edit!StateBusyEnds, Edit!Dispatching, Edit!control, Edit!model
  <1>14. CASE Edit!ObserverWrites
    BY <1>14 DEF Edit!ObserverWrites, Edit!Dispatching, Edit!control, Edit!model
  <1>15. CASE Edit!DestroyState
    BY <1>15 DEF Edit!DestroyState, Edit!Dispatching, Edit!control, Edit!model
  <1>16. CASE UNCHANGED Edit!vars
    BY <1>16 DEF Edit!vars, Edit!control, Edit!model
  <1> QED
    BY <1>1, <1>2, <1>3, <1>4, <1>5, <1>6, <1>7, <1>8, <1>9, <1>10, <1>11, <1>12, <1>13, <1>14,
       <1>15, <1>16
       DEF Edit!Next, Edit!Returns

\* Callbacks hear begin, then changes, then exactly one of end and cancel, and a
\* cancel whenever an exception, a destroyed State or owner, or cancel() asked for it.
THEOREM EditImplementsContract == Edit!Spec => Edit!ImplementsEditContract
  <1>1. Edit!Init => Edit!Contract!Init
    BY EditContractBegins
  <1>2. EditIInv /\ [Edit!Next]_(Edit!vars) => [Edit!Contract!Next]_(Edit!Contract!contractVars)
    BY EditContractStep
  <1> QED
    BY <1>1, <1>2, EditInvHolds, PTL DEF Edit!Spec, Edit!ImplementsEditContract, Edit!Contract!Spec
-----------------------------------------------------------------------------
\* Seen from the session, every behaviour is one of EditSession.
LEMMA EditBehaves == Spec => Edit!Spec
  <1>1. Init => Edit!Init
    BY DEF Init
  <1>2. [Next]_vars => [Edit!Next]_(Edit!vars)
    <2> SUFFICES ASSUME [Next]_vars PROVE [Edit!Next]_(Edit!vars)
      OBVIOUS
    <2>1. CASE OfEdit /\ Edit!Next
      BY <2>1
    <2>2. CASE UNCHANGED editVars
      BY <2>2 DEF editVars, Edit!vars, Edit!control, Edit!model
    <2> QED
      BY <2>1, <2>2 DEF Next, OfWindow, OfTree, OfDynamic, OfHover, OfToast, OfDialog, vars
  <1> QED
    BY <1>1, <1>2, PTL DEF Spec, Edit!Spec

\* Nothing is pending in a session at rest, and the interaction of a destroyed
\* owner is over.
THEOREM EditIsAlwaysSound == Spec => []EditIsSound
  <1>1. Edit!RestsSettled /\ Edit!DestroyedIsOver => EditIsSound
    BY DEF EditIsSound
  <1> QED
    BY <1>1, EditBehaves, EditAlwaysSettled, EditDestroyedIsAlwaysOver, PTL
-----------------------------------------------------------------------------
(***************************************************************************)
(* The tree, of any size and for any number of mounts.  A nested operation  *)
(* is refused, so that at most one is under way, or the deactivation that   *)
(* ends a failed activation; where its pass stands says which call each     *)
(* component heard last.                                                    *)
(***************************************************************************)
(***************************************************************************)
(* Operations under way.                                                    *)
(***************************************************************************)
TreeShape ==
    /\ operations \in Seq(Tree!Frames) /\ Len(operations) \in 0..2
    /\ Tree!Under <=> transition # "None"
    /\ Len(operations) = 2 => Tree!Top.op = "Deactivate"

\* The innermost operation of op now stands at node a of pass p, among len.
TreeStands(op, p, a, c, len) ==
    /\ Tree!Under' /\ operations' \in Seq(Tree!Frames) /\ Len(operations') = len
    /\ Tree!Top' = [op |-> op, pass |-> p, at |-> a, calling |-> c]

\* The passes of each operation, with the flags of the tree under it.
TreeFlags ==
    Tree!Under =>
        /\ Tree!Top.op = "Mount" => Tree!Top.pass \in {"mount", "unmount"} /\ ~mounted /\ ~active
        /\ Tree!Top.op = "Activate" =>
                    Tree!Top.pass \in {"activate", "deactivate", "late"} /\ mounted /\ active
        /\ Tree!Top.op = "Deactivate" => Tree!Top.pass \in {"blur", "deactivate"} /\ mounted /\ active
        /\ Tree!Top.op = "Unmount" =>
                    /\ Tree!Top.pass \in {"deactivate", "unmount"} /\ mounted
                    /\ (active <=> Tree!Top.pass = "deactivate")

\* Where a pass can stand.
TreeRange ==
    Tree!Under =>
        /\ Tree!Forward => Tree!Top.at \in 1..TreeSize + 1
        /\ ~Tree!Forward => Tree!Top.at \in 0..TreeSize
        /\ Tree!Top.calling /\ Tree!Top.pass \notin {"blur", "late"} => Tree!Top.at \in Tree!Nodes

\* The call component n heard last when pass p stands at node a: the pass has
\* been at n, or has not.
TreeHeardAt(p, a, c, n) ==
    CASE p = "mount"      -> IF n < a \/ (n = a /\ c) THEN "mounted" ELSE "out"
      [] p = "activate"   -> IF n < a \/ (n = a /\ c) THEN "active" ELSE "mounted"
      [] p = "deactivate" -> IF n > a \/ (n = a /\ c) THEN "mounted" ELSE "active"
      [] p = "unmount"    -> IF n > a \/ (n = a /\ c) THEN "out" ELSE "mounted"
      [] OTHER            -> "active"

TreeHeard(n) ==
    IF Tree!Under THEN TreeHeardAt(Tree!Top.pass, Tree!Top.at, Tree!Top.calling, n)
    ELSE IF active THEN "active" ELSE IF mounted THEN "mounted" ELSE "out"

TreeAllHeard == \A n \in Tree!Nodes : life[n] = TreeHeard(n)

\* An active tree is mounted and has the Dispatcher.
TreeActiveTree == active => mounted /\ dispatcher

\* A generation ends before components are unmounted; one that is out has no
\* identity and no callback of the generation, and no old callback is of it.
TreeGenerations ==
    /\ Tree!Under /\ Tree!Top.pass = "unmount" => lifetime = 0
    /\ \A n \in Tree!Nodes :
          /\ life[n] = "out" => n \notin live
          /\ life[n] = "out" /\ lifetime # 0 => held[n] # lifetime
          /\ lifetime \notin stale[n]

TreeIInv ==
    /\ Tree!TreeAssumption
    /\ Tree!TypeOK
    /\ TreeShape
    /\ TreeFlags
    /\ TreeRange
    /\ TreeAllHeard
    /\ TreeActiveTree
    /\ TreeGenerations

\* The part of it that says what an operation is doing.
TreeDoing == Tree!TypeOK /\ TreeShape /\ TreeFlags /\ TreeRange
-----------------------------------------------------------------------------
(***************************************************************************)
(* What the operators on the stack do.                                      *)
(***************************************************************************)
\* The innermost operation is a frame.
LEMMA TreeTopIsFrame ==
  ASSUME TreeShape, Tree!Under
  PROVE  /\ Tree!Top \in Tree!Frames /\ Len(operations) \in DOMAIN operations
         /\ Len(operations) = 1 \/ Len(operations) = 2
  <1>1. operations \in Seq(Tree!Frames) /\ operations # <<>> /\ Len(operations) \in 0..2
    BY DEF TreeShape, Tree!Under
  <1>2. Len(operations) # 0 /\ DOMAIN operations = 1..Len(operations)
    BY <1>1
  <1>3. Len(operations) = 1 \/ Len(operations) = 2
    BY <1>1, <1>2
  <1>4. Len(operations) \in DOMAIN operations
    BY <1>2, <1>3
  <1> QED
    BY <1>1, <1>3, <1>4 DEF Tree!Top

\* A sequence with one element replaced.
LEMMA TreeReplaced ==
  ASSUME NEW S, NEW s \in Seq(S), NEW n \in DOMAIN s, NEW f \in S
  PROVE  /\ [s EXCEPT ![n] = f] \in Seq(S)
         /\ Len([s EXCEPT ![n] = f]) = Len(s)
         /\ [s EXCEPT ![n] = f][n] = f
  <1>1. [s EXCEPT ![n] = f] \in Seq(S)
    OBVIOUS
  <1>2. Len([s EXCEPT ![n] = f]) = Len(s)
    OBVIOUS
  <1>3. [s EXCEPT ![n] = f][n] = f
    OBVIOUS
  <1> QED
    BY <1>1, <1>2, <1>3

LEMMA TreeAppended ==
  ASSUME NEW S, NEW s \in Seq(S), NEW f \in S
  PROVE  Append(s, f)[Len(s) + 1] = f
  OBVIOUS

\* An operation begins when none is under way.
LEMMA TreePushed ==
  ASSUME TreeShape, Tree!Idle, NEW op \in Tree!Transitions \ {"None"}, NEW a \in 0..TreeSize + 1,
         NEW p \in {"mount", "activate", "blur", "deactivate", "unmount", "late"},
         Tree!Push(op, p, a)
  PROVE  TreeStands(op, p, a, FALSE, 1) /\ ~Tree!Under
  <1> DEFINE f == [op |-> op, pass |-> p, at |-> a, calling |-> FALSE]
  <1>1. operations = <<>> /\ ~Tree!Under
    BY DEF TreeShape, Tree!Idle, Tree!Under
  <1>2. f \in Tree!Frames
    BY DEF Tree!Frames
  <1>3. operations' = <<f>>
    BY <1>1 DEF Tree!Push
  <1> QED
    BY <1>1, <1>2, <1>3 DEF TreeStands, Tree!Top, Tree!Under

\* A pass goes on at another node, or another pass begins.
LEMMA TreeWent ==
  ASSUME TreeShape, Tree!Under, NEW a \in 0..TreeSize + 1,
         NEW p \in {"mount", "activate", "blur", "deactivate", "unmount", "late"},
         Tree!Go(p, a)
  PROVE  TreeStands(Tree!Top.op, p, a, FALSE, Len(operations))
  <1> DEFINE f == [op |-> Tree!Top.op, pass |-> p, at |-> a, calling |-> FALSE]
  <1>1. /\ Tree!Top \in Tree!Frames /\ Len(operations) \in DOMAIN operations
        /\ operations \in Seq(Tree!Frames)
    BY TreeTopIsFrame DEF TreeShape
  <1>2. [Tree!Top EXCEPT !.pass = p, !.at = a, !.calling = FALSE] = f
    <2> DEFINE t == Tree!Top  g == [t EXCEPT !.pass = p, !.at = a, !.calling = FALSE]
    <2>1. DOMAIN t = {"op", "pass", "at", "calling"}
      BY <1>1 DEF Tree!Frames
    <2> HIDE DEF t
    <2>2. DOMAIN g = {"op", "pass", "at", "calling"} /\ g = [x \in DOMAIN g |-> g[x]]
      BY <2>1
    <2>3. g.op = t.op /\ g.pass = p /\ g.at = a /\ g.calling = FALSE
      BY <2>1
    <2> HIDE DEF g
    <2>4. g = [op |-> t.op, pass |-> p, at |-> a, calling |-> FALSE]
      BY <2>2, <2>3
    <2> QED
      BY <2>4 DEF g, t
  <1>3. f \in Tree!Frames
    BY <1>1 DEF Tree!Frames
  <1>4. operations' = [operations EXCEPT ![Len(operations)] = f]
    BY <1>2 DEF Tree!Go, Tree!Top
  <1> HIDE DEF f
  <1>5. /\ operations' \in Seq(Tree!Frames) /\ Len(operations') = Len(operations)
        /\ operations'[Len(operations)] = f
    BY <1>1, <1>3, <1>4, TreeReplaced
  <1>6. Len(operations) # 0
    BY TreeTopIsFrame
  <1> QED
    BY <1>5, <1>6 DEF TreeStands, Tree!Top, Tree!Under, f

\* The component is called.
TreeCalling == operations' = [operations EXCEPT ![Len(operations)].calling = TRUE]

LEMMA TreeCalled ==
  ASSUME TreeShape, Tree!Under, TreeCalling
  PROVE  TreeStands(Tree!Top.op, Tree!Top.pass, Tree!Top.at, TRUE, Len(operations))
  <1> DEFINE f == [op |-> Tree!Top.op, pass |-> Tree!Top.pass, at |-> Tree!Top.at, calling |-> TRUE]
  <1>1. /\ Tree!Top \in Tree!Frames /\ Len(operations) \in DOMAIN operations
        /\ operations \in Seq(Tree!Frames)
    BY TreeTopIsFrame DEF TreeShape
  <1>2. [Tree!Top EXCEPT !.calling = TRUE] = f
    <2> DEFINE t == Tree!Top  g == [t EXCEPT !.calling = TRUE]
    <2>1. DOMAIN t = {"op", "pass", "at", "calling"}
      BY <1>1 DEF Tree!Frames
    <2> HIDE DEF t
    <2>2. DOMAIN g = {"op", "pass", "at", "calling"} /\ g = [x \in DOMAIN g |-> g[x]]
      BY <2>1
    <2>3. g.op = t.op /\ g.pass = t.pass /\ g.at = t.at /\ g.calling = TRUE
      BY <2>1
    <2> HIDE DEF g
    <2>4. g = [op |-> t.op, pass |-> t.pass, at |-> t.at, calling |-> TRUE]
      BY <2>2, <2>3
    <2> QED
      BY <2>4 DEF g, t
  <1>3. f \in Tree!Frames
    BY <1>1 DEF Tree!Frames
  <1>4. operations' = [operations EXCEPT ![Len(operations)] = f]
    BY <1>2 DEF TreeCalling, Tree!Top
  <1> HIDE DEF f
  <1>5. /\ operations' \in Seq(Tree!Frames) /\ Len(operations') = Len(operations)
        /\ operations'[Len(operations)] = f
    <2> DEFINE s == operations  n == Len(operations)
    <2>1. s \in Seq(Tree!Frames) /\ n \in DOMAIN s /\ f \in Tree!Frames
      BY <1>1, <1>3
    <2>2. n = Len(s) /\ operations' = [s EXCEPT ![n] = f]
      BY <1>4
    <2> HIDE DEF s, n
    <2>3. operations' \in Seq(Tree!Frames) /\ Len(operations') = Len(s) /\ operations'[n] = f
      BY <2>1, <2>2, TreeReplaced
    <2> QED
      BY <2>3 DEF s, n
  <1>6. Len(operations) # 0
    BY TreeTopIsFrame
  <1> QED
    BY <1>5, <1>6 DEF TreeStands, Tree!Top, Tree!Under, f

\* The only operation under way ends.
LEMMA TreeLeft ==
  ASSUME TreeShape, Tree!Under, Tree!Top.op # "Deactivate", Tree!Leave
  PROVE  operations' = <<>> /\ transition' = "None"
  <1>1. Len(operations) = 1
    BY TreeTopIsFrame DEF TreeShape
  <1> QED
    BY <1>1 DEF Tree!Leave, Tree!Pop, TreeShape

\* The only operation under way ends.
TreeEnded == ~Tree!Under' /\ operations' = <<>> /\ transition' = "None"

LEMMA TreeMountOp ==
  ASSUME Tree!TreeAssumption, TreeDoing, Tree!Mount
  PROVE  /\ ~Tree!Under /\ transition = "None" /\ ~mounted /\ mounts < TreeMounts
         /\ TreeStands("Mount", "mount", 1, FALSE, 1)
         /\ transition' = "Mount" /\ mounts' = mounts + 1
         /\ UNCHANGED <<life, mounted, active, dispatcher, Tree!reach>>
  <1>1. 1 \in 0..TreeSize + 1
    BY DEF Tree!TreeAssumption
  <1>2. Tree!Idle /\ Tree!Push("Mount", "mount", 1)
    BY DEF Tree!Mount
  <1>3. TreeStands("Mount", "mount", 1, FALSE, 1) /\ ~Tree!Under
    BY <1>1, <1>2, TreePushed DEF TreeDoing, Tree!Transitions
  <1> QED
    BY <1>2, <1>3 DEF Tree!Mount, Tree!Idle

LEMMA TreeActivateFocusOp ==
  ASSUME Tree!TreeAssumption, TreeDoing, Tree!ActivateFocus
  PROVE  /\ ~Tree!Under /\ transition = "None" /\ mounted /\ ~active
         /\ TreeStands("Activate", "activate", 1, FALSE, 1)
         /\ transition' = "Activate" /\ active' = TRUE /\ dispatcher' = TRUE
         /\ UNCHANGED <<life, mounted, Tree!reach, mounts>>
  <1>1. 1 \in 0..TreeSize + 1
    BY DEF Tree!TreeAssumption
  <1>2. Tree!Idle /\ Tree!Push("Activate", "activate", 1)
    BY DEF Tree!ActivateFocus
  <1>3. TreeStands("Activate", "activate", 1, FALSE, 1) /\ ~Tree!Under
    BY <1>1, <1>2, TreePushed DEF TreeDoing, Tree!Transitions
  <1> QED
    BY <1>2, <1>3 DEF Tree!ActivateFocus, Tree!Idle

LEMMA TreeDeactivateFocusOp ==
  ASSUME Tree!TreeAssumption, TreeDoing, Tree!DeactivateFocus
  PROVE  /\ ~Tree!Under /\ transition = "None" /\ active
         /\ TreeStands("Deactivate", "blur", TreeSize, FALSE, 1)
         /\ transition' = "Deactivate"
         /\ UNCHANGED <<life, mounted, active, dispatcher, Tree!reach, mounts>>
  <1>1. TreeSize \in 0..TreeSize + 1
    BY DEF Tree!TreeAssumption
  <1>2. Tree!Idle /\ Tree!Push("Deactivate", "blur", TreeSize)
    BY DEF Tree!DeactivateFocus
  <1>3. TreeStands("Deactivate", "blur", TreeSize, FALSE, 1) /\ ~Tree!Under
    BY <1>1, <1>2, TreePushed DEF TreeDoing, Tree!Transitions
  <1> QED
    BY <1>2, <1>3 DEF Tree!DeactivateFocus, Tree!Idle

LEMMA TreeUnmountOp ==
  ASSUME Tree!TreeAssumption, TreeDoing, Tree!Unmount
  PROVE  /\ ~Tree!Under /\ transition = "None" /\ mounted
         /\ \/ /\ active /\ TreeStands("Unmount", "deactivate", TreeSize, FALSE, 1)
               /\ UNCHANGED Tree!reach
            \/ /\ ~active /\ TreeStands("Unmount", "unmount", TreeSize, FALSE, 1)
               /\ Tree!RetireAll
         /\ transition' = "Unmount"
         /\ UNCHANGED <<life, mounted, active, dispatcher, mounts>>
  <1>1. TreeSize \in 0..TreeSize + 1
    BY DEF Tree!TreeAssumption
  <1>2. CASE active
    <2>1. Tree!Idle /\ Tree!Push("Unmount", "deactivate", TreeSize)
      BY <1>2 DEF Tree!Unmount
    <2>2. TreeStands("Unmount", "deactivate", TreeSize, FALSE, 1) /\ ~Tree!Under
      BY <1>1, <2>1, TreePushed DEF TreeDoing, Tree!Transitions
    <2> QED
      BY <1>2, <2>1, <2>2 DEF Tree!Unmount, Tree!Idle
  <1>3. CASE ~active
    <2>1. Tree!Idle /\ Tree!Push("Unmount", "unmount", TreeSize)
      BY <1>3 DEF Tree!Unmount
    <2>2. TreeStands("Unmount", "unmount", TreeSize, FALSE, 1) /\ ~Tree!Under
      BY <1>1, <2>1, TreePushed DEF TreeDoing, Tree!Transitions
    <2> QED
      BY <1>3, <2>1, <2>2 DEF Tree!Unmount, Tree!Idle
  <1> QED
    BY <1>2, <1>3

\* Component n gets callbacks of this generation.
TreeRenewed(n) ==
    /\ live' = live \cup {n}
    /\ lifetime' = (IF lifetime = 0 THEN made + 1 ELSE lifetime)
    /\ made' = (IF lifetime = 0 THEN made + 1 ELSE made)
    /\ stale' = [stale EXCEPT ![n] = @ \cup ({held[n]} \ {0})]
    /\ held' = [held EXCEPT ![n] = lifetime']

LEMMA TreeCallOp ==
  ASSUME Tree!TreeAssumption, TreeDoing, Tree!Call
  PROVE  /\ Tree!Under /\ ~Tree!Top.calling /\ Tree!Top.at \in Tree!Nodes
         /\ TreeStands(Tree!Top.op, Tree!Top.pass, Tree!Top.at, TRUE, Len(operations))
         /\ life' = [life EXCEPT ![Tree!Top.at] = Tree!Reached(Tree!Top.pass)]
         /\ Tree!Top.pass \in {"mount", "activate", "deactivate", "unmount"}
         /\ Tree!Top.pass = "mount" => TreeRenewed(Tree!Top.at)
         /\ Tree!Top.pass = "unmount" =>
                    live' = live \ {Tree!Top.at} /\ UNCHANGED <<lifetime, made, held, stale>>
         /\ Tree!Top.pass \in {"activate", "deactivate"} => UNCHANGED Tree!reach
         /\ UNCHANGED <<Tree!flags, mounts>>
  <1>1. Tree!Under /\ TreeCalling
    BY DEF Tree!Call, TreeCalling
  <1>2. TreeStands(Tree!Top.op, Tree!Top.pass, Tree!Top.at, TRUE, Len(operations))
    BY <1>1, TreeCalled DEF TreeDoing
  <1> DEFINE n == Tree!Top.at  p == Tree!Top.pass
  <1>3. /\ p = "mount" => TreeRenewed(n)
        /\ p = "unmount" => live' = live \ {n} /\ UNCHANGED <<lifetime, made, held, stale>>
        /\ p \in {"activate", "deactivate"} => UNCHANGED Tree!reach
    BY DEF Tree!Call, TreeRenewed
  <1>4. /\ ~Tree!Top.calling /\ n \in Tree!Nodes /\ life' = [life EXCEPT ![n] = Tree!Reached(p)]
        /\ p \in {"mount", "activate", "deactivate", "unmount"}
        /\ UNCHANGED <<Tree!flags, mounts>>
    BY DEF Tree!Call
  <1> QED
    BY <1>1, <1>2, <1>3, <1>4

LEMMA TreeCallFocusOp ==
  ASSUME Tree!TreeAssumption, TreeDoing, Tree!CallFocus
  PROVE  /\ Tree!Under /\ ~Tree!Top.calling /\ Tree!Top.pass \in {"blur", "late"}
         /\ TreeStands(Tree!Top.op, Tree!Top.pass, Tree!Top.at, TRUE, Len(operations))
         /\ UNCHANGED <<life, Tree!flags, Tree!reach, mounts>>
  <1>1. Tree!Under /\ TreeCalling
    BY DEF Tree!CallFocus, TreeCalling
  <1>2. TreeStands(Tree!Top.op, Tree!Top.pass, Tree!Top.at, TRUE, Len(operations))
    BY <1>1, TreeCalled DEF TreeDoing
  <1> QED
    BY <1>2 DEF Tree!CallFocus

LEMMA TreeCallReturnsOp ==
  ASSUME Tree!TreeAssumption, TreeDoing, Tree!CallReturns
  PROVE  /\ Tree!Under /\ Tree!Top.calling /\ Tree!Top.at \in Tree!Nodes
         /\ \/ /\ Tree!Top.pass \in {"mount", "activate"}
               /\ TreeStands(Tree!Top.op, Tree!Top.pass, Tree!Top.at + 1, FALSE, Len(operations))
            \/ /\ Tree!Top.pass \in {"deactivate", "unmount"}
               /\ TreeStands(Tree!Top.op, Tree!Top.pass, Tree!Top.at - 1, FALSE, Len(operations))
         /\ UNCHANGED <<life, Tree!flags, Tree!reach, mounts>>
  <1>1. Tree!Under /\ Tree!Top.calling /\ Tree!Top.pass \notin {"blur", "late"}
    BY DEF Tree!CallReturns
  <1>2. Tree!Top \in Tree!Frames /\ Tree!Top.at \in Tree!Nodes
    BY <1>1, TreeTopIsFrame DEF TreeDoing, TreeRange
  <1>3. Tree!Top.pass \in {"mount", "activate", "deactivate", "unmount"}
    BY <1>1, <1>2 DEF Tree!Frames
  <1>4. CASE Tree!Top.pass \in {"mount", "activate"}
    <2>1. Tree!Go(Tree!Top.pass, Tree!Top.at + 1)
      BY <1>4 DEF Tree!CallReturns, Tree!NextNode
    <2>2. Tree!Top.at + 1 \in 0..TreeSize + 1
      BY <1>2 DEF Tree!Nodes, Tree!TreeAssumption
    <2>3. TreeStands(Tree!Top.op, Tree!Top.pass, Tree!Top.at + 1, FALSE, Len(operations))
      BY <1>1, <1>3, <2>1, <2>2, TreeWent DEF TreeDoing
    <2> QED
      BY <1>1, <1>2, <1>4, <2>3 DEF Tree!CallReturns
  <1>5. CASE Tree!Top.pass \in {"deactivate", "unmount"}
    <2>1. Tree!Go(Tree!Top.pass, Tree!Top.at - 1)
      BY <1>5 DEF Tree!CallReturns, Tree!NextNode
    <2>2. Tree!Top.at - 1 \in 0..TreeSize + 1
      BY <1>2 DEF Tree!Nodes, Tree!TreeAssumption
    <2>3. TreeStands(Tree!Top.op, Tree!Top.pass, Tree!Top.at - 1, FALSE, Len(operations))
      BY <1>1, <1>3, <2>1, <2>2, TreeWent DEF TreeDoing
    <2> QED
      BY <1>1, <1>2, <1>5, <2>3 DEF Tree!CallReturns
  <1> QED
    BY <1>3, <1>4, <1>5

LEMMA TreeForwardThrowsOp ==
  ASSUME Tree!TreeAssumption, TreeDoing, Tree!ForwardThrows
  PROVE  /\ Tree!Under /\ Tree!Top.calling /\ Tree!Top.at \in Tree!Nodes
         /\ \/ /\ Tree!Top.pass = "mount" /\ TreeStands(Tree!Top.op, "unmount", Tree!Top.at, FALSE, Len(operations))
               /\ Tree!RetireGeneration /\ UNCHANGED live
            \/ /\ Tree!Top.pass = "activate"
               /\ TreeStands(Tree!Top.op, "deactivate", Tree!Top.at, FALSE, Len(operations))
               /\ UNCHANGED Tree!reach
         /\ UNCHANGED <<life, Tree!flags, mounts>>
  <1>1. Tree!Under /\ Tree!Top.calling /\ Tree!Top.pass \in {"mount", "activate"}
    BY DEF Tree!ForwardThrows, Tree!Forward
  <1>2. Tree!Top \in Tree!Frames /\ Tree!Top.at \in Tree!Nodes
    BY <1>1, TreeTopIsFrame DEF TreeDoing, TreeRange
  <1>3. Tree!Top.at \in 0..TreeSize + 1
    BY <1>2 DEF Tree!Nodes, Tree!TreeAssumption
  <1>4. CASE Tree!Top.pass = "mount"
    <2>1. Tree!Go("unmount", Tree!Top.at) /\ Tree!RetireGeneration /\ UNCHANGED live
      BY <1>4 DEF Tree!ForwardThrows
    <2>2. TreeStands(Tree!Top.op, "unmount", Tree!Top.at, FALSE, Len(operations))
      BY <1>1, <1>3, <2>1, TreeWent DEF TreeDoing
    <2> QED
      BY <1>1, <1>2, <1>4, <2>1, <2>2 DEF Tree!ForwardThrows
  <1>5. CASE Tree!Top.pass = "activate"
    <2>1. Tree!Go("deactivate", Tree!Top.at) /\ UNCHANGED Tree!reach
      BY <1>5 DEF Tree!ForwardThrows
    <2>2. TreeStands(Tree!Top.op, "deactivate", Tree!Top.at, FALSE, Len(operations))
      BY <1>1, <1>3, <2>1, TreeWent DEF TreeDoing
    <2> QED
      BY <1>1, <1>2, <1>5, <2>1, <2>2 DEF Tree!ForwardThrows
  <1> QED
    BY <1>1, <1>4, <1>5

LEMMA TreeBackwardThrowsOp ==
  ASSUME Tree!TreeAssumption, TreeDoing, Tree!BackwardThrows
  PROVE  /\ Tree!Under /\ Tree!Top.calling /\ Tree!Top.at \in Tree!Nodes
         /\ Tree!Top.pass \in {"deactivate", "unmount"}
         /\ TreeStands(Tree!Top.op, Tree!Top.pass, Tree!Top.at - 1, FALSE, Len(operations))
         /\ UNCHANGED <<life, Tree!flags, Tree!reach, mounts>>
  <1>1. /\ Tree!Under /\ Tree!Top.calling /\ Tree!Top.pass \in {"deactivate", "unmount"}
        /\ Tree!Go(Tree!Top.pass, Tree!Top.at - 1)
    BY DEF Tree!BackwardThrows
  <1>2. Tree!Top.at \in Tree!Nodes
    BY <1>1 DEF TreeDoing, TreeRange
  <1>3. Tree!Top.at - 1 \in 0..TreeSize + 1
    BY <1>2 DEF Tree!Nodes, Tree!TreeAssumption
  <1>4. TreeStands(Tree!Top.op, Tree!Top.pass, Tree!Top.at - 1, FALSE, Len(operations))
    BY <1>1, <1>3, TreeWent DEF TreeDoing
  <1> QED
    BY <1>1, <1>2, <1>4 DEF Tree!BackwardThrows

LEMMA TreeMountEndsOp ==
  ASSUME Tree!TreeAssumption, TreeDoing, Tree!MountEnds
  PROVE  /\ Tree!Under /\ ~Tree!Top.calling /\ Tree!Top.op = "Mount"
         /\ \/ /\ Tree!Top.pass = "mount" /\ Tree!Top.at = TreeSize + 1
               /\ TreeEnded /\ mounted' = TRUE
               /\ UNCHANGED <<active, Tree!reach>>
            \/ /\ Tree!Top.pass = "mount" /\ Tree!Top.at = TreeSize + 1
               /\ TreeStands("Mount", "unmount", TreeSize, FALSE, Len(operations)) /\ Tree!RetireAll
               /\ UNCHANGED <<mounted, active, transition>>
            \/ /\ Tree!Top.pass = "unmount" /\ Tree!Top.at = 0
               /\ TreeEnded /\ mounted' = FALSE /\ active' = FALSE
               /\ UNCHANGED Tree!reach
         /\ UNCHANGED <<life, dispatcher, mounts>>
  <1>1. Tree!Under /\ ~Tree!Top.calling /\ Tree!Top.op = "Mount"
    BY DEF Tree!MountEnds
  <1>2. Tree!Leave => TreeEnded
    BY <1>1, TreeLeft DEF TreeDoing, TreeEnded, Tree!Under
  <1>3. TreeSize \in 0..TreeSize + 1
    BY DEF Tree!TreeAssumption
  <1>4. Tree!Go("unmount", TreeSize) => TreeStands("Mount", "unmount", TreeSize, FALSE, Len(operations))
    BY <1>1, <1>3, TreeWent DEF TreeDoing
  <1> QED
    BY <1>1, <1>2, <1>4 DEF Tree!MountEnds

LEMMA TreeActivationEndsOp ==
  ASSUME Tree!TreeAssumption, TreeDoing, Tree!ActivationEnds
  PROVE  /\ Tree!Under /\ ~Tree!Top.calling /\ Tree!Top.op = "Activate"
         /\ \/ /\ Tree!Top.pass = "activate" /\ Tree!Top.at = TreeSize + 1
               /\ TreeStands("Activate", "late", TreeSize, FALSE, Len(operations))
               /\ UNCHANGED Tree!flags
            \/ /\ Tree!Top.pass = "deactivate" /\ Tree!Top.at = 0
               /\ TreeEnded /\ active' = FALSE /\ dispatcher' = FALSE
               /\ UNCHANGED mounted
         /\ UNCHANGED <<life, Tree!reach, mounts>>
  <1>1. Tree!Under /\ ~Tree!Top.calling /\ Tree!Top.op = "Activate"
    BY DEF Tree!ActivationEnds
  <1>2. Tree!Leave => TreeEnded
    BY <1>1, TreeLeft DEF TreeDoing, TreeEnded, Tree!Under
  <1>3. TreeSize \in 0..TreeSize + 1
    BY DEF Tree!TreeAssumption
  <1>4. Tree!Go("late", TreeSize) => TreeStands("Activate", "late", TreeSize, FALSE, Len(operations))
    BY <1>1, <1>3, TreeWent DEF TreeDoing
  <1> QED
    BY <1>1, <1>2, <1>4 DEF Tree!ActivationEnds

LEMMA TreeLateEndsOp ==
  ASSUME Tree!TreeAssumption, TreeDoing, Tree!LateEnds
  PROVE  /\ Tree!Under /\ Tree!Top.calling /\ Tree!Top.pass = "late" /\ Tree!Top.op = "Activate"
         /\ TreeEnded \/ (TreeStands("Deactivate", "blur", TreeSize, FALSE, 2) /\ transition' = "Deactivate")
         /\ UNCHANGED <<life, mounted, active, dispatcher, Tree!reach, mounts>>
  <1>1. Tree!Under /\ Tree!Top.calling /\ Tree!Top.pass = "late"
    BY DEF Tree!LateEnds
  <1>2. Tree!Top.op = "Activate"
    BY <1>1, TreeTopIsFrame DEF TreeDoing, TreeFlags, Tree!Frames, Tree!Transitions
  <1>3. CASE Tree!Leave
    BY <1>1, <1>2, <1>3, TreeLeft DEF TreeDoing, TreeEnded, Tree!Under, Tree!LateEnds
  <1>4. CASE ~Tree!Leave
    <2> DEFINE g == [op |-> "Deactivate", pass |-> "blur", at |-> TreeSize, calling |-> FALSE]
               f == [Tree!Top EXCEPT !.calling = FALSE, !.at = 0]
               s == [operations EXCEPT ![Len(operations)] = f]
    <2>1. /\ Tree!Top \in Tree!Frames /\ Len(operations) \in DOMAIN operations
          /\ operations \in Seq(Tree!Frames)
      BY <1>1, TreeTopIsFrame DEF TreeDoing, TreeShape
    <2>2. f \in Tree!Frames
      <3> DEFINE t == Tree!Top  h == [t EXCEPT !.calling = FALSE, !.at = 0]
      <3>1. t \in Tree!Frames /\ DOMAIN t = {"op", "pass", "at", "calling"}
        BY <2>1 DEF Tree!Frames
      <3> HIDE DEF t
      <3>2. DOMAIN h = {"op", "pass", "at", "calling"} /\ h = [x \in DOMAIN h |-> h[x]]
        BY <3>1
      <3>3. h.op = t.op /\ h.pass = t.pass /\ h.at = 0 /\ h.calling = FALSE
        BY <3>1
      <3> HIDE DEF h
      <3>4. h = [op |-> t.op, pass |-> t.pass, at |-> 0, calling |-> FALSE]
        BY <3>2, <3>3
      <3>5. h \in Tree!Frames
        BY <3>1, <3>4 DEF Tree!Frames, Tree!TreeAssumption
      <3> QED
        BY <3>5 DEF h, t
    <2>3. g \in Tree!Frames
      BY DEF Tree!Frames, Tree!Transitions, Tree!TreeAssumption
    <2>4. Len(operations) = 1
      BY <1>1, <1>2, TreeTopIsFrame DEF TreeDoing, TreeShape
    <2>5. operations' = Append(s, g) /\ transition' = "Deactivate"
      BY <1>4 DEF Tree!LateEnds, Tree!Top
    <2> HIDE DEF f, g
    <2>6. s \in Seq(Tree!Frames) /\ Len(s) = 1
      BY <2>1, <2>2, <2>4, TreeReplaced
    <2> HIDE DEF s
    <2>7. /\ operations' \in Seq(Tree!Frames) /\ Len(operations') = 2 /\ operations'[2] = g
          /\ operations' # <<>>
      <3>1. Append(s, g) \in Seq(Tree!Frames) /\ Len(Append(s, g)) = 2
        BY <2>3, <2>6
      <3>2. Append(s, g)[Len(s) + 1] = g
        BY <2>3, <2>6, TreeAppended
      <3>3. Append(s, g)[2] = g
        BY <2>6, <3>2
      <3> QED
        BY <2>5, <3>1, <3>3
    <2>8. TreeStands("Deactivate", "blur", TreeSize, FALSE, 2)
      BY <2>7 DEF TreeStands, Tree!Top, Tree!Under, g
    <2> QED
      BY <1>1, <1>2, <2>5, <2>8 DEF Tree!LateEnds
  <1> QED
    BY <1>3, <1>4

LEMMA TreeBlurEndsOp ==
  ASSUME Tree!TreeAssumption, TreeDoing, Tree!BlurEnds
  PROVE  /\ Tree!Under /\ Tree!Top.pass = "blur" /\ Tree!Top.op = "Deactivate"
         /\ TreeStands("Deactivate", "deactivate", TreeSize, FALSE, Len(operations))
         /\ UNCHANGED <<life, Tree!flags, Tree!reach, mounts>>
  <1>1. Tree!Under /\ Tree!Top.pass = "blur" /\ Tree!Go("deactivate", TreeSize)
    BY DEF Tree!BlurEnds
  <1>2. Tree!Top.op = "Deactivate"
    BY <1>1, TreeTopIsFrame DEF TreeDoing, TreeFlags, Tree!Frames, Tree!Transitions
  <1>3. TreeSize \in 0..TreeSize + 1
    BY DEF Tree!TreeAssumption
  <1>4. TreeStands("Deactivate", "deactivate", TreeSize, FALSE, Len(operations))
    BY <1>1, <1>2, <1>3, TreeWent DEF TreeDoing
  <1> QED
    BY <1>1, <1>2, <1>4 DEF Tree!BlurEnds

LEMMA TreeDeactivationEndsOp ==
  ASSUME Tree!TreeAssumption, TreeDoing, Tree!DeactivationEnds
  PROVE  /\ Tree!Under /\ ~Tree!Top.calling /\ Tree!Top.op = "Deactivate"
         /\ Tree!Top.pass = "deactivate"
         /\ Tree!Top.at = 0 /\ TreeEnded /\ active' = FALSE /\ dispatcher' = FALSE
         /\ UNCHANGED <<life, mounted, Tree!reach, mounts>>
  BY DEF Tree!DeactivationEnds, TreeEnded, Tree!Under

LEMMA TreeUnmountEndsOp ==
  ASSUME Tree!TreeAssumption, TreeDoing, Tree!UnmountEnds
  PROVE  /\ Tree!Under /\ ~Tree!Top.calling /\ Tree!Top.op = "Unmount" /\ Tree!Top.at = 0
         /\ \/ /\ Tree!Top.pass = "deactivate" /\ active' = FALSE
               /\ TreeStands("Unmount", "unmount", TreeSize, FALSE, Len(operations))
               /\ Tree!RetireAll
               /\ UNCHANGED <<mounted, transition, dispatcher>>
            \/ /\ Tree!Top.pass = "unmount" /\ TreeEnded /\ mounted' = FALSE /\ dispatcher' = FALSE
               /\ UNCHANGED <<active, Tree!reach>>
         /\ UNCHANGED <<life, mounts>>
  <1>1. Tree!Under /\ ~Tree!Top.calling /\ Tree!Top.op = "Unmount"
    BY DEF Tree!UnmountEnds
  <1>2. Tree!Leave => TreeEnded
    BY <1>1, TreeLeft DEF TreeDoing, TreeEnded, Tree!Under
  <1>3. TreeSize \in 0..TreeSize + 1
    BY DEF Tree!TreeAssumption
  <1>4. Tree!Go("unmount", TreeSize) => TreeStands("Unmount", "unmount", TreeSize, FALSE, Len(operations))
    BY <1>1, <1>3, TreeWent DEF TreeDoing
  <1> QED
    BY <1>1, <1>2, <1>4 DEF Tree!UnmountEnds
-----------------------------------------------------------------------------
(***************************************************************************)
(* Each part of IInv is kept by every step.                                 *)
(***************************************************************************)

\* An operation under way, or none.
LEMMA TreeStandsWell ==
  ASSUME NEW op, NEW p, NEW a, NEW c, NEW len, TreeStands(op, p, a, c, len),
         len = 1 \/ (len = 2 /\ op = "Deactivate"), transition' # "None"
  PROVE  TreeShape'
  <1>1. /\ Tree!Under' /\ operations' \in Seq(Tree!Frames) /\ Len(operations') = len
        /\ Tree!Top' = [op |-> op, pass |-> p, at |-> a, calling |-> c]
    BY DEF TreeStands
  <1>2. Tree!Top'.op = op
    BY <1>1
  <1> QED
    BY <1>1, <1>2 DEF TreeShape

LEMMA TreeEndedWell ==
  ASSUME TreeEnded
  PROVE  TreeShape'
  BY DEF TreeEnded, TreeShape

\* What an operation under way says of the stack.
LEMMA TreeGoing ==
  ASSUME TreeDoing, Tree!Under
  PROVE  /\ Len(operations) = 1 \/ (Len(operations) = 2 /\ Tree!Top.op = "Deactivate")
         /\ transition # "None" /\ Tree!Top \in Tree!Frames
  BY TreeTopIsFrame DEF TreeDoing, TreeShape

\* The operations under way.
LEMMA TreeShapeKept ==
  ASSUME TreeIInv, [Tree!Next]_(Tree!vars)
  PROVE  TreeShape'
  <1>0. Tree!TreeAssumption /\ TreeDoing /\ TreeAllHeard /\ TreeActiveTree /\ TreeGenerations
    BY DEF TreeIInv, TreeDoing
  <1>1. CASE Tree!Mount
    BY <1>1, TreeMountOp, <1>0, TreeStandsWell, TreeEndedWell, TreeGoing DEF Tree!flags
  <1>2. CASE Tree!ActivateFocus
    BY <1>2, TreeActivateFocusOp, <1>0, TreeStandsWell, TreeEndedWell, TreeGoing DEF Tree!flags
  <1>3. CASE Tree!DeactivateFocus
    BY <1>3, TreeDeactivateFocusOp, <1>0, TreeStandsWell, TreeEndedWell, TreeGoing DEF Tree!flags
  <1>4. CASE Tree!Unmount
    BY <1>4, TreeUnmountOp, <1>0, TreeStandsWell, TreeEndedWell, TreeGoing DEF Tree!flags
  <1>5. CASE Tree!Call
    BY <1>5, TreeCallOp, <1>0, TreeStandsWell, TreeEndedWell, TreeGoing DEF Tree!flags
  <1>6. CASE Tree!CallFocus
    BY <1>6, TreeCallFocusOp, <1>0, TreeStandsWell, TreeEndedWell, TreeGoing DEF Tree!flags
  <1>7. CASE Tree!CallReturns
    BY <1>7, TreeCallReturnsOp, <1>0, TreeStandsWell, TreeEndedWell, TreeGoing DEF Tree!flags
  <1>8. CASE Tree!ForwardThrows
    BY <1>8, TreeForwardThrowsOp, <1>0, TreeStandsWell, TreeEndedWell, TreeGoing DEF Tree!flags
  <1>9. CASE Tree!BackwardThrows
    BY <1>9, TreeBackwardThrowsOp, <1>0, TreeStandsWell, TreeEndedWell, TreeGoing DEF Tree!flags
  <1>10. CASE Tree!MountEnds
    BY <1>10, TreeMountEndsOp, <1>0, TreeStandsWell, TreeEndedWell, TreeGoing DEF Tree!flags
  <1>11. CASE Tree!ActivationEnds
    BY <1>11, TreeActivationEndsOp, <1>0, TreeStandsWell, TreeEndedWell, TreeGoing DEF Tree!flags
  <1>12. CASE Tree!LateEnds
    BY <1>12, TreeLateEndsOp, <1>0, TreeStandsWell, TreeEndedWell, TreeGoing DEF Tree!flags
  <1>13. CASE Tree!BlurEnds
    BY <1>13, TreeBlurEndsOp, <1>0, TreeStandsWell, TreeEndedWell, TreeGoing DEF Tree!flags
  <1>14. CASE Tree!DeactivationEnds
    BY <1>14, TreeDeactivationEndsOp, <1>0, TreeStandsWell, TreeEndedWell, TreeGoing DEF Tree!flags
  <1>15. CASE Tree!UnmountEnds
    BY <1>15, TreeUnmountEndsOp, <1>0, TreeStandsWell, TreeEndedWell, TreeGoing DEF Tree!flags
  <1>16. CASE UNCHANGED Tree!vars
    BY <1>16, <1>0, TreeStandsWell, TreeEndedWell, TreeGoing
       DEF Tree!vars, Tree!flags, Tree!reach, TreeShape, TreeDoing, Tree!Under, Tree!Top
  <1> QED
    BY <1>1, <1>2, <1>3, <1>4, <1>5, <1>6, <1>7, <1>8, <1>9, <1>10, <1>11, <1>12, <1>13, <1>14,
       <1>15, <1>16
       DEF Tree!Next, Tree!Operations, Tree!Steps

\* Where an operation stands, field by field.
LEMMA TreeStandsSo ==
  ASSUME NEW op, NEW p, NEW a, NEW c, NEW len, TreeStands(op, p, a, c, len)
  PROVE  /\ Tree!Under' /\ Tree!Top'.op = op /\ Tree!Top'.pass = p /\ Tree!Top'.at = a
         /\ Tree!Top'.calling = c
  BY DEF TreeStands

\* The passes and the tree's flags.
LEMMA TreeFlagsKept ==
  ASSUME TreeIInv, [Tree!Next]_(Tree!vars)
  PROVE  TreeFlags'
  <1>0. Tree!TreeAssumption /\ TreeDoing /\ TreeAllHeard /\ TreeActiveTree /\ TreeGenerations
    BY DEF TreeIInv, TreeDoing
  <1>1. CASE Tree!Mount
    BY <1>1, TreeMountOp, <1>0, TreeStandsSo
       DEF TreeFlags, TreeActiveTree, TreeDoing, TreeEnded, Tree!flags
  <1>2. CASE Tree!ActivateFocus
    BY <1>2, TreeActivateFocusOp, <1>0, TreeStandsSo
       DEF TreeFlags, TreeActiveTree, TreeDoing, TreeEnded, Tree!flags
  <1>3. CASE Tree!DeactivateFocus
    BY <1>3, TreeDeactivateFocusOp, <1>0, TreeStandsSo
       DEF TreeFlags, TreeActiveTree, TreeDoing, TreeEnded, Tree!flags
  <1>4. CASE Tree!Unmount
    BY <1>4, TreeUnmountOp, <1>0, TreeStandsSo
       DEF TreeFlags, TreeActiveTree, TreeDoing, TreeEnded, Tree!flags
  <1>5. CASE Tree!Call
    BY <1>5, TreeCallOp, <1>0, TreeStandsSo
       DEF TreeFlags, TreeActiveTree, TreeDoing, TreeEnded, Tree!flags
  <1>6. CASE Tree!CallFocus
    BY <1>6, TreeCallFocusOp, <1>0, TreeStandsSo
       DEF TreeFlags, TreeActiveTree, TreeDoing, TreeEnded, Tree!flags
  <1>7. CASE Tree!CallReturns
    BY <1>7, TreeCallReturnsOp, <1>0, TreeStandsSo
       DEF TreeFlags, TreeActiveTree, TreeDoing, TreeEnded, Tree!flags
  <1>8. CASE Tree!ForwardThrows
    BY <1>8, TreeForwardThrowsOp, <1>0, TreeStandsSo
       DEF TreeFlags, TreeActiveTree, TreeDoing, TreeEnded, Tree!flags
  <1>9. CASE Tree!BackwardThrows
    BY <1>9, TreeBackwardThrowsOp, <1>0, TreeStandsSo
       DEF TreeFlags, TreeActiveTree, TreeDoing, TreeEnded, Tree!flags
  <1>10. CASE Tree!MountEnds
    BY <1>10, TreeMountEndsOp, <1>0, TreeStandsSo
       DEF TreeFlags, TreeActiveTree, TreeDoing, TreeEnded, Tree!flags
  <1>11. CASE Tree!ActivationEnds
    BY <1>11, TreeActivationEndsOp, <1>0, TreeStandsSo
       DEF TreeFlags, TreeActiveTree, TreeDoing, TreeEnded, Tree!flags
  <1>12. CASE Tree!LateEnds
    BY <1>12, TreeLateEndsOp, <1>0, TreeStandsSo
       DEF TreeFlags, TreeActiveTree, TreeDoing, TreeEnded, Tree!flags
  <1>13. CASE Tree!BlurEnds
    BY <1>13, TreeBlurEndsOp, <1>0, TreeStandsSo
       DEF TreeFlags, TreeActiveTree, TreeDoing, TreeEnded, Tree!flags
  <1>14. CASE Tree!DeactivationEnds
    BY <1>14, TreeDeactivationEndsOp, <1>0, TreeStandsSo
       DEF TreeFlags, TreeActiveTree, TreeDoing, TreeEnded, Tree!flags
  <1>15. CASE Tree!UnmountEnds
    BY <1>15, TreeUnmountEndsOp, <1>0, TreeStandsSo
       DEF TreeFlags, TreeActiveTree, TreeDoing, TreeEnded, Tree!flags
  <1>16. CASE UNCHANGED Tree!vars
    BY <1>16, <1>0, TreeStandsSo
       DEF Tree!vars, Tree!flags, Tree!reach, TreeFlags, TreeActiveTree, TreeDoing, TreeEnded,
           Tree!Under, Tree!Top
  <1> QED
    BY <1>1, <1>2, <1>3, <1>4, <1>5, <1>6, <1>7, <1>8, <1>9, <1>10, <1>11, <1>12, <1>13, <1>14,
       <1>15, <1>16
       DEF Tree!Next, Tree!Operations, Tree!Steps

\* Where a pass can stand.
LEMMA TreeStandsThere ==
  ASSUME NEW op, NEW p, NEW a, NEW c, NEW len, TreeStands(op, p, a, c, len),
         \/ p \in {"mount", "activate"} /\ a \in 1..TreeSize + 1
         \/ p \in {"blur", "deactivate", "unmount", "late"} /\ a \in 0..TreeSize,
         ~c \/ p \in {"blur", "late"} \/ a \in Tree!Nodes
  PROVE  TreeRange'
  <1>1. Tree!Under' /\ Tree!Top'.pass = p /\ Tree!Top'.at = a /\ Tree!Top'.calling = c
    BY DEF TreeStands
  <1> QED
    BY <1>1 DEF TreeRange, Tree!Forward

LEMMA TreeEndedThere ==
  ASSUME TreeEnded
  PROVE  TreeRange'
  BY DEF TreeEnded, TreeRange

\* What a pass under way says of where it stands.
LEMMA TreeThere ==
  ASSUME TreeDoing, Tree!Under
  PROVE  \/ Tree!Top.pass \in {"mount", "activate"} /\ Tree!Top.at \in 1..TreeSize + 1
         \/ /\ Tree!Top.pass \in {"blur", "deactivate", "unmount", "late"}
            /\ Tree!Top.at \in 0..TreeSize
  BY TreeTopIsFrame DEF TreeDoing, TreeRange, Tree!Forward, Tree!Frames

\* The places next to a node.
LEMMA TreeAround ==
  ASSUME Tree!TreeAssumption
  PROVE  /\ 1 \in 1..TreeSize + 1 /\ TreeSize \in 0..TreeSize /\ TreeSize \in Tree!Nodes
         /\ \A a \in Tree!Nodes : /\ a \in 0..TreeSize /\ a \in 1..TreeSize + 1
                              /\ a + 1 \in 1..TreeSize + 1 /\ a - 1 \in 0..TreeSize
  BY DEF Tree!TreeAssumption, Tree!Nodes

\* Where a pass can stand.
LEMMA TreeRangeKept ==
  ASSUME TreeIInv, [Tree!Next]_(Tree!vars)
  PROVE  TreeRange'
  <1>0. Tree!TreeAssumption /\ TreeDoing /\ TreeAllHeard /\ TreeActiveTree /\ TreeGenerations
    BY DEF TreeIInv, TreeDoing
  <1>1. CASE Tree!Mount
    BY <1>1, TreeMountOp, <1>0, TreeStandsThere, TreeThere, TreeAround DEF Tree!flags
  <1>2. CASE Tree!ActivateFocus
    BY <1>2, TreeActivateFocusOp, <1>0, TreeStandsThere, TreeThere, TreeAround DEF Tree!flags
  <1>3. CASE Tree!DeactivateFocus
    BY <1>3, TreeDeactivateFocusOp, <1>0, TreeStandsThere, TreeThere, TreeAround DEF Tree!flags
  <1>4. CASE Tree!Unmount
    BY <1>4, TreeUnmountOp, <1>0, TreeStandsThere, TreeThere, TreeAround DEF Tree!flags
  <1>5. CASE Tree!Call
    BY <1>5, TreeCallOp, <1>0, TreeStandsThere, TreeThere, TreeAround DEF Tree!flags
  <1>6. CASE Tree!CallFocus
    BY <1>6, TreeCallFocusOp, <1>0, TreeStandsThere, TreeThere, TreeAround DEF Tree!flags
  <1>7. CASE Tree!CallReturns
    BY <1>7, TreeCallReturnsOp, <1>0, TreeStandsThere, TreeThere, TreeAround DEF Tree!flags
  <1>8. CASE Tree!ForwardThrows
    BY <1>8, TreeForwardThrowsOp, <1>0, TreeStandsThere, TreeThere, TreeAround DEF Tree!flags
  <1>9. CASE Tree!BackwardThrows
    BY <1>9, TreeBackwardThrowsOp, <1>0, TreeStandsThere, TreeThere, TreeAround DEF Tree!flags
  <1>10. CASE Tree!MountEnds
    BY <1>10, TreeMountEndsOp, <1>0, TreeStandsThere, TreeThere, TreeAround, TreeEndedThere
       DEF Tree!flags
  <1>11. CASE Tree!ActivationEnds
    BY <1>11, TreeActivationEndsOp, <1>0, TreeStandsThere, TreeThere, TreeAround, TreeEndedThere
       DEF Tree!flags
  <1>12. CASE Tree!LateEnds
    BY <1>12, TreeLateEndsOp, <1>0, TreeStandsThere, TreeThere, TreeAround, TreeEndedThere
       DEF Tree!flags
  <1>13. CASE Tree!BlurEnds
    BY <1>13, TreeBlurEndsOp, <1>0, TreeStandsThere, TreeThere, TreeAround DEF Tree!flags
  <1>14. CASE Tree!DeactivationEnds
    BY <1>14, TreeDeactivationEndsOp, <1>0, TreeStandsThere, TreeThere, TreeAround, TreeEndedThere
       DEF Tree!flags
  <1>15. CASE Tree!UnmountEnds
    BY <1>15, TreeUnmountEndsOp, <1>0, TreeStandsThere, TreeThere, TreeAround, TreeEndedThere
       DEF Tree!flags
  <1>16. CASE UNCHANGED Tree!vars
    BY <1>16, <1>0, TreeStandsThere, TreeThere, TreeAround
       DEF Tree!vars, Tree!flags, Tree!reach, Tree!Under, Tree!Top, TreeRange, Tree!Forward,
           TreeDoing
  <1> QED
    BY <1>1, <1>2, <1>3, <1>4, <1>5, <1>6, <1>7, <1>8, <1>9, <1>10, <1>11, <1>12, <1>13, <1>14,
       <1>15, <1>16
       DEF Tree!Next, Tree!Operations, Tree!Steps

\* What an active tree has.
LEMMA TreeActiveTreeKept ==
  ASSUME TreeIInv, [Tree!Next]_(Tree!vars)
  PROVE  TreeActiveTree'
  <1>0. Tree!TreeAssumption /\ TreeDoing /\ TreeAllHeard /\ TreeActiveTree /\ TreeGenerations
    BY DEF TreeIInv, TreeDoing
  <1>1. CASE Tree!Mount
    BY <1>1, TreeMountOp, <1>0, TreeStandsSo DEF TreeActiveTree, Tree!flags, TreeDoing, TreeFlags
  <1>2. CASE Tree!ActivateFocus
    BY <1>2, TreeActivateFocusOp, <1>0, TreeStandsSo
       DEF TreeActiveTree, Tree!flags, TreeDoing, TreeFlags
  <1>3. CASE Tree!DeactivateFocus
    BY <1>3, TreeDeactivateFocusOp, <1>0, TreeStandsSo
       DEF TreeActiveTree, Tree!flags, TreeDoing, TreeFlags
  <1>4. CASE Tree!Unmount
    BY <1>4, TreeUnmountOp, <1>0, TreeStandsSo DEF TreeActiveTree, Tree!flags, TreeDoing, TreeFlags
  <1>5. CASE Tree!Call
    BY <1>5, TreeCallOp, <1>0, TreeStandsSo DEF TreeActiveTree, Tree!flags, TreeDoing, TreeFlags
  <1>6. CASE Tree!CallFocus
    BY <1>6, TreeCallFocusOp, <1>0, TreeStandsSo
       DEF TreeActiveTree, Tree!flags, TreeDoing, TreeFlags
  <1>7. CASE Tree!CallReturns
    BY <1>7, TreeCallReturnsOp, <1>0, TreeStandsSo
       DEF TreeActiveTree, Tree!flags, TreeDoing, TreeFlags
  <1>8. CASE Tree!ForwardThrows
    BY <1>8, TreeForwardThrowsOp, <1>0, TreeStandsSo
       DEF TreeActiveTree, Tree!flags, TreeDoing, TreeFlags
  <1>9. CASE Tree!BackwardThrows
    BY <1>9, TreeBackwardThrowsOp, <1>0, TreeStandsSo
       DEF TreeActiveTree, Tree!flags, TreeDoing, TreeFlags
  <1>10. CASE Tree!MountEnds
    BY <1>10, TreeMountEndsOp, <1>0, TreeStandsSo
       DEF TreeActiveTree, Tree!flags, TreeDoing, TreeFlags
  <1>11. CASE Tree!ActivationEnds
    BY <1>11, TreeActivationEndsOp, <1>0, TreeStandsSo
       DEF TreeActiveTree, Tree!flags, TreeDoing, TreeFlags
  <1>12. CASE Tree!LateEnds
    BY <1>12, TreeLateEndsOp, <1>0, TreeStandsSo
       DEF TreeActiveTree, Tree!flags, TreeDoing, TreeFlags
  <1>13. CASE Tree!BlurEnds
    BY <1>13, TreeBlurEndsOp, <1>0, TreeStandsSo
       DEF TreeActiveTree, Tree!flags, TreeDoing, TreeFlags
  <1>14. CASE Tree!DeactivationEnds
    BY <1>14, TreeDeactivationEndsOp, <1>0, TreeStandsSo
       DEF TreeActiveTree, Tree!flags, TreeDoing, TreeFlags
  <1>15. CASE Tree!UnmountEnds
    BY <1>15, TreeUnmountEndsOp, <1>0, TreeStandsSo
       DEF TreeActiveTree, Tree!flags, TreeDoing, TreeFlags
  <1>16. CASE UNCHANGED Tree!vars
    BY <1>16, <1>0, TreeStandsSo
       DEF Tree!vars, Tree!flags, Tree!reach, TreeActiveTree, TreeDoing, TreeFlags
  <1> QED
    BY <1>1, <1>2, <1>3, <1>4, <1>5, <1>6, <1>7, <1>8, <1>9, <1>10, <1>11, <1>12, <1>13, <1>14,
       <1>15, <1>16
       DEF Tree!Next, Tree!Operations, Tree!Steps

\* TypeOK without the stack, in two parts.
TreeKnown ==
    /\ life \in [Tree!Nodes -> {"out", "mounted", "active"}]
    /\ mounted \in BOOLEAN /\ active \in BOOLEAN /\ dispatcher \in BOOLEAN
    /\ transition \in Tree!Transitions
    /\ mounts \in 0..TreeMounts

TreeMade ==
    /\ live \subseteq Tree!Nodes /\ made \in Nat /\ lifetime \in 0..made
    /\ held \in [Tree!Nodes -> 0..made] /\ stale \in [Tree!Nodes -> SUBSET (1..made)]

\* Types, without the generations.
LEMMA TreeKnownKept ==
  ASSUME TreeIInv, [Tree!Next]_(Tree!vars)
  PROVE  TreeKnown'
  <1>0. Tree!TreeAssumption /\ TreeDoing /\ TreeAllHeard /\ TreeActiveTree /\ TreeGenerations
    BY DEF TreeIInv, TreeDoing
  <1>1. CASE Tree!Mount

    <2>1. mounts \in 0..TreeMounts /\ mounts' \in 0..TreeMounts
      <3>1. mounts \in 0..TreeMounts /\ TreeMounts \in Nat
        BY <1>0 DEF TreeDoing, Tree!TypeOK, Tree!TreeAssumption
      <3>2. mounts < TreeMounts /\ mounts' = mounts + 1
        BY <1>1, <1>0, TreeMountOp
      <3> QED
        BY <3>1, <3>2
    <2> QED
      BY <1>1, <1>0, <2>1, TreeMountOp DEF TreeKnown, Tree!TypeOK, TreeDoing, Tree!Transitions
  <1>2. CASE Tree!ActivateFocus
    BY <1>2, TreeActivateFocusOp, <1>0
       DEF TreeKnown, Tree!TypeOK, Tree!flags, TreeDoing, Tree!Transitions, TreeEnded, Tree!Reached,
           Tree!TreeAssumption
  <1>3. CASE Tree!DeactivateFocus
    BY <1>3, TreeDeactivateFocusOp, <1>0
       DEF TreeKnown, Tree!TypeOK, Tree!flags, TreeDoing, Tree!Transitions, TreeEnded, Tree!Reached,
           Tree!TreeAssumption
  <1>4. CASE Tree!Unmount
    BY <1>4, TreeUnmountOp, <1>0
       DEF TreeKnown, Tree!TypeOK, Tree!flags, TreeDoing, Tree!Transitions, TreeEnded, Tree!Reached,
           Tree!TreeAssumption
  <1>5. CASE Tree!Call
    BY <1>5, TreeCallOp, <1>0
       DEF TreeKnown, Tree!TypeOK, Tree!flags, TreeDoing, Tree!Transitions, TreeEnded, Tree!Reached,
           Tree!TreeAssumption
  <1>6. CASE Tree!CallFocus
    BY <1>6, TreeCallFocusOp, <1>0
       DEF TreeKnown, Tree!TypeOK, Tree!flags, TreeDoing, Tree!Transitions, TreeEnded, Tree!Reached,
           Tree!TreeAssumption
  <1>7. CASE Tree!CallReturns
    BY <1>7, TreeCallReturnsOp, <1>0
       DEF TreeKnown, Tree!TypeOK, Tree!flags, TreeDoing, Tree!Transitions, TreeEnded, Tree!Reached,
           Tree!TreeAssumption
  <1>8. CASE Tree!ForwardThrows
    BY <1>8, TreeForwardThrowsOp, <1>0
       DEF TreeKnown, Tree!TypeOK, Tree!flags, TreeDoing, Tree!Transitions, TreeEnded, Tree!Reached,
           Tree!TreeAssumption
  <1>9. CASE Tree!BackwardThrows
    BY <1>9, TreeBackwardThrowsOp, <1>0
       DEF TreeKnown, Tree!TypeOK, Tree!flags, TreeDoing, Tree!Transitions, TreeEnded, Tree!Reached,
           Tree!TreeAssumption
  <1>10. CASE Tree!MountEnds
    BY <1>10, TreeMountEndsOp, <1>0
       DEF TreeKnown, Tree!TypeOK, Tree!flags, TreeDoing, Tree!Transitions, TreeEnded, Tree!Reached,
           Tree!TreeAssumption
  <1>11. CASE Tree!ActivationEnds
    BY <1>11, TreeActivationEndsOp, <1>0
       DEF TreeKnown, Tree!TypeOK, Tree!flags, TreeDoing, Tree!Transitions, TreeEnded, Tree!Reached,
           Tree!TreeAssumption
  <1>12. CASE Tree!LateEnds
    BY <1>12, TreeLateEndsOp, <1>0
       DEF TreeKnown, Tree!TypeOK, Tree!flags, TreeDoing, Tree!Transitions, TreeEnded, Tree!Reached,
           Tree!TreeAssumption
  <1>13. CASE Tree!BlurEnds
    BY <1>13, TreeBlurEndsOp, <1>0
       DEF TreeKnown, Tree!TypeOK, Tree!flags, TreeDoing, Tree!Transitions, TreeEnded, Tree!Reached,
           Tree!TreeAssumption
  <1>14. CASE Tree!DeactivationEnds
    BY <1>14, TreeDeactivationEndsOp, <1>0
       DEF TreeKnown, Tree!TypeOK, Tree!flags, TreeDoing, Tree!Transitions, TreeEnded, Tree!Reached,
           Tree!TreeAssumption
  <1>15. CASE Tree!UnmountEnds
    BY <1>15, TreeUnmountEndsOp, <1>0
       DEF TreeKnown, Tree!TypeOK, Tree!flags, TreeDoing, Tree!Transitions, TreeEnded, Tree!Reached,
           Tree!TreeAssumption
  <1>16. CASE UNCHANGED Tree!vars
    BY <1>16, <1>0
       DEF Tree!vars, Tree!flags, Tree!reach, TreeKnown, Tree!TypeOK, TreeDoing, Tree!Transitions,
           TreeEnded, Tree!Reached, Tree!TreeAssumption
  <1> QED
    BY <1>1, <1>2, <1>3, <1>4, <1>5, <1>6, <1>7, <1>8, <1>9, <1>10, <1>11, <1>12, <1>13, <1>14,
       <1>15, <1>16
       DEF Tree!Next, Tree!Operations, Tree!Steps

\* A generation ends.
LEMMA TreeRetired ==
  ASSUME TreeMade, Tree!RetireGeneration, live' \subseteq Tree!Nodes
  PROVE  TreeMade'
  BY DEF TreeMade, Tree!RetireGeneration

LEMMA TreeAllRetired ==
  ASSUME TreeMade, Tree!RetireAll
  PROVE  TreeMade'
  BY TreeRetired DEF Tree!RetireAll

\* Types of the generations.
LEMMA TreeMadeKept ==
  ASSUME TreeIInv, [Tree!Next]_(Tree!vars)
  PROVE  TreeMade'
  <1>0. Tree!TreeAssumption /\ TreeDoing /\ TreeAllHeard /\ TreeActiveTree /\ TreeGenerations
    BY DEF TreeIInv, TreeDoing
  <1>a. TreeMade
    BY <1>0 DEF TreeDoing, Tree!TypeOK, TreeMade
  <1>1. CASE Tree!Mount
    BY <1>1, TreeMountOp, <1>0, <1>a, TreeRetired, TreeAllRetired DEF Tree!reach, TreeMade
  <1>2. CASE Tree!ActivateFocus
    BY <1>2, TreeActivateFocusOp, <1>0, <1>a, TreeRetired, TreeAllRetired DEF Tree!reach, TreeMade
  <1>3. CASE Tree!DeactivateFocus
    BY <1>3, TreeDeactivateFocusOp, <1>0, <1>a, TreeRetired, TreeAllRetired DEF Tree!reach, TreeMade
  <1>4. CASE Tree!Unmount
    BY <1>4, TreeUnmountOp, <1>0, <1>a, TreeRetired, TreeAllRetired DEF Tree!reach, TreeMade
  <1>5. CASE Tree!Call

    <2>1. live' \subseteq Tree!Nodes
      BY <1>5, <1>0, <1>a, TreeCallOp DEF TreeMade, Tree!reach, TreeRenewed
    <2>2. CASE Tree!Top.pass = "mount"
      <3> DEFINE n == Tree!Top.at
      <3>1. n \in Tree!Nodes /\ TreeRenewed(n)
        BY <1>5, <1>0, <2>2, TreeCallOp
      <3> HIDE DEF n
      <3>2. made' \in Nat /\ made <= made' /\ lifetime' \in 0..made' /\ made \in Nat
        BY <1>a, <3>1 DEF TreeMade, TreeRenewed
      <3>3. 0..made \subseteq 0..made' /\ 1..made \subseteq 1..made'
        BY <3>2
      <3>4. held' \in [Tree!Nodes -> 0..made']
        BY <1>a, <3>1, <3>2, <3>3 DEF TreeMade, TreeRenewed
      <3>5. ASSUME NEW m \in Tree!Nodes PROVE stale'[m] \subseteq 1..made'
        <4>1. stale[m] \subseteq 1..made' /\ held[m] \in 0..made'
          BY <1>a, <3>3 DEF TreeMade
        <4>2. {held[m]} \ {0} \subseteq 1..made'
          BY <3>2, <4>1
        <4>3. stale'[m] = stale[m] \/ stale'[m] = stale[m] \cup ({held[m]} \ {0})
          BY <1>a, <3>1 DEF TreeMade, TreeRenewed
        <4> QED
          BY <4>1, <4>2, <4>3
      <3> QED
        <4>1. stale' = [m \in Tree!Nodes |-> stale'[m]]
          BY <1>a, <3>1 DEF TreeMade, TreeRenewed
        <4>2. stale' \in [Tree!Nodes -> SUBSET (1..made')]
          BY <3>5, <4>1
        <4> QED
          BY <2>1, <3>2, <3>4, <4>2 DEF TreeMade
    <2> QED
      BY <1>5, <1>0, <1>a, <2>1, <2>2, TreeCallOp DEF TreeMade, Tree!reach
  <1>6. CASE Tree!CallFocus
    BY <1>6, TreeCallFocusOp, <1>0, <1>a, TreeRetired, TreeAllRetired DEF Tree!reach, TreeMade
  <1>7. CASE Tree!CallReturns
    BY <1>7, TreeCallReturnsOp, <1>0, <1>a, TreeRetired, TreeAllRetired DEF Tree!reach, TreeMade
  <1>8. CASE Tree!ForwardThrows
    BY <1>8, TreeForwardThrowsOp, <1>0, <1>a, TreeRetired, TreeAllRetired DEF Tree!reach, TreeMade
  <1>9. CASE Tree!BackwardThrows
    BY <1>9, TreeBackwardThrowsOp, <1>0, <1>a, TreeRetired, TreeAllRetired DEF Tree!reach, TreeMade
  <1>10. CASE Tree!MountEnds
    BY <1>10, TreeMountEndsOp, <1>0, <1>a, TreeRetired, TreeAllRetired DEF Tree!reach, TreeMade
  <1>11. CASE Tree!ActivationEnds
    BY <1>11, TreeActivationEndsOp, <1>0, <1>a, TreeRetired, TreeAllRetired DEF Tree!reach, TreeMade
  <1>12. CASE Tree!LateEnds
    BY <1>12, TreeLateEndsOp, <1>0, <1>a, TreeRetired, TreeAllRetired DEF Tree!reach, TreeMade
  <1>13. CASE Tree!BlurEnds
    BY <1>13, TreeBlurEndsOp, <1>0, <1>a, TreeRetired, TreeAllRetired DEF Tree!reach, TreeMade
  <1>14. CASE Tree!DeactivationEnds
    BY <1>14, TreeDeactivationEndsOp, <1>0, <1>a, TreeRetired, TreeAllRetired
       DEF Tree!reach, TreeMade
  <1>15. CASE Tree!UnmountEnds
    BY <1>15, TreeUnmountEndsOp, <1>0, <1>a, TreeRetired, TreeAllRetired DEF Tree!reach, TreeMade
  <1>16. CASE UNCHANGED Tree!vars
    BY <1>16, <1>0, <1>a, TreeRetired, TreeAllRetired
       DEF Tree!vars, Tree!flags, Tree!reach, TreeMade
  <1> QED
    BY <1>1, <1>2, <1>3, <1>4, <1>5, <1>6, <1>7, <1>8, <1>9, <1>10, <1>11, <1>12, <1>13, <1>14,
       <1>15, <1>16
       DEF Tree!Next, Tree!Operations, Tree!Steps

\* What is heard at the ends of a pass.
LEMMA TreeHeardAtEnds ==
  ASSUME TreeSize \in Nat, NEW n \in Tree!Nodes
  PROVE  /\ TreeHeardAt("mount", 1, FALSE, n) = "out"
         /\ TreeHeardAt("mount", TreeSize + 1, FALSE, n) = "mounted"
         /\ TreeHeardAt("activate", 1, FALSE, n) = "mounted"
         /\ TreeHeardAt("activate", TreeSize + 1, FALSE, n) = "active"
         /\ TreeHeardAt("deactivate", TreeSize, FALSE, n) = "active"
         /\ TreeHeardAt("deactivate", 0, FALSE, n) = "mounted"
         /\ TreeHeardAt("unmount", TreeSize, FALSE, n) = "mounted"
         /\ TreeHeardAt("unmount", 0, FALSE, n) = "out"
  BY DEF TreeHeardAt, Tree!Nodes

\* An active tree hears nothing while the focus moves.
LEMMA TreeHeardThrough ==
  ASSUME NEW p \in {"blur", "late"}, NEW a, NEW c, NEW n
  PROVE  TreeHeardAt(p, a, c, n) = "active"
  BY DEF TreeHeardAt

\* A call that returned, or that is undone: nothing more is heard.
LEMMA TreeHeardMoves ==
  ASSUME NEW a \in Tree!Nodes, NEW n \in Tree!Nodes, TreeSize \in Nat
  PROVE  /\ TreeHeardAt("mount", a + 1, FALSE, n) = TreeHeardAt("mount", a, TRUE, n)
         /\ TreeHeardAt("unmount", a, FALSE, n) = TreeHeardAt("mount", a, TRUE, n)
         /\ TreeHeardAt("activate", a + 1, FALSE, n) = TreeHeardAt("activate", a, TRUE, n)
         /\ TreeHeardAt("deactivate", a, FALSE, n) = TreeHeardAt("activate", a, TRUE, n)
         /\ TreeHeardAt("deactivate", a - 1, FALSE, n) = TreeHeardAt("deactivate", a, TRUE, n)
         /\ TreeHeardAt("unmount", a - 1, FALSE, n) = TreeHeardAt("unmount", a, TRUE, n)
  BY DEF TreeHeardAt, Tree!Nodes

\* A call is heard by the component it is made to.
LEMMA TreeHeardCall ==
  ASSUME NEW a \in Tree!Nodes, NEW n \in Tree!Nodes, TreeSize \in Nat,
         NEW p \in {"mount", "activate", "deactivate", "unmount"}
  PROVE  /\ n # a => TreeHeardAt(p, a, TRUE, n) = TreeHeardAt(p, a, FALSE, n)
         /\ TreeHeardAt(p, a, TRUE, a) = Tree!Reached(p)
  BY DEF TreeHeardAt, Tree!Nodes, Tree!Reached

\* What the components heard.
LEMMA TreeHeardKept ==
  ASSUME TreeIInv, [Tree!Next]_(Tree!vars)
  PROVE  TreeAllHeard'
  <1> SUFFICES ASSUME NEW n \in Tree!Nodes
               PROVE  life'[n] = TreeHeard(n)'
    BY DEF TreeAllHeard
  <1>0. /\ Tree!TreeAssumption /\ TreeDoing /\ TreeSize \in Nat /\ n \in 1..TreeSize
        /\ active => mounted
    BY DEF TreeIInv, TreeDoing, TreeAllHeard, Tree!TreeAssumption, Tree!Nodes, TreeActiveTree
  <1>a. /\ Tree!Under => life[n] = TreeHeardAt(Tree!Top.pass, Tree!Top.at, Tree!Top.calling, n)
        /\ Tree!Under /\ Tree!Top.calling => life[n] = TreeHeardAt(Tree!Top.pass, Tree!Top.at, TRUE, n)
        /\ Tree!Under /\ ~Tree!Top.calling => life[n] = TreeHeardAt(Tree!Top.pass, Tree!Top.at, FALSE, n)
        /\ ~Tree!Under => life[n] = IF active THEN "active" ELSE IF mounted THEN "mounted" ELSE "out"
    <2>1. Tree!Under => Tree!Top.calling \in BOOLEAN
      BY <1>0, TreeTopIsFrame DEF TreeDoing, Tree!Frames
    <2>2. life[n] = TreeHeard(n)
      BY DEF TreeIInv, TreeAllHeard
    <2> QED
      BY <2>1, <2>2 DEF TreeHeard
  <1>1. CASE Tree!Mount

    <2>1. life'[n] = life[n] /\ life[n] = "out"
      BY <1>1, <1>0, <1>a, TreeMountOp DEF TreeDoing, TreeFlags, Tree!flags
    <2>2. TreeHeard(n)' = TreeHeardAt("mount", 1, FALSE, n)
      BY <1>1, <1>0, TreeMountOp, TreeStandsSo DEF TreeHeard
    <2> QED
      BY <1>0, <2>1, <2>2, TreeHeardAtEnds
  <1>2. CASE Tree!ActivateFocus

    <2>1. life'[n] = life[n] /\ life[n] = "mounted"
      BY <1>2, <1>0, <1>a, TreeActivateFocusOp DEF TreeDoing, TreeFlags, Tree!flags
    <2>2. TreeHeard(n)' = TreeHeardAt("activate", 1, FALSE, n)
      BY <1>2, <1>0, TreeActivateFocusOp, TreeStandsSo DEF TreeHeard
    <2> QED
      BY <1>0, <2>1, <2>2, TreeHeardAtEnds
  <1>3. CASE Tree!DeactivateFocus

    <2>1. life'[n] = life[n] /\ life[n] = "active"
      BY <1>3, <1>0, <1>a, TreeDeactivateFocusOp DEF TreeDoing, TreeFlags, Tree!flags
    <2>2. TreeHeard(n)' = TreeHeardAt("blur", TreeSize, FALSE, n)
      BY <1>3, <1>0, TreeDeactivateFocusOp, TreeStandsSo DEF TreeHeard
    <2> QED
      BY <1>0, <2>1, <2>2, TreeHeardThrough
  <1>4. CASE Tree!Unmount

    <2>1. CASE active
      <3>1. life'[n] = life[n] /\ life[n] = "active"
        BY <1>4, <1>0, <1>a, <2>1, TreeUnmountOp, TreeTopIsFrame
           DEF TreeDoing, TreeFlags, Tree!Frames, Tree!flags
      <3>2. TreeHeard(n)' = TreeHeardAt("deactivate", TreeSize, FALSE, n)
        BY <1>4, <1>0, <2>1, TreeUnmountOp, TreeStandsSo DEF TreeHeard, TreeEnded
      <3> QED
        BY <1>0, <3>1, <3>2, TreeHeardAtEnds
    <2>2. CASE ~active
      <3>1. life'[n] = life[n] /\ life[n] = "mounted"
        BY <1>4, <1>0, <1>a, <2>2, TreeUnmountOp, TreeTopIsFrame
           DEF TreeDoing, TreeFlags, Tree!Frames, Tree!flags
      <3>2. TreeHeard(n)' = TreeHeardAt("unmount", TreeSize, FALSE, n)
        BY <1>4, <1>0, <2>2, TreeUnmountOp, TreeStandsSo DEF TreeHeard, TreeEnded
      <3> QED
        BY <1>0, <3>1, <3>2, TreeHeardAtEnds
    <2> QED
      BY <1>4, <1>0, <2>1, <2>2, TreeUnmountOp
  <1>5. CASE Tree!Call

    <2>1. life \in [Tree!Nodes -> {"out", "mounted", "active"}]
      BY <1>0 DEF TreeDoing, Tree!TypeOK
    <2>2. /\ Tree!Top.pass \in {"mount", "activate", "deactivate", "unmount"}
          /\ Tree!Top.at \in Tree!Nodes
          /\ life' = [life EXCEPT ![Tree!Top.at] = Tree!Reached(Tree!Top.pass)]
          /\ life[n] = TreeHeardAt(Tree!Top.pass, Tree!Top.at, FALSE, n)
          /\ TreeHeard(n)' = TreeHeardAt(Tree!Top.pass, Tree!Top.at, TRUE, n)
      <3>1. /\ Tree!Under /\ ~Tree!Top.calling /\ Tree!Top.at \in Tree!Nodes
            /\ TreeStands(Tree!Top.op, Tree!Top.pass, Tree!Top.at, TRUE, Len(operations))
            /\ life' = [life EXCEPT ![Tree!Top.at] = Tree!Reached(Tree!Top.pass)]
            /\ Tree!Top.pass \in {"mount", "activate", "deactivate", "unmount"}
        BY <1>5, <1>0, TreeCallOp
      <3>2. /\ Tree!Under' /\ Tree!Top'.pass = Tree!Top.pass /\ Tree!Top'.at = Tree!Top.at
            /\ Tree!Top'.calling = TRUE
        BY <3>1, TreeStandsSo
      <3>3. TreeHeard(n)' = TreeHeardAt(Tree!Top.pass, Tree!Top.at, TRUE, n)
        BY <3>2 DEF TreeHeard
      <3>4. life[n] = TreeHeardAt(Tree!Top.pass, Tree!Top.at, FALSE, n)
        BY <1>a, <3>1 DEF TreeHeard
      <3> QED
        BY <3>1, <3>3, <3>4
    <2> QED
      BY <1>0, <2>1, <2>2, TreeHeardCall
  <1>6. CASE Tree!CallFocus

    <2>1. life'[n] = life[n] /\ life[n] = TreeHeardAt(Tree!Top.pass, Tree!Top.at, FALSE, n)
      BY <1>6, <1>0, <1>a, TreeCallFocusOp DEF TreeDoing, TreeFlags, Tree!flags
    <2>2. TreeHeard(n)' = TreeHeardAt(Tree!Top.pass, Tree!Top.at, TRUE, n)
      BY <1>6, <1>0, TreeCallFocusOp, TreeStandsSo DEF TreeHeard
    <2> QED
      BY <1>0, <2>1, <2>2, TreeCallFocusOp, <1>6, TreeHeardThrough
  <1>7. CASE Tree!CallReturns

    <2>1. CASE Tree!Top.pass = "mount"
      <3>1. life'[n] = life[n] /\ life[n] = TreeHeardAt("mount", Tree!Top.at, TRUE, n)
        BY <1>7, <1>0, <1>a, <2>1, TreeCallReturnsOp, TreeTopIsFrame
           DEF TreeDoing, TreeFlags, Tree!Frames, Tree!flags
      <3>2. TreeHeard(n)' = TreeHeardAt("mount", Tree!Top.at + 1, FALSE, n)
        <4> DEFINE e == Tree!Top.at + 1
        <4>1. TreeStands(Tree!Top.op, "mount", e, FALSE, Len(operations))
          BY <1>7, <1>0, <2>1, TreeCallReturnsOp
        <4> HIDE DEF e
        <4>2. TreeHeard(n)' = TreeHeardAt("mount", e, FALSE, n)
          BY <4>1, TreeStandsSo DEF TreeHeard
        <4> QED
          BY <4>2 DEF e
      <3> QED
        BY <1>0, <3>1, <3>2, <1>7, TreeCallReturnsOp, TreeHeardMoves
    <2>2. CASE Tree!Top.pass = "activate"
      <3>1. life'[n] = life[n] /\ life[n] = TreeHeardAt("activate", Tree!Top.at, TRUE, n)
        BY <1>7, <1>0, <1>a, <2>2, TreeCallReturnsOp, TreeTopIsFrame
           DEF TreeDoing, TreeFlags, Tree!Frames, Tree!flags
      <3>2. TreeHeard(n)' = TreeHeardAt("activate", Tree!Top.at + 1, FALSE, n)
        <4> DEFINE e == Tree!Top.at + 1
        <4>1. TreeStands(Tree!Top.op, "activate", e, FALSE, Len(operations))
          BY <1>7, <1>0, <2>2, TreeCallReturnsOp
        <4> HIDE DEF e
        <4>2. TreeHeard(n)' = TreeHeardAt("activate", e, FALSE, n)
          BY <4>1, TreeStandsSo DEF TreeHeard
        <4> QED
          BY <4>2 DEF e
      <3> QED
        BY <1>0, <3>1, <3>2, <1>7, TreeCallReturnsOp, TreeHeardMoves
    <2>3. CASE Tree!Top.pass = "deactivate"
      <3>1. life'[n] = life[n] /\ life[n] = TreeHeardAt("deactivate", Tree!Top.at, TRUE, n)
        BY <1>7, <1>0, <1>a, <2>3, TreeCallReturnsOp, TreeTopIsFrame
           DEF TreeDoing, TreeFlags, Tree!Frames, Tree!flags
      <3>2. TreeHeard(n)' = TreeHeardAt("deactivate", Tree!Top.at - 1, FALSE, n)
        <4> DEFINE e == Tree!Top.at - 1
        <4>1. TreeStands(Tree!Top.op, "deactivate", e, FALSE, Len(operations))
          BY <1>7, <1>0, <2>3, TreeCallReturnsOp
        <4> HIDE DEF e
        <4>2. TreeHeard(n)' = TreeHeardAt("deactivate", e, FALSE, n)
          BY <4>1, TreeStandsSo DEF TreeHeard
        <4> QED
          BY <4>2 DEF e
      <3> QED
        BY <1>0, <3>1, <3>2, <1>7, TreeCallReturnsOp, TreeHeardMoves
    <2>4. CASE Tree!Top.pass = "unmount"
      <3>1. life'[n] = life[n] /\ life[n] = TreeHeardAt("unmount", Tree!Top.at, TRUE, n)
        BY <1>7, <1>0, <1>a, <2>4, TreeCallReturnsOp, TreeTopIsFrame
           DEF TreeDoing, TreeFlags, Tree!Frames, Tree!flags
      <3>2. TreeHeard(n)' = TreeHeardAt("unmount", Tree!Top.at - 1, FALSE, n)
        <4> DEFINE e == Tree!Top.at - 1
        <4>1. TreeStands(Tree!Top.op, "unmount", e, FALSE, Len(operations))
          BY <1>7, <1>0, <2>4, TreeCallReturnsOp
        <4> HIDE DEF e
        <4>2. TreeHeard(n)' = TreeHeardAt("unmount", e, FALSE, n)
          BY <4>1, TreeStandsSo DEF TreeHeard
        <4> QED
          BY <4>2 DEF e
      <3> QED
        BY <1>0, <3>1, <3>2, <1>7, TreeCallReturnsOp, TreeHeardMoves
    <2> QED
      BY <1>7, <1>0, <2>1, <2>2, <2>3, <2>4, TreeCallReturnsOp
  <1>8. CASE Tree!ForwardThrows

    <2>1. CASE Tree!Top.pass = "mount"
      <3>1. life'[n] = life[n] /\ life[n] = TreeHeardAt("mount", Tree!Top.at, TRUE, n)
        BY <1>8, <1>0, <1>a, <2>1, TreeForwardThrowsOp, TreeTopIsFrame
           DEF TreeDoing, TreeFlags, Tree!Frames, Tree!flags
      <3>2. TreeHeard(n)' = TreeHeardAt("unmount", Tree!Top.at, FALSE, n)
        BY <1>8, <1>0, <2>1, TreeForwardThrowsOp, TreeStandsSo DEF TreeHeard, TreeEnded
      <3> QED
        BY <1>0, <3>1, <3>2, <1>8, TreeForwardThrowsOp, TreeHeardMoves
    <2>2. CASE Tree!Top.pass = "activate"
      <3>1. life'[n] = life[n] /\ life[n] = TreeHeardAt("activate", Tree!Top.at, TRUE, n)
        BY <1>8, <1>0, <1>a, <2>2, TreeForwardThrowsOp, TreeTopIsFrame
           DEF TreeDoing, TreeFlags, Tree!Frames, Tree!flags
      <3>2. TreeHeard(n)' = TreeHeardAt("deactivate", Tree!Top.at, FALSE, n)
        BY <1>8, <1>0, <2>2, TreeForwardThrowsOp, TreeStandsSo DEF TreeHeard, TreeEnded
      <3> QED
        BY <1>0, <3>1, <3>2, <1>8, TreeForwardThrowsOp, TreeHeardMoves
    <2> QED
      BY <1>8, <1>0, <2>1, <2>2, TreeForwardThrowsOp
  <1>9. CASE Tree!BackwardThrows

    <2>1. CASE Tree!Top.pass = "deactivate"
      <3>1. life'[n] = life[n] /\ life[n] = TreeHeardAt("deactivate", Tree!Top.at, TRUE, n)
        BY <1>9, <1>0, <1>a, <2>1, TreeBackwardThrowsOp, TreeTopIsFrame
           DEF TreeDoing, TreeFlags, Tree!Frames, Tree!flags
      <3>2. TreeHeard(n)' = TreeHeardAt("deactivate", Tree!Top.at - 1, FALSE, n)
        <4> DEFINE e == Tree!Top.at - 1
        <4>1. TreeStands(Tree!Top.op, "deactivate", e, FALSE, Len(operations))
          BY <1>9, <1>0, <2>1, TreeBackwardThrowsOp
        <4> HIDE DEF e
        <4>2. TreeHeard(n)' = TreeHeardAt("deactivate", e, FALSE, n)
          BY <4>1, TreeStandsSo DEF TreeHeard
        <4> QED
          BY <4>2 DEF e
      <3> QED
        BY <1>0, <3>1, <3>2, <1>9, TreeBackwardThrowsOp, TreeHeardMoves
    <2>2. CASE Tree!Top.pass = "unmount"
      <3>1. life'[n] = life[n] /\ life[n] = TreeHeardAt("unmount", Tree!Top.at, TRUE, n)
        BY <1>9, <1>0, <1>a, <2>2, TreeBackwardThrowsOp, TreeTopIsFrame
           DEF TreeDoing, TreeFlags, Tree!Frames, Tree!flags
      <3>2. TreeHeard(n)' = TreeHeardAt("unmount", Tree!Top.at - 1, FALSE, n)
        <4> DEFINE e == Tree!Top.at - 1
        <4>1. TreeStands(Tree!Top.op, "unmount", e, FALSE, Len(operations))
          BY <1>9, <1>0, <2>2, TreeBackwardThrowsOp
        <4> HIDE DEF e
        <4>2. TreeHeard(n)' = TreeHeardAt("unmount", e, FALSE, n)
          BY <4>1, TreeStandsSo DEF TreeHeard
        <4> QED
          BY <4>2 DEF e
      <3> QED
        BY <1>0, <3>1, <3>2, <1>9, TreeBackwardThrowsOp, TreeHeardMoves
    <2> QED
      BY <1>9, <1>0, <2>1, <2>2, TreeBackwardThrowsOp
  <1>10. CASE Tree!MountEnds

    <2>1. CASE TreeEnded /\ Tree!Top.pass = "mount"
      <3>1. life'[n] = life[n] /\ life[n] = TreeHeardAt("mount", TreeSize + 1, FALSE, n)
        BY <1>10, <1>0, <1>a, <2>1, TreeMountEndsOp, TreeTopIsFrame
           DEF TreeDoing, TreeFlags, Tree!Frames, Tree!flags
      <3>2. TreeHeard(n)' = "mounted"
        <4>1. TreeEnded /\ mounted' /\ active' = active /\ ~active
          BY <1>10, <1>0, <2>1, TreeMountEndsOp, TreeStandsSo DEF TreeDoing, TreeFlags, TreeEnded
        <4> QED
          BY <4>1 DEF TreeHeard, TreeEnded
      <3> QED
        BY <1>0, <3>1, <3>2, TreeHeardAtEnds
    <2>2. CASE TreeEnded /\ Tree!Top.pass = "unmount"
      <3>1. life'[n] = life[n] /\ life[n] = TreeHeardAt("unmount", 0, FALSE, n)
        BY <1>10, <1>0, <1>a, <2>2, TreeMountEndsOp, TreeTopIsFrame
           DEF TreeDoing, TreeFlags, Tree!Frames, Tree!flags
      <3>2. TreeHeard(n)' = "out"
        <4>1. TreeEnded /\ ~active' /\ ~mounted'
          BY <1>10, <1>0, <2>2, TreeMountEndsOp DEF TreeDoing, TreeFlags
        <4> QED
          BY <4>1 DEF TreeHeard, TreeEnded
      <3> QED
        BY <1>0, <3>1, <3>2, TreeHeardAtEnds
    <2>3. CASE ~TreeEnded
      <3>1. life'[n] = life[n] /\ life[n] = TreeHeardAt("mount", TreeSize + 1, FALSE, n)
        BY <1>10, <1>0, <1>a, <2>3, TreeMountEndsOp, TreeTopIsFrame
           DEF TreeDoing, TreeFlags, Tree!Frames, Tree!flags
      <3>2. TreeHeard(n)' = TreeHeardAt("unmount", TreeSize, FALSE, n)
        BY <1>10, <1>0, <2>3, TreeMountEndsOp, TreeStandsSo DEF TreeHeard, TreeEnded
      <3> QED
        BY <1>0, <3>1, <3>2, TreeHeardAtEnds
    <2> QED
      BY <1>10, <1>0, <2>1, <2>2, <2>3, TreeMountEndsOp
  <1>11. CASE Tree!ActivationEnds

    <2>1. CASE Tree!Top.pass = "activate"
      <3>1. life'[n] = life[n] /\ life[n] = TreeHeardAt("activate", TreeSize + 1, FALSE, n)
        BY <1>11, <1>0, <1>a, <2>1, TreeActivationEndsOp, TreeTopIsFrame
           DEF TreeDoing, TreeFlags, Tree!Frames, Tree!flags
      <3>2. TreeHeard(n)' = TreeHeardAt("late", TreeSize, FALSE, n)
        BY <1>11, <1>0, <2>1, TreeActivationEndsOp, TreeStandsSo DEF TreeHeard, TreeEnded
      <3> QED
        BY <1>0, <3>1, <3>2, TreeHeardAtEnds, TreeHeardThrough
    <2>2. CASE Tree!Top.pass = "deactivate"
      <3>1. life'[n] = life[n] /\ life[n] = TreeHeardAt("deactivate", 0, FALSE, n)
        BY <1>11, <1>0, <1>a, <2>2, TreeActivationEndsOp, TreeTopIsFrame
           DEF TreeDoing, TreeFlags, Tree!Frames, Tree!flags
      <3>2. TreeHeard(n)' = "mounted"
        BY <1>11, <1>0, <2>2, TreeActivationEndsOp, TreeStandsSo, TreeTopIsFrame
           DEF TreeHeard, TreeEnded, TreeDoing, TreeFlags, Tree!Frames, Tree!flags
      <3> QED
        BY <1>0, <3>1, <3>2, TreeHeardAtEnds
    <2> QED
      BY <1>11, <1>0, <2>1, <2>2, TreeActivationEndsOp
  <1>12. CASE Tree!LateEnds

    <2>1. CASE TreeEnded
      <3>1. life'[n] = life[n] /\ life[n] = TreeHeardAt("late", Tree!Top.at, TRUE, n)
        BY <1>12, <1>0, <1>a, <2>1, TreeLateEndsOp, TreeTopIsFrame
           DEF TreeDoing, TreeFlags, Tree!Frames, Tree!flags
      <3>2. TreeHeard(n)' = "active"
        BY <1>12, <1>0, <2>1, TreeLateEndsOp, TreeStandsSo, TreeTopIsFrame
           DEF TreeHeard, TreeEnded, TreeDoing, TreeFlags, Tree!Frames, Tree!flags
      <3> QED
        BY <1>0, <3>1, <3>2, TreeHeardThrough
    <2>2. CASE ~TreeEnded
      <3>1. life'[n] = life[n] /\ life[n] = TreeHeardAt("late", Tree!Top.at, TRUE, n)
        BY <1>12, <1>0, <1>a, <2>2, TreeLateEndsOp, TreeTopIsFrame
           DEF TreeDoing, TreeFlags, Tree!Frames, Tree!flags
      <3>2. TreeHeard(n)' = TreeHeardAt("blur", TreeSize, FALSE, n)
        BY <1>12, <1>0, <2>2, TreeLateEndsOp, TreeStandsSo DEF TreeHeard, TreeEnded
      <3> QED
        BY <1>0, <3>1, <3>2, TreeHeardThrough
    <2> QED
      BY <1>12, <1>0, <2>1, <2>2, TreeLateEndsOp
  <1>13. CASE Tree!BlurEnds

    <2>1. life'[n] = life[n] /\ life[n] = TreeHeardAt("blur", Tree!Top.at, Tree!Top.calling, n)
      BY <1>13, <1>0, <1>a, TreeBlurEndsOp DEF TreeDoing, TreeFlags, Tree!flags
    <2>2. TreeHeard(n)' = TreeHeardAt("deactivate", TreeSize, FALSE, n)
      BY <1>13, <1>0, TreeBlurEndsOp, TreeStandsSo DEF TreeHeard
    <2>3. TreeHeardAt("blur", Tree!Top.at, Tree!Top.calling, n) = "active"
      BY TreeHeardThrough
    <2> QED
      BY <1>0, <2>1, <2>2, <2>3, TreeHeardAtEnds
  <1>14. CASE Tree!DeactivationEnds

    <2>1. life'[n] = life[n] /\ life[n] = TreeHeardAt("deactivate", 0, FALSE, n)
      BY <1>14, <1>0, <1>a, TreeDeactivationEndsOp DEF TreeDoing, TreeFlags, Tree!flags
    <2>2. TreeHeard(n)' = "mounted"
      BY <1>14, <1>0, TreeDeactivationEndsOp, TreeStandsSo
         DEF TreeHeard, TreeEnded, TreeDoing, TreeFlags
    <2> QED
      BY <1>0, <2>1, <2>2, TreeHeardAtEnds
  <1>15. CASE Tree!UnmountEnds

    <2>1. CASE Tree!Top.pass = "deactivate"
      <3>1. life'[n] = life[n] /\ life[n] = TreeHeardAt("deactivate", 0, FALSE, n)
        BY <1>15, <1>0, <1>a, <2>1, TreeUnmountEndsOp, TreeTopIsFrame
           DEF TreeDoing, TreeFlags, Tree!Frames, Tree!flags
      <3>2. TreeHeard(n)' = TreeHeardAt("unmount", TreeSize, FALSE, n)
        BY <1>15, <1>0, <2>1, TreeUnmountEndsOp, TreeStandsSo DEF TreeHeard, TreeEnded
      <3> QED
        BY <1>0, <3>1, <3>2, TreeHeardAtEnds
    <2>2. CASE Tree!Top.pass = "unmount"
      <3>1. life'[n] = life[n] /\ life[n] = TreeHeardAt("unmount", 0, FALSE, n)
        BY <1>15, <1>0, <1>a, <2>2, TreeUnmountEndsOp, TreeTopIsFrame
           DEF TreeDoing, TreeFlags, Tree!Frames, Tree!flags
      <3>2. TreeHeard(n)' = "out"
        <4>1. TreeEnded /\ active' = active /\ ~mounted' /\ ~active
          BY <1>15, <1>0, <2>2, TreeUnmountEndsOp DEF TreeDoing, TreeFlags
        <4> QED
          BY <4>1 DEF TreeHeard, TreeEnded
      <3> QED
        BY <1>0, <3>1, <3>2, TreeHeardAtEnds
    <2> QED
      BY <1>15, <1>0, <2>1, <2>2, TreeUnmountEndsOp
  <1>16. CASE UNCHANGED Tree!vars
    BY <1>16, <1>0, <1>a DEF Tree!vars, Tree!flags, Tree!reach, TreeHeard, Tree!Under, Tree!Top
  <1> QED
    BY <1>1, <1>2, <1>3, <1>4, <1>5, <1>6, <1>7, <1>8, <1>9, <1>10, <1>11, <1>12, <1>13, <1>14,
       <1>15, <1>16
       DEF Tree!Next, Tree!Operations, Tree!Steps

\* Generations, for one component.
TreeBygone(n) ==
    /\ life[n] = "out" => n \notin live
    /\ life[n] = "out" /\ lifetime # 0 => held[n] # lifetime
    /\ lifetime \notin stale[n]

\* The generation ends with the pass that unmounts.
LEMMA TreeEndsFirst ==
  ASSUME TreeIInv, [Tree!Next]_(Tree!vars)
  PROVE  (Tree!Under /\ Tree!Top.pass = "unmount" => lifetime = 0)'
  <1>0. /\ Tree!TreeAssumption /\ TreeDoing
        /\ (Tree!Under /\ Tree!Top.pass = "unmount" => lifetime = 0)
    BY DEF TreeIInv, TreeDoing, TreeGenerations
  <1>1. CASE Tree!Mount

    <2>1. Tree!Under' /\ Tree!Top'.pass = "mount"
      BY <1>1, <1>0, TreeMountOp, TreeStandsSo
    <2> QED
      BY <2>1
  <1>2. CASE Tree!ActivateFocus

    <2>1. Tree!Under' /\ Tree!Top'.pass = "activate"
      BY <1>2, <1>0, TreeActivateFocusOp, TreeStandsSo
    <2> QED
      BY <2>1
  <1>3. CASE Tree!DeactivateFocus

    <2>1. Tree!Under' /\ Tree!Top'.pass = "blur"
      BY <1>3, <1>0, TreeDeactivateFocusOp, TreeStandsSo
    <2> QED
      BY <2>1
  <1>4. CASE Tree!Unmount

    <2>1. \/ Tree!Under' /\ Tree!Top'.pass = "deactivate"
          \/ Tree!RetireAll
      BY <1>4, <1>0, TreeUnmountOp, TreeStandsSo
    <2> QED
      BY <2>1 DEF Tree!RetireAll, Tree!RetireGeneration
  <1>5. CASE Tree!Call
    BY <1>5, TreeCallOp, <1>0, TreeStandsSo
       DEF Tree!reach, TreeEnded, Tree!RetireAll, Tree!RetireGeneration
  <1>6. CASE Tree!CallFocus
    BY <1>6, TreeCallFocusOp, <1>0, TreeStandsSo
       DEF Tree!reach, TreeEnded, Tree!RetireAll, Tree!RetireGeneration
  <1>7. CASE Tree!CallReturns

    <2>1. Tree!Under /\ Tree!Under' /\ Tree!Top'.pass = Tree!Top.pass /\ UNCHANGED Tree!reach
      BY <1>7, <1>0, TreeCallReturnsOp, TreeStandsSo
    <2> QED
      BY <1>0, <2>1 DEF Tree!reach
  <1>8. CASE Tree!ForwardThrows

    <2>1. \/ Tree!Under' /\ Tree!Top'.pass = "deactivate"
          \/ Tree!RetireGeneration
      BY <1>8, <1>0, TreeForwardThrowsOp, TreeStandsSo
    <2> QED
      BY <2>1 DEF Tree!RetireGeneration
  <1>9. CASE Tree!BackwardThrows
    BY <1>9, TreeBackwardThrowsOp, <1>0, TreeStandsSo
       DEF Tree!reach, TreeEnded, Tree!RetireAll, Tree!RetireGeneration
  <1>10. CASE Tree!MountEnds
    BY <1>10, TreeMountEndsOp, <1>0, TreeStandsSo
       DEF Tree!reach, TreeEnded, Tree!RetireAll, Tree!RetireGeneration
  <1>11. CASE Tree!ActivationEnds
    BY <1>11, TreeActivationEndsOp, <1>0, TreeStandsSo
       DEF Tree!reach, TreeEnded, Tree!RetireAll, Tree!RetireGeneration
  <1>12. CASE Tree!LateEnds
    BY <1>12, TreeLateEndsOp, <1>0, TreeStandsSo
       DEF Tree!reach, TreeEnded, Tree!RetireAll, Tree!RetireGeneration
  <1>13. CASE Tree!BlurEnds
    BY <1>13, TreeBlurEndsOp, <1>0, TreeStandsSo
       DEF Tree!reach, TreeEnded, Tree!RetireAll, Tree!RetireGeneration
  <1>14. CASE Tree!DeactivationEnds
    BY <1>14, TreeDeactivationEndsOp, <1>0, TreeStandsSo
       DEF Tree!reach, TreeEnded, Tree!RetireAll, Tree!RetireGeneration
  <1>15. CASE Tree!UnmountEnds
    BY <1>15, TreeUnmountEndsOp, <1>0, TreeStandsSo
       DEF Tree!reach, TreeEnded, Tree!RetireAll, Tree!RetireGeneration
  <1>16. CASE UNCHANGED Tree!vars
    BY <1>16, <1>0, TreeStandsSo
       DEF Tree!vars, Tree!flags, Tree!reach, TreeEnded, Tree!RetireAll, Tree!RetireGeneration,
           Tree!Under, Tree!Top
  <1> QED
    BY <1>1, <1>2, <1>3, <1>4, <1>5, <1>6, <1>7, <1>8, <1>9, <1>10, <1>11, <1>12, <1>13, <1>14,
       <1>15, <1>16
       DEF Tree!Next, Tree!Operations, Tree!Steps

\* No callback of a generation before, and none of what is out.
LEMMA TreeBygoneKept ==
  ASSUME TreeIInv, [Tree!Next]_(Tree!vars), NEW n \in Tree!Nodes
  PROVE  TreeBygone(n)'
  <1>0. /\ Tree!TreeAssumption /\ TreeDoing /\ TreeBygone(n) /\ TreeMade
        /\ Tree!Under /\ Tree!Top.pass = "unmount" => lifetime = 0
    BY DEF TreeIInv, TreeDoing, TreeGenerations, TreeBygone, TreeMade, Tree!TypeOK
  <1>a. held[n] \in Nat /\ made \in Nat /\ held[n] <= made /\ stale[n] \subseteq 1..made
    BY <1>0 DEF TreeMade
  <1>1. CASE Tree!Mount
    BY <1>1, TreeMountOp, <1>0 DEF TreeBygone, Tree!reach
  <1>2. CASE Tree!ActivateFocus
    BY <1>2, TreeActivateFocusOp, <1>0 DEF TreeBygone, Tree!reach
  <1>3. CASE Tree!DeactivateFocus
    BY <1>3, TreeDeactivateFocusOp, <1>0 DEF TreeBygone, Tree!reach
  <1>4. CASE Tree!Unmount

    <2>1. \/ life' = life /\ UNCHANGED Tree!reach
          \/ /\ life' = life /\ held' = held /\ stale' = stale
             /\ lifetime' = 0 /\ live' \subseteq live
      BY <1>4, <1>0, TreeUnmountOp DEF Tree!RetireAll, Tree!RetireGeneration
    <2> QED
      BY <1>0, <1>a, <2>1 DEF TreeBygone, Tree!reach
  <1>5. CASE Tree!Call

    <2>1. /\ life \in [Tree!Nodes -> {"out", "mounted", "active"}] /\ Tree!Top.at \in Tree!Nodes
          /\ Tree!Top.pass \in {"mount", "activate", "deactivate", "unmount"}
          /\ life' = [life EXCEPT ![Tree!Top.at] = Tree!Reached(Tree!Top.pass)]
      BY <1>5, <1>0, TreeCallOp DEF TreeDoing, Tree!TypeOK
    <2>2. CASE Tree!Top.pass = "mount"
      <3> DEFINE m == Tree!Top.at
      <3>1. m \in Tree!Nodes /\ TreeRenewed(m) /\ life' = [life EXCEPT ![m] = "mounted"]
        BY <1>5, <1>0, <2>1, <2>2, TreeCallOp DEF Tree!Reached
      <3>2. m = n => life[n] = "out"
        <4>1. Tree!Under /\ ~Tree!Top.calling /\ Tree!Top.calling \in BOOLEAN
          BY <1>5, <1>0, TreeCallOp, TreeTopIsFrame DEF Tree!Frames, TreeDoing
        <4>2. m = n => life[n] = TreeHeardAt("mount", n, FALSE, n)
          BY <2>2, <4>1 DEF TreeIInv, TreeAllHeard, TreeHeard
        <4> QED
          BY <4>2 DEF TreeHeardAt, Tree!Nodes
      <3> HIDE DEF m
      <3>3. lifetime \in Nat /\ lifetime' # 0 /\ (lifetime' = lifetime \/ lifetime' = made + 1)
            /\ (lifetime # 0 => lifetime' = lifetime)
        BY <1>0, <1>a, <3>1 DEF TreeMade, TreeRenewed
      <3>4. CASE n = m
        <4>1. life'[n] # "out" /\ stale'[n] = stale[n] \cup ({held[n]} \ {0})
          BY <1>0, <2>1, <3>1, <3>4 DEF TreeMade, TreeRenewed
        <4>2. lifetime' \notin stale[n] /\ lifetime' # held[n]
          BY <1>0, <1>a, <3>2, <3>3, <3>4 DEF TreeBygone
        <4> QED
          BY <4>1, <4>2 DEF TreeBygone
      <3>5. CASE n # m
        <4>1. /\ life'[n] = life[n] /\ stale'[n] = stale[n] /\ held'[n] = held[n]
              /\ live' = live \cup {m}
          BY <1>0, <2>1, <3>1, <3>5 DEF TreeMade, TreeRenewed
        <4>2. lifetime' \notin stale[n] /\ (life[n] = "out" => lifetime' # held[n])
          BY <1>0, <1>a, <3>3 DEF TreeBygone
        <4> QED
          BY <1>0, <3>5, <4>1, <4>2 DEF TreeBygone
      <3> QED
        BY <3>4, <3>5
    <2>3. CASE Tree!Top.pass = "unmount"
      <3>1. /\ live' = live \ {Tree!Top.at} /\ lifetime = 0 /\ lifetime' = 0 /\ stale' = stale
            /\ n # Tree!Top.at => life'[n] = life[n]
        BY <1>5, <1>0, <2>1, <2>3, TreeCallOp
      <3> QED
        BY <1>0, <1>a, <3>1 DEF TreeBygone
    <2>4. CASE Tree!Top.pass \in {"activate", "deactivate"}
      <3>1. /\ UNCHANGED <<live, lifetime, stale, held>>
            /\ life'[n] = life[n] \/ life'[n] # "out"
        BY <1>5, <1>0, <2>1, <2>4, TreeCallOp DEF Tree!Reached, Tree!reach
      <3> QED
        BY <1>0, <3>1 DEF TreeBygone
    <2> QED
      BY <2>1, <2>2, <2>3, <2>4
  <1>6. CASE Tree!CallFocus
    BY <1>6, TreeCallFocusOp, <1>0 DEF TreeBygone, Tree!reach
  <1>7. CASE Tree!CallReturns
    BY <1>7, TreeCallReturnsOp, <1>0 DEF TreeBygone, Tree!reach
  <1>8. CASE Tree!ForwardThrows

    <2>1. \/ life' = life /\ UNCHANGED Tree!reach
          \/ /\ life' = life /\ held' = held /\ stale' = stale
             /\ lifetime' = 0 /\ live' \subseteq live
      BY <1>8, <1>0, TreeForwardThrowsOp DEF Tree!RetireAll, Tree!RetireGeneration
    <2> QED
      BY <1>0, <1>a, <2>1 DEF TreeBygone, Tree!reach
  <1>9. CASE Tree!BackwardThrows
    BY <1>9, TreeBackwardThrowsOp, <1>0 DEF TreeBygone, Tree!reach
  <1>10. CASE Tree!MountEnds

    <2>1. \/ life' = life /\ UNCHANGED Tree!reach
          \/ /\ life' = life /\ held' = held /\ stale' = stale
             /\ lifetime' = 0 /\ live' \subseteq live
      BY <1>10, <1>0, TreeMountEndsOp DEF Tree!RetireAll, Tree!RetireGeneration
    <2> QED
      BY <1>0, <1>a, <2>1 DEF TreeBygone, Tree!reach
  <1>11. CASE Tree!ActivationEnds
    BY <1>11, TreeActivationEndsOp, <1>0 DEF TreeBygone, Tree!reach
  <1>12. CASE Tree!LateEnds
    BY <1>12, TreeLateEndsOp, <1>0 DEF TreeBygone, Tree!reach
  <1>13. CASE Tree!BlurEnds
    BY <1>13, TreeBlurEndsOp, <1>0 DEF TreeBygone, Tree!reach
  <1>14. CASE Tree!DeactivationEnds
    BY <1>14, TreeDeactivationEndsOp, <1>0 DEF TreeBygone, Tree!reach
  <1>15. CASE Tree!UnmountEnds

    <2>1. \/ life' = life /\ UNCHANGED Tree!reach
          \/ /\ life' = life /\ held' = held /\ stale' = stale
             /\ lifetime' = 0 /\ live' \subseteq live
      BY <1>15, <1>0, TreeUnmountEndsOp DEF Tree!RetireAll, Tree!RetireGeneration
    <2> QED
      BY <1>0, <1>a, <2>1 DEF TreeBygone, Tree!reach
  <1>16. CASE UNCHANGED Tree!vars
    BY <1>16, <1>0 DEF Tree!vars, Tree!flags, Tree!reach, TreeBygone
  <1> QED
    BY <1>1, <1>2, <1>3, <1>4, <1>5, <1>6, <1>7, <1>8, <1>9, <1>10, <1>11, <1>12, <1>13, <1>14,
       <1>15, <1>16
       DEF Tree!Next, Tree!Operations, Tree!Steps
-----------------------------------------------------------------------------
(***************************************************************************)
(* The inductive invariant and what follows from it.                        *)
(***************************************************************************)
\* It holds at first.
LEMMA TreeStarts == ASSUME Tree!TreeAssumption, Tree!Init PROVE TreeIInv
  <1>1. operations = <<>> /\ transition = "None" /\ ~mounted /\ ~active
        /\ lifetime = 0 /\ made = 0 /\ life = [n \in Tree!Nodes |-> "out"] /\ live = {}
        /\ held = [n \in Tree!Nodes |-> 0] /\ stale = [n \in Tree!Nodes |-> {}]
    BY DEF Tree!Init
  <1>2. Tree!TypeOK
    <2>1. life \in [Tree!Nodes -> {"out", "mounted", "active"}] /\ live \subseteq Tree!Nodes
      BY <1>1
    <2>2. made \in Nat /\ lifetime \in 0..made
      BY <1>1
    <2>3. held \in [Tree!Nodes -> 0..made] /\ stale \in [Tree!Nodes -> SUBSET (1..made)]
      BY <1>1
    <2>4. mounts \in 0..TreeMounts
      BY DEF Tree!Init, Tree!TreeAssumption
    <2>5. /\ mounted \in BOOLEAN /\ active \in BOOLEAN /\ dispatcher \in BOOLEAN
          /\ transition \in Tree!Transitions
      BY DEF Tree!Init, Tree!Transitions
    <2>6. \A i \in DOMAIN operations : operations[i] \in Tree!Frames
      BY <1>1
    <2> QED
      BY <2>1, <2>2, <2>3, <2>4, <2>5, <2>6 DEF Tree!TypeOK
  <1>3. TreeShape
    BY <1>1 DEF TreeShape, Tree!Under
  <1>4. TreeFlags /\ TreeRange /\ TreeActiveTree
    BY <1>1 DEF TreeFlags, TreeRange, TreeActiveTree, Tree!Under
  <1>5. TreeAllHeard
    BY <1>1 DEF TreeAllHeard, TreeHeard, Tree!Under
  <1>6. TreeGenerations
    BY <1>1 DEF TreeGenerations, Tree!Under
  <1> QED
    BY <1>2, <1>3, <1>4, <1>5, <1>6 DEF TreeIInv

\* Every step keeps it.
LEMMA TreeKeeps == TreeIInv /\ [Tree!Next]_(Tree!vars) => TreeIInv'
  <1> SUFFICES ASSUME TreeIInv, [Tree!Next]_(Tree!vars) PROVE TreeIInv'
    OBVIOUS
  <1>1. Tree!TypeOK'
    BY TreeShapeKept, TreeKnownKept, TreeMadeKept DEF Tree!TypeOK, TreeKnown, TreeMade, TreeShape
  <1>2. TreeGenerations'
    <2>1. \A n \in Tree!Nodes : TreeBygone(n)'
      BY TreeBygoneKept
    <2> QED
      BY <2>1, TreeEndsFirst DEF TreeGenerations, TreeBygone
  <1>3. Tree!TreeAssumption'
    BY DEF TreeIInv, Tree!TreeAssumption
  <1> QED
    BY <1>1, <1>2, <1>3, TreeShapeKept, TreeFlagsKept, TreeRangeKept, TreeHeardKept,
       TreeActiveTreeKept DEF TreeIInv

LEMMA TreeAlways == ASSUME Tree!TreeAssumption PROVE Tree!Spec => []TreeIInv
  <1>1. Tree!Init => TreeIInv
    BY TreeStarts
  <1> QED
    BY <1>1, TreeKeeps, PTL DEF Tree!Spec

\* Every variable keeps its type.
THEOREM TreeTyped == ASSUME Tree!TreeAssumption PROVE Tree!Spec => []Tree!TypeOK
  <1>1. TreeIInv => Tree!TypeOK
    BY DEF TreeIInv
  <1> QED
    BY <1>1, TreeAlways, PTL

\* When no operation is under way, every component is where the flags of the
\* tree say, whatever threw in the operations before.
THEOREM FlagsAlwaysTellTheTruth ==
  ASSUME Tree!TreeAssumption PROVE Tree!Spec => []Tree!FlagsTellTheTruth
  <1>1. TreeIInv => Tree!FlagsTellTheTruth
    BY DEF TreeIInv, TreeAllHeard, TreeHeard, Tree!FlagsTellTheTruth
  <1> QED
    BY <1>1, TreeAlways, PTL

\* An active component can use the Dispatcher, also while others are activated
\* or deactivated around it.
THEOREM AlwaysDispatcherWhileActive ==
  ASSUME Tree!TreeAssumption PROVE Tree!Spec => []Tree!DispatcherWhileActive
  <1>1. TreeIInv => Tree!DispatcherWhileActive
    <2> SUFFICES ASSUME TreeIInv, NEW n \in Tree!Nodes, life[n] = "active" PROVE dispatcher
      BY DEF Tree!DispatcherWhileActive
    <2>1. active => dispatcher
      BY DEF TreeIInv, TreeActiveTree
    <2>2. Tree!Under => Tree!Top \in Tree!Frames
      BY TreeTopIsFrame DEF TreeIInv
    <2>3. CASE ~Tree!Under
      BY <2>1, <2>3 DEF TreeIInv, TreeAllHeard, TreeHeard
    <2>4. CASE Tree!Under
      <3>1. TreeHeardAt(Tree!Top.pass, Tree!Top.at, Tree!Top.calling, n) = "active"
        BY <2>4 DEF TreeIInv, TreeAllHeard, TreeHeard
      <3>2. Tree!Top.pass # "mount" /\ Tree!Top.pass # "unmount"
        BY <3>1 DEF TreeHeardAt
      <3>3. active
        BY <2>2, <2>4, <3>2 DEF TreeIInv, TreeFlags, Tree!Frames, Tree!Transitions
      <3> QED
        BY <2>1, <3>3
    <2> QED
      BY <2>3, <2>4
  <1> QED
    BY <1>1, TreeAlways, PTL

\* No retained callback of a component that is out, or of an earlier mount of
\* it, acts on the tree.
THEOREM CallbacksAlwaysDie == ASSUME Tree!TreeAssumption PROVE Tree!Spec => []Tree!DeadCallbacks
  <1>1. TreeIInv => Tree!DeadCallbacks
    BY DEF TreeIInv, TreeGenerations, Tree!DeadCallbacks, Tree!Acts
  <1> QED
    BY <1>1, TreeAlways, PTL

\* The calls of a pass are the contract's: each step of the tree is a call that
\* the component called is ready for, or none.
LEMMA TreeCallsInOrder ==
  ASSUME TreeIInv, [Tree!Next]_(Tree!vars)
  PROVE  [Tree!Contract!Next]_life
  <1>0. Tree!TreeAssumption /\ TreeDoing
    BY DEF TreeIInv, TreeDoing
  <1>1. CASE Tree!Mount
    BY <1>1, TreeMountOp, <1>0
  <1>2. CASE Tree!ActivateFocus
    BY <1>2, TreeActivateFocusOp, <1>0
  <1>3. CASE Tree!DeactivateFocus
    BY <1>3, TreeDeactivateFocusOp, <1>0
  <1>4. CASE Tree!Unmount
    BY <1>4, TreeUnmountOp, <1>0
  <1>5. CASE Tree!Call

    <2> DEFINE n == Tree!Top.at
    <2>1. /\ Tree!Under /\ ~Tree!Top.calling /\ n \in Tree!Nodes
          /\ Tree!Top.pass \in {"mount", "activate", "deactivate", "unmount"}
          /\ life' = [life EXCEPT ![n] = Tree!Reached(Tree!Top.pass)]
      BY <1>5, <1>0, TreeCallOp
    <2>2. life[n] = TreeHeardAt(Tree!Top.pass, n, FALSE, n)
      <3>1. Tree!Top.calling = FALSE
        BY <1>0, <2>1, TreeTopIsFrame DEF Tree!Frames, TreeDoing
      <3>2. life[n] = TreeHeard(n)
        BY <2>1 DEF TreeIInv, TreeAllHeard
      <3> QED
        BY <2>1, <3>1, <3>2 DEF TreeHeard
    <2> HIDE DEF n
    <2>3. CASE Tree!Top.pass = "mount"
      <3>1. life[n] = "out"
        BY <2>1, <2>2, <2>3 DEF TreeHeardAt, Tree!Nodes
      <3>2. life' = [life EXCEPT ![n] = "mounted"]
        BY <2>1, <2>3 DEF Tree!Reached
      <3> QED
        BY <2>1, <3>1, <3>2 DEF Tree!Contract!Next, Tree!Contract!Mount, Tree!Contract!Call
    <2>4. CASE Tree!Top.pass = "activate"
      <3>1. life[n] = "mounted"
        BY <2>1, <2>2, <2>4 DEF TreeHeardAt, Tree!Nodes
      <3>2. life' = [life EXCEPT ![n] = "active"]
        BY <2>1, <2>4 DEF Tree!Reached
      <3> QED
        BY <2>1, <3>1, <3>2 DEF Tree!Contract!Next, Tree!Contract!Activate, Tree!Contract!Call
    <2>5. CASE Tree!Top.pass = "deactivate"
      <3>1. life[n] = "active"
        BY <2>1, <2>2, <2>5 DEF TreeHeardAt, Tree!Nodes
      <3>2. life' = [life EXCEPT ![n] = "mounted"]
        BY <2>1, <2>5 DEF Tree!Reached
      <3> QED
        BY <2>1, <3>1, <3>2 DEF Tree!Contract!Next, Tree!Contract!Deactivate, Tree!Contract!Call
    <2>6. CASE Tree!Top.pass = "unmount"
      <3>1. life[n] = "mounted"
        BY <2>1, <2>2, <2>6 DEF TreeHeardAt, Tree!Nodes
      <3>2. life' = [life EXCEPT ![n] = "out"]
        BY <2>1, <2>6 DEF Tree!Reached
      <3> QED
        BY <2>1, <3>1, <3>2 DEF Tree!Contract!Next, Tree!Contract!Unmount, Tree!Contract!Call
    <2> QED
      BY <2>1, <2>3, <2>4, <2>5, <2>6
  <1>6. CASE Tree!CallFocus
    BY <1>6, TreeCallFocusOp, <1>0
  <1>7. CASE Tree!CallReturns
    BY <1>7, TreeCallReturnsOp, <1>0
  <1>8. CASE Tree!ForwardThrows
    BY <1>8, TreeForwardThrowsOp, <1>0
  <1>9. CASE Tree!BackwardThrows
    BY <1>9, TreeBackwardThrowsOp, <1>0
  <1>10. CASE Tree!MountEnds
    BY <1>10, TreeMountEndsOp, <1>0
  <1>11. CASE Tree!ActivationEnds
    BY <1>11, TreeActivationEndsOp, <1>0
  <1>12. CASE Tree!LateEnds
    BY <1>12, TreeLateEndsOp, <1>0
  <1>13. CASE Tree!BlurEnds
    BY <1>13, TreeBlurEndsOp, <1>0
  <1>14. CASE Tree!DeactivationEnds
    BY <1>14, TreeDeactivationEndsOp, <1>0
  <1>15. CASE Tree!UnmountEnds
    BY <1>15, TreeUnmountEndsOp, <1>0
  <1>16. CASE UNCHANGED Tree!vars
    BY <1>16, <1>0 DEF Tree!vars, Tree!flags, Tree!reach
  <1> QED
    BY <1>1, <1>2, <1>3, <1>4, <1>5, <1>6, <1>7, <1>8, <1>9, <1>10, <1>11, <1>12, <1>13, <1>14,
       <1>15, <1>16
       DEF Tree!Next, Tree!Operations, Tree!Steps

\* Every component hears its calls in the order it relies on, whatever throws.
THEOREM TreeImplementsLifecycle ==
  ASSUME Tree!TreeAssumption PROVE Tree!Spec => Tree!ImplementsLifecycle
  <1>1. Tree!Init => Tree!Contract!Init
    BY DEF Tree!Init, Tree!Contract!Init
  <1>2. TreeIInv /\ [Tree!Next]_(Tree!vars) => [Tree!Contract!Next]_life
    BY TreeCallsInOrder
  <1> QED
    BY <1>1, <1>2, TreeAlways, PTL DEF Tree!Spec, Tree!ImplementsLifecycle, Tree!Contract!Spec

\* Seen from the tree, every behaviour is one of TreeLifecycle.
LEMMA TreeBehaves == Spec => Tree!Spec
  <1>1. Init => Tree!Init
    BY DEF Init
  <1>2. [Next]_vars => [Tree!Next]_(Tree!vars)
    <2> SUFFICES ASSUME [Next]_vars PROVE [Tree!Next]_(Tree!vars)
      OBVIOUS
    <2>1. CASE OfTree /\ Tree!Next
      BY <2>1
    <2>2. CASE UNCHANGED treeVars
      BY <2>2 DEF treeVars, Tree!vars, Tree!flags, Tree!reach
    <2> QED
      BY <2>1, <2>2 DEF Next, OfWindow, OfEdit, OfDynamic, OfHover, OfToast, OfDialog, vars
  <1> QED
    BY <1>1, <1>2, PTL DEF Spec, Tree!Spec

\* An operation that failed has left none of its calls behind, a component has the
\* Dispatcher as long as it is active, and retained callbacks of components that
\* were torn down do nothing.
THEOREM LifecycleIsAlwaysSound == Spec => []LifecycleIsSound
  <1>1. Tree!TreeAssumption
    BY ConstantsAsAssumed
  <1>2. Tree!FlagsTellTheTruth /\ Tree!DispatcherWhileActive /\ Tree!DeadCallbacks
           => LifecycleIsSound
    BY DEF LifecycleIsSound
  <1> QED
    BY <1>1, <1>2, TreeBehaves, FlagsAlwaysTellTheTruth, AlwaysDispatcherWhileActive,
       CallbacksAlwaysDie, PTL
-----------------------------------------------------------------------------
(***************************************************************************)
(* The window.                                                              *)
(***************************************************************************)
\* Seen from the window, every behaviour is one of WindowClose.
LEMMA WindowBehaves == Spec => Window!Spec
  <1>1. Init => Window!Init
    BY DEF Init
  <1>2. [Next]_vars => [Window!Next]_(Window!vars)
    <2> SUFFICES ASSUME [Next]_vars PROVE [Window!Next]_(Window!vars)
      OBVIOUS
    <2>1. CASE OfWindow /\ Window!Next
      BY <2>1
    <2>2. CASE UNCHANGED windowVars
      BY <2>2 DEF windowVars, Window!vars, Window!posts, Window!ghosts
    <2> QED
      BY <2>1, <2>2 DEF Next, OfTree, OfEdit, OfDynamic, OfHover, OfToast, OfDialog, vars
  <1> QED
    BY <1>1, <1>2, PTL DEF Spec, Window!Spec

\* A posted close step has its task in the Dispatcher, the close completes after the
\* callback that requested it has unwound, and the loop does not fall asleep on a
\* close that is undecided.
THEOREM CloseIsAlwaysSound == Spec => []CloseIsSound
  <1>1. Window!CloseAssumption
    BY DEF Window!CloseAssumption, Window!UserCode
  <1>2. Window!PostedMeansQueued /\ Window!CompletionUnwound /\ Window!NoSleepOnDurableClose
           => CloseIsSound
    BY DEF CloseIsSound
  <1>3. Window!Spec => []Window!PostedMeansQueued
    BY <1>1, Window!PostedAlwaysQueued
  <1>4. Window!Spec => []Window!CompletionUnwound
    BY <1>1, Window!AlwaysUnwound
  <1>5. Window!Spec => []Window!NoSleepOnDurableClose
    BY <1>1, Window!NeverSleepsOnClose
  <1> QED
    BY <1>2, <1>3, <1>4, <1>5, WindowBehaves, PTL
-----------------------------------------------------------------------------
(***************************************************************************)
(* Hover, over any tree of nodes and with any number of exceptions: as long  *)
(* as no removal cut a transition, its cursor says who was told what.        *)
(***************************************************************************)
HoverEnds    == HoverNodes \cup {"none"}
HoverRecords ==
   [previous : HoverEnds, next : HoverEnds, phase : {"leave", "enter", "input", "complete"},
                 cursor : HoverEnds]

HoverRanges ==
    /\ nodes \subseteq HoverNodes
    /\ target \in nodes \cup {"none"}
    /\ leaving = Hover!None \/ leaving \in HoverRecords
    /\ pending = Hover!None \/ pending \in [next : HoverEnds]
    /\ mode \in {"rest", "serve", "drain"}
    /\ observing \in BOOLEAN
    /\ cut \in BOOLEAN
    /\ removing \in HoverEnds
    /\ wanted \in HoverEnds
    /\ told \subseteq HoverNodes
    /\ throws \in 0..HoverThrows

\* What is left of the tree is a tree.
HoverUpward == \A n \in nodes : Hover!Path[n] \subseteq nodes

\* Only a transition is executed, and only the one that is executed calls.
HoverWorking ==
    /\ mode # "rest" => leaving # Hover!None
    /\ observing => mode # "rest"

\* The last request waits, or was served.
HoverLatest ==
    /\ pending = Hover!None => target = IF wanted \in nodes THEN wanted ELSE "none"
    /\ pending # Hover!None => pending.next = wanted

\* A removal waits until hover has left the subtree, and nobody asks for it again.
HoverLeaving ==
    removing # "none" =>
        /\ target \in Hover!Subtree(removing) => mode = "serve" /\ pending # Hover!None
        /\ mode # "rest" => wanted \notin Hover!Subtree(removing)

\* A transition that no removal cut walks up the two paths ...
HoverHere ==
    ~cut /\ leaving # Hover!None =>
        /\ leaving.previous \in nodes \cup {"none"}
        /\ leaving.next = target
        /\ leaving.phase = "leave" =>
               leaving.cursor \in Hover!PathOf(leaving.previous) \cup {"none"}
        /\ leaving.phase = "enter" =>
               leaving.cursor \in Hover!PathOf(leaving.next) \cup {"none"}

\* ... and has told those below its cursor, unless they are on both.
HoverBoth == Hover!PathOf(leaving.previous) \cap Hover!PathOf(leaving.next)

HoverHeard ==
    ~cut =>
        /\ leaving = Hover!None => told = Hover!PathOf(target)
        /\ leaving # Hover!None =>
             /\ leaving.phase = "leave" => told = HoverBoth \cup Hover!PathOf(leaving.cursor)
             /\ leaving.phase = "enter" =>
                    told = HoverBoth
                       \cup (Hover!PathOf(leaving.next) \ Hover!PathOf(leaving.cursor))
             /\ leaving.phase \in {"input", "complete"} => told = Hover!PathOf(target)

HoverIInv ==
    /\ HoverRanges /\ HoverUpward /\ HoverWorking /\ HoverLatest /\ HoverLeaving
    /\ HoverHere /\ HoverHeard

LEMMA HoverInvParts ==
    HoverIInv => HoverRanges /\ HoverUpward /\ HoverWorking /\ HoverLatest /\ HoverLeaving
        /\ HoverHere /\ HoverHeard
  BY DEF HoverIInv

-----------------------------------------------------------------------------
(***************************************************************************)
(* Hover: the tree of nodes.                                                                *)
(***************************************************************************)
LEMMA HoverPathHas == ASSUME NEW n \in HoverNodes
                      PROVE  n \in Hover!Path[n] /\ Hover!Path[n] \subseteq HoverNodes
  BY DEF Hover!Path

LEMMA HoverPathCloses == ASSUME Hover!HoverAssumption, NEW n \in HoverNodes
                         PROVE  Hover!UpClosed(Hover!Path[n])
  <1> SUFFICES ASSUME NEW m \in Hover!Path[n], HoverParent[m] # "none"
               PROVE HoverParent[m] \in Hover!Path[n]
    BY DEF Hover!UpClosed
  <1>1. m \in HoverNodes /\ HoverParent[m] \in HoverNodes
    BY HoverPathHas DEF Hover!HoverAssumption
  <1>2. ASSUME NEW S \in SUBSET HoverNodes, n \in S, Hover!UpClosed(S) PROVE HoverParent[m] \in S
    <2>1. m \in S
      BY <1>2 DEF Hover!Path
    <2> QED
      BY <2>1, <1>2 DEF Hover!UpClosed
  <1> QED
    BY <1>1, <1>2 DEF Hover!Path

LEMMA HoverPathUp == ASSUME Hover!HoverAssumption, NEW n \in HoverNodes, NEW m \in Hover!Path[n]
                     PROVE  Hover!Path[m] \subseteq Hover!Path[n]
  <1>1. m \in HoverNodes /\ Hover!Path[n] \in SUBSET HoverNodes /\ Hover!UpClosed(Hover!Path[n])
    BY HoverPathHas, HoverPathCloses
  <1> SUFFICES ASSUME NEW x \in Hover!Path[m] PROVE x \in Hover!Path[n]
    OBVIOUS
  <1> QED
    BY <1>1 DEF Hover!Path

\* The way up from nowhere is empty.
HoverWay(n) == IF n \in HoverNodes THEN Hover!Path[n] ELSE {}

LEMMA HoverPathSteps == ASSUME Hover!HoverAssumption, NEW n \in HoverNodes
                        PROVE  Hover!Path[n] = {n} \cup HoverWay(HoverParent[n])
  <1>1. HoverParent[n] \in HoverEnds
    BY DEF Hover!HoverAssumption, HoverEnds
  <1>2. {n} \cup HoverWay(HoverParent[n]) \subseteq Hover!Path[n]
    <2>1. CASE HoverParent[n] = "none"
      BY <2>1, HoverPathHas DEF HoverWay, Hover!HoverAssumption
    <2>2. CASE HoverParent[n] \in HoverNodes
      <3>1. HoverParent[n] \in Hover!Path[n]
        BY <2>2, HoverPathHas, HoverPathCloses DEF Hover!UpClosed, Hover!HoverAssumption
      <3> QED
        BY <3>1, <2>2, HoverPathHas, HoverPathUp DEF HoverWay
    <2> QED
      BY <1>1, <2>1, <2>2 DEF HoverEnds
  <1>3. Hover!Path[n] \subseteq {n} \cup HoverWay(HoverParent[n])
    <2> DEFINE S == {n} \cup HoverWay(HoverParent[n])
    <2>1. S \in SUBSET HoverNodes /\ n \in S
      BY HoverPathHas DEF HoverWay
    <2>2. Hover!UpClosed(S)
      <3> SUFFICES ASSUME NEW m \in S, HoverParent[m] # "none" PROVE HoverParent[m] \in S
        BY DEF Hover!UpClosed
      <3>1. CASE m = n
        BY <3>1, <1>1, HoverPathHas DEF HoverWay, HoverEnds
      <3>2. CASE m \in HoverWay(HoverParent[n])
        <4>1. HoverParent[n] \in HoverNodes /\ m \in Hover!Path[HoverParent[n]]
          BY <3>2 DEF HoverWay
        <4>2. HoverParent[m] \in Hover!Path[HoverParent[n]]
          BY <4>1, HoverPathCloses DEF Hover!UpClosed
        <4> QED
          BY <4>1, <4>2 DEF HoverWay
      <3> QED
        BY <3>1, <3>2
    <2> QED
      BY <2>1, <2>2 DEF Hover!Path
  <1> QED
    BY <1>2, <1>3

\* Nobody is above itself.
LEMMA HoverPathEnds == ASSUME Hover!HoverAssumption, NEW n \in HoverNodes
                       PROVE  n \notin HoverWay(HoverParent[n])
  <1> SUFFICES ASSUME n \in HoverWay(HoverParent[n]) PROVE FALSE
    OBVIOUS
  <1>1. HoverParent[n] \in HoverNodes /\ n \in Hover!Path[HoverParent[n]]
    BY DEF HoverWay
  <1> DEFINE S == {m \in HoverNodes : n \in Hover!Path[m]}
  <1>2. n \in S /\ HoverParent[n] \in S
    BY <1>1, HoverPathHas
  <1>3. PICK m \in S : HoverParent[m] \notin S
    BY <1>2 DEF Hover!HoverAssumption
  <1>4. n \in {m} \cup HoverWay(HoverParent[m])
    BY <1>3, HoverPathSteps
  <1>5. m # n
    BY <1>2, <1>3
  <1> QED
    BY <1>3, <1>4, <1>5 DEF HoverWay

LEMMA HoverPathOfSteps ==
    ASSUME Hover!HoverAssumption, HoverRanges, HoverUpward, NEW c \in nodes
    PROVE  /\ Hover!PathOf(c) = {c} \cup Hover!PathOf(HoverParent[c])
           /\ c \notin Hover!PathOf(HoverParent[c])
           /\ HoverParent[c] \in nodes \cup {"none"}
           /\ Hover!PathOf(c) \subseteq nodes
  <1>1. c \in HoverNodes /\ Hover!PathOf(c) = Hover!Path[c] /\ Hover!Path[c] \subseteq nodes
    BY DEF HoverRanges, HoverUpward, Hover!PathOf
  <1>2. HoverParent[c] \in nodes \cup {"none"}
    BY <1>1, HoverPathHas, HoverPathCloses DEF Hover!UpClosed
  <1>3. Hover!PathOf(HoverParent[c]) = HoverWay(HoverParent[c])
    BY <1>2 DEF Hover!PathOf, HoverWay, HoverRanges, Hover!HoverAssumption
  <1> QED
    BY <1>1, <1>2, <1>3, HoverPathSteps, HoverPathEnds

LEMMA HoverPathOfNobody ==
    ASSUME Hover!HoverAssumption, HoverRanges
    PROVE  Hover!PathOf("none") = {} /\ "none" \notin nodes
  BY DEF Hover!PathOf, HoverRanges, Hover!HoverAssumption

LEMMA HoverDistinct ==
    /\ \A r \in HoverRecords : r # Hover!None
    /\ \A r \in [next : HoverEnds] : r # Hover!None
    /\ \A n : [next |-> n] # Hover!None
  <1>1. DOMAIN Hover!None = {"absent"}
    BY DEF Hover!None
  <1>2. \A r \in HoverRecords : DOMAIN r = {"previous", "next", "phase", "cursor"}
    BY DEF HoverRecords
  <1>3. \A r \in [next : HoverEnds] : DOMAIN r = {"next"}
    OBVIOUS
  <1>4. \A n : DOMAIN [next |-> n] = {"next"}
    OBVIOUS
  <1>5. "absent" \notin {"previous", "next", "phase", "cursor"} /\ "absent" \notin {"next"}
    OBVIOUS
  <1> QED
    BY <1>1, <1>2, <1>3, <1>4, <1>5

-----------------------------------------------------------------------------
(***************************************************************************)
(* Hover: requests.                                                                *)
(***************************************************************************)
LEMMA HoverTargeted ==
    ASSUME Hover!HoverAssumption, HoverRanges, NEW n \in HoverEnds
    PROVE  /\ Hover!Targetable(n) \in nodes \cup {"none"}
           /\ removing # "none" => Hover!Targetable(n) \notin Hover!Subtree(removing)
           /\ removing = "none" \/ n \notin Hover!Subtree(removing) =>
                  Hover!Targetable(n) = IF n \in nodes THEN n ELSE "none"
  <1>1. "none" \notin HoverNodes /\ nodes \subseteq HoverNodes
    BY DEF Hover!HoverAssumption, HoverRanges
  <1>2. CASE removing = "none"
    BY <1>1, <1>2 DEF Hover!Targetable
  <1>3. CASE removing # "none"
    BY <1>1, <1>3 DEF Hover!Targetable, Hover!Subtree
  <1> QED
    BY <1>2, <1>3

\* Nothing that a transition has to tell is open.
HoverReady ==
    /\ leaving = Hover!None \/ leaving.phase = "complete"
    /\ ~cut => told = Hover!PathOf(target)

LEMMA HoverBegunIsTyped ==
    ASSUME Hover!HoverAssumption, HoverRanges, NEW n \in nodes \cup {"none"}, NEW why,
           Hover!Begin(n, why)
    PROVE  leaving' \in HoverRecords /\ leaving' # Hover!None
  <1>1. target \in HoverEnds /\ n \in HoverEnds
    BY DEF HoverRanges, HoverEnds
  <1>2. leaving' = Hover!Transition(target, n)
    BY DEF Hover!Begin
  <1>3. Hover!Transition(target, n) \in HoverRecords
    BY <1>1 DEF Hover!Transition, HoverRecords
  <1> QED
    BY <1>2, <1>3, HoverDistinct

LEMMA HoverBegun ==
    ASSUME Hover!HoverAssumption, HoverRanges, HoverUpward, HoverReady,
           NEW n \in nodes \cup {"none"}, NEW why,
           Hover!Begin(n, why), UNCHANGED <<nodes, told, cut>>
    PROVE  HoverHere' /\ HoverHeard'
  <1> SUFFICES ASSUME ~cut PROVE HoverHere' /\ HoverHeard'
    BY DEF HoverHere, HoverHeard
  <1>1. /\ leaving' # Hover!None
        /\ leaving'.previous = target /\ leaving'.next = n /\ target' = n
        /\ leaving'.phase = IF target = "none" THEN "enter" ELSE "leave"
        /\ leaving'.cursor = IF target = "none" THEN n ELSE target
    BY HoverBegunIsTyped DEF Hover!Begin, Hover!Transition
  <1>2. told = Hover!PathOf(target)
    BY DEF HoverReady
  <1>3. \A m \in nodes : m \in Hover!PathOf(m)
    BY HoverPathHas DEF Hover!PathOf, HoverRanges
  <1>4. Hover!PathOf("none") = {}
    BY HoverPathOfNobody
  <1>5. \A m : Hover!PathOf(m)' = Hover!PathOf(m)
    BY DEF Hover!PathOf
  <1>6. target \in nodes \cup {"none"}
    BY DEF HoverRanges
  <1>7. HoverHere'
    BY <1>1, <1>3, <1>5, <1>6 DEF HoverHere
  <1>8. HoverHeard'
    <2>1. CASE target = "none"
      BY <2>1, <1>1, <1>2, <1>4, <1>5 DEF HoverHeard, HoverBoth
    <2>2. CASE target # "none"
      BY <2>2, <1>1, <1>2, <1>5 DEF HoverHeard, HoverBoth
    <2> QED
      BY <2>1, <2>2
  <1> QED
    BY <1>7, <1>8

LEMMA HoverKept ==
    ASSUME HoverHere, HoverHeard, UNCHANGED <<nodes, target, leaving, told, cut>>
    PROVE  HoverHere' /\ HoverHeard'
  <1>1. \A m : Hover!PathOf(m)' = Hover!PathOf(m)
    BY DEF Hover!PathOf
  <1>2. HoverHere'
    BY <1>1 DEF HoverHere
  <1>3. HoverBoth' = HoverBoth
    BY <1>1 DEF HoverBoth
  <1>4. HoverHeard'
    BY <1>1, <1>3 DEF HoverHeard
  <1> QED
    BY <1>2, <1>4

\* What a request does to the target, the transition and the request that waits.
LEMMA HoverRequested ==
    ASSUME Hover!HoverAssumption, HoverIInv, NEW n \in nodes \cup {"none"}, Hover!Request(n),
           UNCHANGED <<nodes, told, cut>>
    PROVE  /\ leaving' = Hover!None \/ leaving' \in HoverRecords
           /\ target' \in nodes \cup {"none"}
           /\ pending' = Hover!None \/ pending' \in [next : HoverEnds]
           /\ mode' \in {"rest", "serve", "drain"}
           /\ wanted' = n
           /\ mode' # "rest" => leaving' # Hover!None
           /\ pending' = Hover!None => target' = n
           /\ pending' # Hover!None => pending'.next = n
           /\ mode # "rest" => target' = target /\ mode' = mode /\ pending' # Hover!None
           /\ mode = "rest" => target' = n \/ (mode' = "serve" /\ pending' # Hover!None)
           /\ HoverHere' /\ HoverHeard'
  <1>p. HoverRanges /\ HoverUpward /\ HoverWorking /\ HoverLatest /\ HoverHere /\ HoverHeard
    BY HoverInvParts
  <1>n. n \in HoverEnds
    BY <1>p DEF HoverRanges, HoverEnds
  <1>a. [next |-> n] \in [next : HoverEnds] /\ [next |-> n] # Hover!None
    BY <1>n, HoverDistinct
  <1>1. CASE mode # "rest"
    <2>1. wanted' = n /\ pending' = [next |-> n] /\ UNCHANGED <<target, leaving, mode>>
      BY <1>1 DEF Hover!Request
    <2>2. HoverHere' /\ HoverHeard'
      BY <2>1, <1>p, HoverKept
    <2>3. HoverRanges /\ HoverWorking
      BY <1>p
    <2> QED
      BY <1>1, <1>a, <2>1, <2>2, <2>3 DEF HoverRanges, HoverWorking
  <1>2. CASE mode = "rest" /\ leaving # Hover!None
    <2>1. wanted' = n /\ pending' = [next |-> n] /\ mode' = "serve" /\ UNCHANGED <<target, leaving>>
      BY <1>2 DEF Hover!Request
    <2>2. HoverHere' /\ HoverHeard'
      BY <2>1, <1>p, HoverKept
    <2>3. HoverRanges
      BY <1>p
    <2> QED
      BY <1>2, <1>a, <2>1, <2>2, <2>3 DEF HoverRanges
  <1>3. CASE mode = "rest" /\ leaving = Hover!None /\ n = target
    <2>1. wanted' = n /\ pending' = Hover!None /\ mode' = "rest" /\ UNCHANGED <<target, leaving>>
      BY <1>3 DEF Hover!Request
    <2>2. HoverHere' /\ HoverHeard'
      BY <2>1, <1>p, HoverKept
    <2> QED
      BY <1>3, <2>1, <2>2
  <1>4. CASE mode = "rest" /\ leaving = Hover!None /\ n # target
    <2>1. PICK why \in {"serve", "drain"} : Hover!Begin(n, why)
      BY <1>4 DEF Hover!Request
    <2>2. wanted' = n /\ pending' = Hover!None
      BY <1>4 DEF Hover!Request
    <2>3. HoverReady
      BY <1>4, <1>p DEF HoverReady, HoverHeard
    <2>4. HoverHere' /\ HoverHeard'
      BY <1>p, <2>1, <2>3, HoverBegun
    <2>5. leaving' \in HoverRecords /\ leaving' # Hover!None
      BY <1>p, <2>1, HoverBegunIsTyped
    <2>6. target' = n /\ mode' \in {"serve", "drain"}
      BY <2>1 DEF Hover!Begin
    <2> QED
      BY <1>4, <2>2, <2>4, <2>5, <2>6
  <1> QED
    BY <1>1, <1>2, <1>3, <1>4

\* The request that waited is served, if it still asks for something else.
LEMMA HoverServed ==
    ASSUME Hover!HoverAssumption, HoverIInv, HoverReady, pending # Hover!None, ~observing,
           removing = "none" \/ mode # "rest",
           pending' = Hover!None,
           \/ /\ Hover!Targetable(pending.next) = target
              /\ mode' = "rest" /\ leaving' = Hover!None
              /\ target' = target
           \/ Hover!Begin(Hover!Targetable(pending.next), "drain"),
           UNCHANGED <<nodes, observing, removing, told, wanted, cut, throws>>
    PROVE  HoverIInv'
  <1>p. HoverRanges /\ HoverUpward /\ HoverWorking /\ HoverLatest /\ HoverLeaving /\ HoverHere
        /\ HoverHeard
    BY HoverInvParts
  <1> DEFINE n == Hover!Targetable(pending.next)
  <1>1. pending.next = wanted /\ wanted \in HoverEnds
    BY <1>p DEF HoverLatest, HoverRanges
  <1>2. /\ n \in nodes \cup {"none"}
        /\ removing # "none" => n \notin Hover!Subtree(removing)
    BY <1>1, <1>p, HoverTargeted
  <1>3. n = IF wanted \in nodes THEN wanted ELSE "none"
    <2>1. removing = "none" \/ wanted \notin Hover!Subtree(removing)
      BY <1>p DEF HoverLeaving
    <2> QED
      BY <2>1, <1>1, <1>p, HoverTargeted
  <1>4. target' = n
    BY DEF Hover!Begin
  <1>5. /\ leaving' = Hover!None \/ leaving' \in HoverRecords
        /\ mode' \in {"rest", "drain"} /\ (mode' # "rest" => leaving' # Hover!None)
    <2>1. CASE Hover!Begin(n, "drain")
      <3>1. leaving' \in HoverRecords /\ leaving' # Hover!None
        BY <2>1, <1>2, <1>p, HoverBegunIsTyped
      <3> QED
        BY <3>1, <2>1 DEF Hover!Begin
    <2> QED
      BY <2>1
  <1>6. HoverHere' /\ HoverHeard'
    <2>1. CASE Hover!Begin(n, "drain")
      BY <2>1, <1>2, <1>p, HoverBegun
    <2>2. CASE n = target /\ leaving' = Hover!None /\ target' = target
      <3>1. Hover!PathOf(target)' = Hover!PathOf(target)
        BY <2>2 DEF Hover!PathOf
      <3> QED
        BY <3>1, <2>2 DEF HoverHere, HoverHeard, HoverReady
    <2> QED
      BY <2>1, <2>2
  <1>7. HoverRanges'
    BY <1>p, <1>2, <1>4, <1>5 DEF HoverRanges
  <1>8. HoverUpward'
    BY <1>p DEF HoverUpward
  <1>9. HoverWorking'
    BY <1>5 DEF HoverWorking
  <1>10. HoverLatest'
    BY <1>3, <1>4 DEF HoverLatest
  <1>11. HoverLeaving'
    <2>1. Hover!Subtree(removing)' = Hover!Subtree(removing)
      BY DEF Hover!Subtree
    <2>2. removing # "none" => wanted \notin Hover!Subtree(removing)
      BY <1>p DEF HoverLeaving
    <2> QED
      BY <2>1, <2>2, <1>2, <1>4 DEF HoverLeaving
  <1> QED
    BY <1>6, <1>7, <1>8, <1>9, <1>10, <1>11 DEF HoverIInv
-----------------------------------------------------------------------------
(***************************************************************************)
(* Hover: the steps.                                                               *)
(***************************************************************************)
LEMMA HoverInitially == ASSUME Hover!HoverAssumption, Hover!Init PROVE HoverIInv
  <1>1. Hover!PathOf("none") = {}
    BY DEF Hover!PathOf, Hover!Init, Hover!HoverAssumption
  <1>2. HoverRanges
    <2>1. throws \in 0..HoverThrows
      BY DEF Hover!Init, Hover!HoverAssumption
    <2> QED
      BY <2>1 DEF HoverRanges, Hover!Init, HoverEnds
  <1>3. HoverUpward
    BY HoverPathHas DEF HoverUpward, Hover!Init
  <1>4. HoverWorking /\ HoverLeaving
    BY DEF HoverWorking, HoverLeaving, Hover!Init
  <1>5. HoverLatest
    BY DEF HoverLatest, Hover!Init
  <1>6. HoverHere /\ HoverHeard
    BY <1>1 DEF HoverHere, HoverHeard, Hover!Init
  <1> QED
    BY <1>2, <1>3, <1>4, <1>5, <1>6 DEF HoverIInv

LEMMA HoverUpdateKeeps == ASSUME Hover!HoverAssumption, HoverIInv, Hover!Update PROVE HoverIInv'
  <1>p. HoverRanges /\ HoverUpward /\ HoverWorking /\ HoverLatest /\ HoverLeaving
    BY HoverInvParts
  <1>u. UNCHANGED <<nodes, observing, removing, told, cut, throws>>
    BY DEF Hover!Update
  <1>1. PICK m \in nodes \cup {"none"} : Hover!Request(Hover!Targetable(m))
    BY DEF Hover!Update
  <1> DEFINE n == Hover!Targetable(m)
  <1>2. m \in HoverEnds
    BY <1>1, <1>p DEF HoverRanges, HoverEnds
  <1>3. n \in nodes \cup {"none"} /\ (removing # "none" => n \notin Hover!Subtree(removing))
    BY <1>2, <1>p, HoverTargeted
  <1> HIDE DEF n
  <1>4. Hover!Request(n)
    BY <1>1 DEF n
  <1>5. /\ leaving' = Hover!None \/ leaving' \in HoverRecords
        /\ target' \in nodes \cup {"none"}
        /\ pending' = Hover!None \/ pending' \in [next : HoverEnds]
        /\ mode' \in {"rest", "serve", "drain"}
        /\ wanted' = n
        /\ mode' # "rest" => leaving' # Hover!None
        /\ pending' = Hover!None => target' = n
        /\ pending' # Hover!None => pending'.next = n
        /\ mode # "rest" => target' = target /\ mode' = mode /\ pending' # Hover!None
        /\ HoverHere' /\ HoverHeard'
    BY <1>3, <1>4, <1>u, HoverRequested
  <1>6. HoverRanges'
    BY <1>p, <1>u, <1>3, <1>5 DEF HoverRanges, HoverEnds
  <1>7. HoverUpward'
    BY <1>p, <1>u DEF HoverUpward
  <1>8. HoverWorking'
    BY <1>p, <1>u, <1>5 DEF HoverWorking
  <1>9. HoverLatest'
    BY <1>p, <1>u, <1>3, <1>5 DEF HoverLatest
  <1>10. HoverLeaving'
    <2>1. removing # "none" => mode # "rest"
      BY <1>p DEF Hover!Update, HoverWorking
    <2>2. Hover!Subtree(removing)' = Hover!Subtree(removing)
      BY <1>u DEF Hover!Subtree
    <2> QED
      BY <2>1, <2>2, <1>p, <1>u, <1>3, <1>5 DEF HoverLeaving
  <1> QED
    BY <1>5, <1>6, <1>7, <1>8, <1>9, <1>10 DEF HoverIInv

LEMMA HoverCheckpointKeeps ==
    ASSUME Hover!HoverAssumption, HoverIInv, Hover!Checkpoint
    PROVE  HoverIInv'
  <1>p. HoverRanges /\ HoverUpward /\ HoverWorking /\ HoverLatest /\ HoverLeaving /\ HoverHere
        /\ HoverHeard
    BY HoverInvParts
  <1>u. /\ UNCHANGED <<nodes, observing, removing, told, wanted, cut, throws>>
        /\ mode = "rest" /\ removing = "none" /\ ~observing
    BY <1>p DEF Hover!Checkpoint, HoverWorking, HoverRanges
  <1>1. CASE leaving # Hover!None
    <2>1. mode' = "serve" /\ UNCHANGED <<target, leaving, pending>>
      BY <1>1 DEF Hover!Checkpoint, Hover!Resume
    <2>2. HoverHere' /\ HoverHeard'
      BY <2>1, <1>p, <1>u, HoverKept
    <2>3. HoverRanges' /\ HoverUpward'
      BY <2>1, <1>p, <1>u DEF HoverRanges, HoverUpward
    <2>4. HoverWorking' /\ HoverLeaving'
      BY <1>1, <2>1, <1>u DEF HoverWorking, HoverLeaving
    <2>5. HoverLatest'
      BY <2>1, <1>p, <1>u DEF HoverLatest
    <2> QED
      BY <2>2, <2>3, <2>4, <2>5 DEF HoverIInv
  <1>2. CASE leaving = Hover!None
    <2>1. pending # Hover!None /\ Hover!DrainPending
      BY <1>2 DEF Hover!Checkpoint, Hover!Resume
    <2>2. HoverReady
      BY <1>2, <1>p DEF HoverReady, HoverHeard
    <2>3. /\ pending' = Hover!None
          /\ \/ /\ Hover!Targetable(pending.next) = target
                /\ mode' = "rest" /\ leaving' = Hover!None
                /\ target' = target
             \/ Hover!Begin(Hover!Targetable(pending.next), "drain")
      BY <1>2, <2>1 DEF Hover!DrainPending
    <2> QED
      BY <1>u, <2>1, <2>2, <2>3, HoverServed
  <1> QED
    BY <1>1, <1>2

LEMMA HoverCompleteKeeps == ASSUME Hover!HoverAssumption, HoverIInv, Hover!Complete PROVE HoverIInv'
  <1>p. HoverRanges /\ HoverUpward /\ HoverWorking /\ HoverLatest /\ HoverLeaving /\ HoverHere
        /\ HoverHeard
    BY HoverInvParts
  <1>u. /\ UNCHANGED <<nodes, observing, removing, told, wanted, cut, throws>>
        /\ mode # "rest" /\ ~observing /\ leaving # Hover!None /\ leaving.phase = "complete"
    BY DEF Hover!Complete, Hover!Running
  <1>r. HoverReady
    BY <1>u, <1>p DEF HoverReady, HoverHeard
  <1>1. CASE mode = "drain" \/ pending = Hover!None
    <2>1. mode' = "rest" /\ leaving' = Hover!None /\ UNCHANGED <<target, pending>>
      BY <1>1 DEF Hover!Complete
    <2>2. Hover!PathOf(target)' = Hover!PathOf(target)
      BY <2>1, <1>u DEF Hover!PathOf
    <2>3. HoverHere' /\ HoverHeard'
      BY <2>1, <2>2, <1>r, <1>u DEF HoverHere, HoverHeard, HoverReady
    <2>4. HoverRanges' /\ HoverUpward'
      BY <2>1, <1>p, <1>u DEF HoverRanges, HoverUpward
    <2>5. HoverWorking'
      BY <2>1, <1>u DEF HoverWorking
    <2>6. HoverLatest'
      BY <2>1, <1>p, <1>u DEF HoverLatest
    <2>7. HoverLeaving'
      <3>1. Hover!Subtree(removing)' = Hover!Subtree(removing)
        BY <1>u DEF Hover!Subtree
      <3> QED
        BY <3>1, <1>1, <2>1, <1>p, <1>u DEF HoverLeaving
    <2> QED
      BY <2>3, <2>4, <2>5, <2>6, <2>7 DEF HoverIInv
  <1>2. CASE ~(mode = "drain" \/ pending = Hover!None)
    <2>1. /\ pending' = Hover!None
          /\ \/ /\ Hover!Targetable(pending.next) = target
                /\ mode' = "rest" /\ leaving' = Hover!None
                /\ target' = target
             \/ Hover!Begin(Hover!Targetable(pending.next), "drain")
      BY <1>2 DEF Hover!Complete
    <2> QED
      BY <1>u, <1>r, <1>2, <2>1, HoverServed
  <1> QED
    BY <1>1, <1>2

\* A step of the walk disturbs the record and what observers were told only.
LEMMA HoverWalked ==
    ASSUME HoverIInv, mode # "rest", leaving' \in HoverRecords, leaving' # Hover!None,
           told' \subseteq HoverNodes,
           observing' \in BOOLEAN, HoverHere', HoverHeard',
           UNCHANGED <<nodes, target, pending, mode, removing, wanted, cut, throws>>
    PROVE  HoverIInv'
  <1>p. HoverRanges /\ HoverUpward /\ HoverWorking /\ HoverLatest /\ HoverLeaving
    BY HoverInvParts
  <1>1. HoverRanges'
    BY <1>p DEF HoverRanges
  <1>2. HoverUpward' /\ HoverWorking'
    BY <1>p DEF HoverUpward, HoverWorking
  <1>3. HoverLatest'
    BY <1>p DEF HoverLatest
  <1>4. HoverLeaving'
    <2>1. Hover!Subtree(removing)' = Hover!Subtree(removing)
      BY DEF Hover!Subtree
    <2> QED
      BY <2>1, <1>p DEF HoverLeaving
  <1> QED
    BY <1>1, <1>2, <1>3, <1>4 DEF HoverIInv

LEMMA HoverPhaseEndsKeeps ==
    ASSUME Hover!HoverAssumption, HoverIInv, Hover!PhaseEnds
    PROVE  HoverIInv'
  <1>p. HoverRanges /\ HoverUpward /\ HoverHere /\ HoverHeard
    BY HoverInvParts
  <1>u. /\ UNCHANGED <<nodes, target, pending, mode, observing, removing, told, wanted, cut,
                       throws>>
        /\ mode # "rest" /\ leaving # Hover!None /\ leaving.cursor \notin nodes
    BY DEF Hover!PhaseEnds, Hover!Running, Hover!Cursor
  <1>t. leaving \in HoverRecords
    BY <1>p, <1>u DEF HoverRanges
  <1>f. Hover!PathOf(leaving.cursor) = {}
    BY <1>u DEF Hover!PathOf
  <1>m. \A m : Hover!PathOf(m)' = Hover!PathOf(m)
    BY <1>u DEF Hover!PathOf
  <1>s. \A m \in nodes : m \in Hover!PathOf(m)
    BY <1>p, HoverPathHas DEF Hover!PathOf, HoverRanges
  <1>c. told' \subseteq HoverNodes /\ observing' \in BOOLEAN
    BY <1>u, <1>p DEF HoverRanges
  <1>1. CASE leaving.phase = "leave"
    <2>1. leaving' = [leaving EXCEPT !.phase = "enter", !.cursor = leaving.next]
      BY <1>1 DEF Hover!PhaseEnds
    <2>2. leaving' \in HoverRecords
      BY <2>1, <1>t DEF HoverRecords
    <2>3. /\ leaving'.previous = leaving.previous /\ leaving'.next = leaving.next
          /\ leaving'.phase = "enter" /\ leaving'.cursor = leaving.next
      BY <2>1, <1>t DEF HoverRecords
    <2>4. leaving' # Hover!None
      BY <2>2, HoverDistinct
    <2>5. HoverHere'
      BY <2>3, <2>4, <1>m, <1>s, <1>u, <1>p DEF HoverHere, HoverRanges
    <2>6. HoverHeard'
      BY <2>3, <2>4, <1>1, <1>f, <1>m, <1>u, <1>p DEF HoverHeard, HoverBoth
    <2> QED
      BY <1>u, <1>c, <2>2, <2>4, <2>5, <2>6, HoverWalked
  <1>2. CASE leaving.phase = "enter"
    <2>1. leaving' = [leaving EXCEPT !.phase = "input", !.cursor = leaving.previous]
      BY <1>2 DEF Hover!PhaseEnds
    <2>2. leaving' \in HoverRecords
      BY <2>1, <1>t DEF HoverRecords
    <2>3. /\ leaving'.previous = leaving.previous /\ leaving'.next = leaving.next
          /\ leaving'.phase = "input"
      BY <2>1, <1>t DEF HoverRecords
    <2>4. leaving' # Hover!None
      BY <2>2, HoverDistinct
    <2>5. HoverHere'
      BY <2>3, <2>4, <1>u, <1>p DEF HoverHere
    <2>6. HoverHeard'
      <3>1. ~cut => told = Hover!PathOf(leaving.next)
        BY <1>2, <1>f, <1>u, <1>p DEF HoverHeard, HoverBoth
      <3>2. ~cut => leaving.next = target
        BY <1>u, <1>p DEF HoverHere
      <3> QED
        BY <3>1, <3>2, <2>3, <2>4, <1>m, <1>u DEF HoverHeard
    <2> QED
      BY <1>u, <1>c, <2>2, <2>4, <2>5, <2>6, HoverWalked
  <1>3. CASE leaving.phase = "input"
    <2>1. leaving' = [leaving EXCEPT !.phase = "complete"]
      BY <1>3 DEF Hover!PhaseEnds
    <2>2. leaving' \in HoverRecords
      BY <2>1, <1>t DEF HoverRecords
    <2>3. /\ leaving'.previous = leaving.previous /\ leaving'.next = leaving.next
          /\ leaving'.phase = "complete"
      BY <2>1, <1>t DEF HoverRecords
    <2>4. leaving' # Hover!None
      BY <2>2, HoverDistinct
    <2>5. HoverHere'
      BY <2>3, <2>4, <1>u, <1>p DEF HoverHere
    <2>6. HoverHeard'
      BY <2>3, <2>4, <1>3, <1>m, <1>u, <1>p DEF HoverHeard
    <2> QED
      BY <1>u, <1>c, <2>2, <2>4, <2>5, <2>6, HoverWalked
  <1>4. leaving.phase # "complete"
    BY DEF Hover!PhaseEnds
  <1> QED
    BY <1>1, <1>2, <1>3, <1>4, <1>t DEF HoverRecords

\* The cursor moves up, from a node that exists.
LEMMA HoverMovesUp ==
    ASSUME Hover!HoverAssumption, HoverIInv, Hover!Running, Hover!Cursor \in nodes,
           Hover!Moved(HoverParent[Hover!Cursor])
    PROVE  /\ leaving' \in HoverRecords /\ leaving' # Hover!None /\ mode # "rest"
           /\ leaving'.previous = leaving.previous /\ leaving'.next = leaving.next
           /\ leaving'.phase = leaving.phase
           /\ leaving'.cursor = HoverParent[leaving.cursor]
           /\ Hover!PathOf(leaving.cursor) = {leaving.cursor}
              \cup Hover!PathOf(HoverParent[leaving.cursor])
           /\ leaving.cursor \notin Hover!PathOf(HoverParent[leaving.cursor])
           /\ HoverParent[leaving.cursor] \in nodes \cup {"none"}
  <1>p. HoverRanges /\ HoverUpward
    BY HoverInvParts
  <1>1. leaving \in HoverRecords /\ mode # "rest"
    BY <1>p DEF HoverRanges, Hover!Running
  <1>2. leaving.cursor \in nodes
    BY DEF Hover!Cursor
  <1>3. HoverParent[leaving.cursor] \in HoverEnds
    BY <1>2, <1>p, HoverPathOfSteps DEF HoverEnds, HoverRanges
  <1>4. leaving' = [leaving EXCEPT !.cursor = HoverParent[leaving.cursor]]
    BY DEF Hover!Moved, Hover!Cursor
  <1>5. leaving' \in HoverRecords
    BY <1>1, <1>3, <1>4 DEF HoverRecords
  <1>6. /\ leaving'.previous = leaving.previous /\ leaving'.next = leaving.next
        /\ leaving'.phase = leaving.phase
        /\ leaving'.cursor = HoverParent[leaving.cursor]
    BY <1>1, <1>4 DEF HoverRecords
  <1> QED
    BY <1>p, <1>1, <1>2, <1>5, <1>6, HoverDistinct, HoverPathOfSteps

\* It stays on its path.
LEMMA HoverStaysHere ==
    ASSUME Hover!HoverAssumption, HoverIInv, Hover!Running, Hover!Cursor \in nodes,
           Hover!Moved(HoverParent[Hover!Cursor]),
           UNCHANGED <<nodes, target, cut>>
    PROVE  HoverHere'
  <1>p. HoverRanges /\ HoverUpward /\ HoverHere
    BY HoverInvParts
  <1>1. \A m : Hover!PathOf(m)' = Hover!PathOf(m)
    BY DEF Hover!PathOf
  <1>2. ASSUME NEW n \in nodes \cup {"none"}, leaving.cursor \in Hover!PathOf(n) \cup {"none"}
        PROVE  HoverParent[leaving.cursor] \in Hover!PathOf(n) \cup {"none"}
    <2>1. leaving.cursor \in nodes /\ "none" \notin nodes
      BY <1>p, HoverPathOfNobody DEF Hover!Cursor
    <2>2. n \in nodes /\ n \in HoverNodes /\ Hover!PathOf(n) = Hover!Path[n]
          /\ leaving.cursor \in Hover!Path[n]
      BY <1>2, <2>1, <1>p, HoverPathOfNobody DEF Hover!PathOf, HoverRanges
    <2> QED
      BY <2>2, HoverPathCloses DEF Hover!UpClosed
  <1>3. target \in nodes \cup {"none"}
    BY <1>p DEF HoverRanges
  <1>4. leaving # Hover!None
    BY DEF Hover!Running
  <1> QED
    BY <1>1, <1>2, <1>3, <1>4, <1>p, HoverMovesUp DEF HoverHere

LEMMA HoverSkipKeeps == ASSUME Hover!HoverAssumption, HoverIInv, Hover!Skip PROVE HoverIInv'
  <1>p. HoverRanges /\ HoverHeard /\ HoverHere
    BY HoverInvParts
  <1>u. /\ UNCHANGED <<nodes, target, pending, mode, observing, removing, told, wanted, cut,
                       throws>>
        /\ Hover!Running /\ Hover!Cursor \in nodes /\ Hover!Moved(HoverParent[Hover!Cursor])
        /\ leaving.phase \in {"leave", "enter"} /\ Hover!Shared
    BY DEF Hover!Skip
  <1>1. told' \subseteq HoverNodes /\ observing' \in BOOLEAN
    BY <1>u, <1>p DEF HoverRanges
  <1>2. HoverHere'
    BY <1>u, HoverStaysHere
  <1>3. HoverHeard'
    <2> SUFFICES ASSUME ~cut PROVE HoverHeard'
      BY <1>u DEF HoverHeard
    <2>1. \A m : Hover!PathOf(m)' = Hover!PathOf(m)
      BY <1>u DEF Hover!PathOf
    <2>2. leaving # Hover!None
      BY <1>u DEF Hover!Running
    <2>3. CASE leaving.phase = "leave"
      <3>1. leaving.cursor \in Hover!PathOf(leaving.previous)
        BY <2>2, <2>3, <1>u, <1>p, HoverPathOfNobody DEF HoverHere, Hover!Cursor
      <3>2. leaving.cursor \in Hover!PathOf(leaving.next)
        BY <2>3, <1>u DEF Hover!Shared, Hover!OtherEnd, Hover!Cursor
      <3>3. told = HoverBoth \cup Hover!PathOf(leaving.cursor)
        BY <2>2, <2>3, <1>p DEF HoverHeard
      <3>4. told = HoverBoth \cup Hover!PathOf(HoverParent[leaving.cursor])
        BY <3>1, <3>2, <3>3, <1>u, HoverMovesUp DEF HoverBoth
      <3> QED
        BY <3>4, <2>1, <2>3, <1>u, HoverMovesUp DEF HoverHeard, HoverBoth
    <2>4. CASE leaving.phase = "enter"
      <3>1. leaving.cursor \in Hover!PathOf(leaving.next)
        BY <2>2, <2>4, <1>u, <1>p, HoverPathOfNobody DEF HoverHere, Hover!Cursor
      <3>2. leaving.cursor \in Hover!PathOf(leaving.previous)
        BY <2>4, <1>u DEF Hover!Shared, Hover!OtherEnd, Hover!Cursor
      <3>3. told = HoverBoth \cup (Hover!PathOf(leaving.next) \ Hover!PathOf(leaving.cursor))
        BY <2>2, <2>4, <1>p DEF HoverHeard
      <3>4. told = HoverBoth
            \cup (Hover!PathOf(leaving.next) \ Hover!PathOf(HoverParent[leaving.cursor]))
        BY <3>1, <3>2, <3>3, <1>u, HoverMovesUp DEF HoverBoth
      <3> QED
        BY <3>4, <2>1, <2>4, <1>u, HoverMovesUp DEF HoverHeard, HoverBoth
    <2> QED
      BY <2>3, <2>4, <1>u
  <1> QED
    BY <1>u, <1>1, <1>2, <1>3, HoverMovesUp, HoverWalked

LEMMA HoverTellKeeps == ASSUME Hover!HoverAssumption, HoverIInv, Hover!Tell
                        PROVE  HoverIInv' /\ (~cut => told' # told)
  <1>p. HoverRanges /\ HoverUpward /\ HoverHeard /\ HoverHere
    BY HoverInvParts
  <1>u. /\ UNCHANGED <<nodes, target, pending, mode, removing, wanted, cut, throws>>
        /\ Hover!Running /\ Hover!Cursor \in nodes /\ Hover!Moved(HoverParent[Hover!Cursor])
        /\ leaving.phase \in {"leave", "enter"} /\ ~Hover!Shared
        /\ told' = IF leaving.phase = "leave" THEN told \ {leaving.cursor}
                                              ELSE told \cup {leaving.cursor}
        /\ observing' = TRUE
    BY DEF Hover!Tell, Hover!Cursor
  <1>1. told' \subseteq HoverNodes /\ observing' \in BOOLEAN
    BY <1>u, <1>p DEF HoverRanges, Hover!Cursor
  <1>2. HoverHere'
    BY <1>u, HoverStaysHere
  <1>3. HoverHeard' /\ (~cut => told' # told)
    <2> SUFFICES ASSUME ~cut PROVE HoverHeard' /\ told' # told
      BY <1>u DEF HoverHeard
    <2>1. \A m : Hover!PathOf(m)' = Hover!PathOf(m)
      BY <1>u DEF Hover!PathOf
    <2>2. leaving # Hover!None
      BY <1>u DEF Hover!Running
    <2>3. CASE leaving.phase = "leave"
      <3>1. leaving.cursor \notin Hover!PathOf(leaving.next)
        BY <2>3, <1>u DEF Hover!Shared, Hover!OtherEnd, Hover!Cursor
      <3>2. told = HoverBoth \cup Hover!PathOf(leaving.cursor)
        BY <2>2, <2>3, <1>p DEF HoverHeard
      <3>3. told' = HoverBoth \cup Hover!PathOf(HoverParent[leaving.cursor]) /\ told' # told
        BY <3>1, <3>2, <2>3, <1>u, HoverMovesUp DEF HoverBoth
      <3> QED
        BY <3>3, <2>1, <2>3, <1>u, HoverMovesUp DEF HoverHeard, HoverBoth
    <2>4. CASE leaving.phase = "enter"
      <3>1. leaving.cursor \in Hover!PathOf(leaving.next)
        BY <2>2, <2>4, <1>u, <1>p, HoverPathOfNobody DEF HoverHere, Hover!Cursor
      <3>2. leaving.cursor \notin Hover!PathOf(leaving.previous)
        BY <2>4, <1>u DEF Hover!Shared, Hover!OtherEnd, Hover!Cursor
      <3>3. told = HoverBoth \cup (Hover!PathOf(leaving.next) \ Hover!PathOf(leaving.cursor))
        BY <2>2, <2>4, <1>p DEF HoverHeard
      <3>4. /\ told' = HoverBoth
               \cup (Hover!PathOf(leaving.next) \ Hover!PathOf(HoverParent[leaving.cursor]))
            /\ told' # told
        BY <3>1, <3>2, <3>3, <2>4, <1>u, HoverMovesUp DEF HoverBoth
      <3> QED
        BY <3>4, <2>1, <2>4, <1>u, HoverMovesUp DEF HoverHeard, HoverBoth
    <2> QED
      BY <2>3, <2>4, <1>u
  <1> QED
    BY <1>u, <1>1, <1>2, <1>3, HoverMovesUp, HoverWalked

LEMMA HoverSendLeaveKeeps ==
    ASSUME Hover!HoverAssumption, HoverIInv, Hover!SendLeave
    PROVE  HoverIInv'
  <1>p. HoverRanges /\ HoverHeard
    BY HoverInvParts
  <1>u. /\ UNCHANGED <<nodes, target, pending, mode, removing, told, wanted, cut, throws>>
        /\ Hover!Running /\ Hover!Cursor \in nodes /\ Hover!Moved(HoverParent[Hover!Cursor])
        /\ leaving.phase = "input" /\ observing' = TRUE
    BY DEF Hover!SendLeave
  <1>1. told' \subseteq HoverNodes /\ observing' \in BOOLEAN
    BY <1>u, <1>p DEF HoverRanges
  <1>2. HoverHere'
    BY <1>u, HoverStaysHere
  <1>3. HoverHeard'
    <2>1. Hover!PathOf(target)' = Hover!PathOf(target)
      BY <1>u DEF Hover!PathOf
    <2>2. leaving # Hover!None
      BY <1>u DEF Hover!Running
    <2> QED
      BY <2>1, <2>2, <1>u, <1>p, HoverMovesUp DEF HoverHeard
  <1> QED
    BY <1>u, <1>1, <1>2, <1>3, HoverMovesUp, HoverWalked

LEMMA HoverReturnKeeps == ASSUME HoverIInv, Hover!Return PROVE HoverIInv'
  <1>p. HoverRanges /\ HoverUpward /\ HoverWorking /\ HoverLatest /\ HoverLeaving /\ HoverHere
        /\ HoverHeard
    BY HoverInvParts
  <1>u. ~observing' /\ UNCHANGED <<nodes, target, leaving, pending, mode, removing, told, wanted,
                                   cut, throws>>
    BY DEF Hover!Return
  <1>1. HoverRanges' /\ HoverUpward'
    BY <1>p, <1>u DEF HoverRanges, HoverUpward, Hover!Return
  <1>2. HoverWorking' /\ HoverLatest'
    BY <1>p, <1>u DEF HoverWorking, HoverLatest
  <1>3. HoverLeaving'
    BY <1>p, <1>u DEF HoverLeaving, Hover!Subtree
  <1>4. HoverHere' /\ HoverHeard'
    BY <1>p, <1>u, HoverKept
  <1> QED
    BY <1>1, <1>2, <1>3, <1>4 DEF HoverIInv

LEMMA HoverThrowKeeps == ASSUME Hover!HoverAssumption, HoverIInv, Hover!Throw PROVE HoverIInv'
  <1>p. HoverRanges /\ HoverUpward /\ HoverWorking /\ HoverLatest /\ HoverLeaving /\ HoverHere
        /\ HoverHeard
    BY HoverInvParts
  <1>u. /\ throws < HoverThrows /\ throws' = throws + 1
        /\ ~observing' /\ observing' \in BOOLEAN /\ mode' = "rest" /\ removing' = "none"
        /\ UNCHANGED <<nodes, target, leaving, pending, told, wanted, cut>>
    BY DEF Hover!Throw
  <1>1. throws' \in 0..HoverThrows
    BY <1>u, <1>p DEF HoverRanges, Hover!HoverAssumption
  <1>2. HoverRanges'
    BY <1>1, <1>p, <1>u DEF HoverRanges, HoverEnds
  <1>3. HoverUpward' /\ HoverWorking' /\ HoverLeaving'
    BY <1>p, <1>u DEF HoverUpward, HoverWorking, HoverLeaving
  <1>4. HoverLatest'
    BY <1>p, <1>u DEF HoverLatest
  <1>5. HoverHere' /\ HoverHeard'
    BY <1>p, <1>u, HoverKept
  <1> QED
    BY <1>2, <1>3, <1>4, <1>5 DEF HoverIInv

LEMMA HoverRemoveKeeps ==
    ASSUME Hover!HoverAssumption, HoverIInv, NEW r \in HoverNodes, Hover!Remove(r)
    PROVE  HoverIInv'
  <1>p. HoverRanges /\ HoverUpward /\ HoverWorking /\ HoverLatest /\ HoverLeaving /\ HoverHere
        /\ HoverHeard
    BY HoverInvParts
  <1>u. /\ mode = "rest" /\ removing = "none" /\ removing' = r
        /\ UNCHANGED <<nodes, observing, told, cut, throws>>
    BY DEF Hover!Remove
  <1>s. Hover!Subtree(removing)' = Hover!Subtree(r) /\ "none" \notin Hover!Subtree(r)
    BY <1>u DEF Hover!Subtree, Hover!HoverAssumption
  <1>r. r \in HoverEnds /\ ~observing
    BY <1>u, <1>p DEF HoverEnds, HoverWorking, HoverRanges
  <1>1. CASE target \in Hover!Subtree(r)
    <2>1. Hover!Request("none")
      BY <1>1 DEF Hover!Remove
    <2>2. /\ leaving' = Hover!None \/ leaving' \in HoverRecords
          /\ target' \in nodes \cup {"none"}
          /\ pending' = Hover!None \/ pending' \in [next : HoverEnds]
          /\ mode' \in {"rest", "serve", "drain"}
          /\ wanted' = "none"
          /\ mode' # "rest" => leaving' # Hover!None
          /\ pending' = Hover!None => target' = "none"
          /\ pending' # Hover!None => pending'.next = "none"
          /\ target' = "none" \/ (mode' = "serve" /\ pending' # Hover!None)
          /\ HoverHere' /\ HoverHeard'
      BY <2>1, <1>u, HoverRequested
    <2>3. HoverRanges'
      BY <2>2, <1>p, <1>u, <1>r DEF HoverRanges, HoverEnds
    <2>4. HoverUpward' /\ HoverWorking'
      BY <2>2, <1>p, <1>u, <1>r DEF HoverUpward, HoverWorking
    <2>5. HoverLatest'
      BY <2>2, <1>u DEF HoverLatest
    <2>6. HoverLeaving'
      BY <2>2, <1>s DEF HoverLeaving
    <2> QED
      BY <2>2, <2>3, <2>4, <2>5, <2>6 DEF HoverIInv
  <1>2. CASE target \notin Hover!Subtree(r)
    <2>1. UNCHANGED <<target, leaving, pending, mode, wanted>>
      BY <1>2 DEF Hover!Remove
    <2>2. HoverRanges' /\ HoverUpward'
      BY <2>1, <1>p, <1>u, <1>r DEF HoverRanges, HoverUpward
    <2>3. HoverWorking' /\ HoverLatest'
      BY <2>1, <1>p, <1>u DEF HoverWorking, HoverLatest
    <2>4. HoverLeaving'
      BY <2>1, <1>2, <1>u, <1>s DEF HoverLeaving
    <2>5. HoverHere' /\ HoverHeard'
      BY <2>1, <1>p, <1>u, HoverKept
    <2> QED
      BY <2>2, <2>3, <2>4, <2>5 DEF HoverIInv
  <1> QED
    BY <1>1, <1>2

LEMMA HoverRemovedKeeps == ASSUME Hover!HoverAssumption, HoverIInv, Hover!Removed PROVE HoverIInv'
  <1>p. HoverRanges /\ HoverUpward /\ HoverWorking /\ HoverLatest /\ HoverLeaving /\ HoverHere
        /\ HoverHeard
    BY HoverInvParts
  <1>u. /\ removing # "none" /\ mode = "rest" /\ removing' = "none"
        /\ nodes' = nodes \ Hover!Subtree(removing) /\ told' = told \ Hover!Subtree(removing)
        /\ cut' = (cut \/ leaving # Hover!None)
        /\ UNCHANGED <<target, leaving, pending, mode, observing, wanted, throws>>
    BY DEF Hover!Removed
  <1>t. target \in nodes' \cup {"none"}
    BY <1>u, <1>p DEF HoverLeaving, HoverRanges
  <1>1. HoverRanges'
    <2>1. cut' \in BOOLEAN /\ told' \subseteq HoverNodes /\ nodes' \subseteq HoverNodes
          /\ removing' \in HoverEnds
      BY <1>u, <1>p DEF HoverRanges, HoverEnds
    <2> QED
      BY <2>1, <1>t, <1>u, <1>p DEF HoverRanges
  <1>2. HoverUpward'
    <2> SUFFICES ASSUME NEW n \in nodes', NEW m \in Hover!Path[n] PROVE m \in nodes'
      BY DEF HoverUpward
    <2>1. n \in nodes /\ n \notin Hover!Subtree(removing) /\ n \in HoverNodes /\ m \in nodes
          /\ m \in HoverNodes
      BY <1>u, <1>p DEF HoverUpward, HoverRanges
    <2>2. Hover!Path[m] \subseteq Hover!Path[n]
      BY <2>1, HoverPathUp
    <2> QED
      BY <2>1, <2>2, <1>u DEF Hover!Subtree
  <1>3. HoverWorking' /\ HoverLeaving'
    BY <1>p, <1>u DEF HoverWorking, HoverLeaving
  <1>4. HoverLatest'
    <2>1. target # "none" => target \in nodes /\ target \in nodes'
      BY <1>t, <1>u
    <2>2. nodes' \subseteq nodes /\ "none" \notin nodes
      BY <1>u, <1>p, HoverPathOfNobody
    <2> QED
      BY <2>1, <2>2, <1>u, <1>p DEF HoverLatest
  <1>5. HoverHere' /\ HoverHeard'
    <2> SUFFICES ASSUME ~cut' PROVE HoverHere' /\ HoverHeard'
      BY DEF HoverHere, HoverHeard
    <2>1. leaving = Hover!None /\ leaving' = Hover!None /\ ~cut
      BY <1>u, <1>p DEF HoverRanges
    <2>2. told = Hover!PathOf(target)
      BY <2>1, <1>p DEF HoverHeard
    <2>3. told' = Hover!PathOf(target)'
      <3>1. CASE target = "none"
        <4>1. Hover!PathOf(target) = {}
          BY <3>1, <1>p, HoverPathOfNobody
        <4>2. Hover!PathOf(target)' = {}
          BY <3>1, <1>u, <1>p, HoverPathOfNobody DEF Hover!PathOf
        <4> QED
          BY <4>1, <4>2, <2>2, <1>u
      <3>2. CASE target # "none"
        <4>1. target \in nodes /\ target \in nodes' /\ target \in HoverNodes
          BY <3>2, <1>t, <1>u, <1>p DEF HoverRanges
        <4>2. told = Hover!Path[target] /\ Hover!PathOf(target)' = Hover!Path[target]
          BY <4>1, <2>2, <1>u DEF Hover!PathOf
        <4>3. Hover!Path[target] \subseteq nodes'
          BY <4>1, <1>2, <1>u DEF HoverUpward
        <4> QED
          BY <4>2, <4>3, <1>u
      <3> QED
        BY <3>1, <3>2
    <2> QED
      BY <2>1, <2>3 DEF HoverHere, HoverHeard
  <1> QED
    BY <1>1, <1>2, <1>3, <1>4, <1>5 DEF HoverIInv

LEMMA HoverInvStep ==
    ASSUME Hover!HoverAssumption, HoverIInv, [Hover!Next]_(Hover!vars)
    PROVE  HoverIInv'
  <1>1. CASE UNCHANGED Hover!vars
    <2>1. \A m : Hover!PathOf(m)' = Hover!PathOf(m) /\ Hover!Subtree(m)' = Hover!Subtree(m)
      BY <1>1 DEF Hover!PathOf, Hover!Subtree, Hover!vars
    <2>p. HoverRanges /\ HoverUpward /\ HoverWorking /\ HoverLatest /\ HoverLeaving
          /\ HoverHere /\ HoverHeard
      BY HoverInvParts
    <2>2. HoverRanges' /\ HoverUpward'
      BY <1>1, <2>p DEF HoverRanges, HoverUpward, Hover!vars
    <2>3. HoverWorking' /\ HoverLatest'
      BY <1>1, <2>p DEF HoverWorking, HoverLatest, Hover!vars
    <2>4. HoverLeaving'
      BY <1>1, <2>1, <2>p DEF HoverLeaving, Hover!vars
    <2>5. HoverHere' /\ HoverHeard'
      BY <1>1, <2>p, HoverKept DEF Hover!vars
    <2> QED
      BY <2>2, <2>3, <2>4, <2>5 DEF HoverIInv
  <1>2. CASE Hover!Next
    BY <1>2, HoverUpdateKeeps, HoverCheckpointKeeps, HoverPhaseEndsKeeps, HoverSkipKeeps,
       HoverTellKeeps, HoverSendLeaveKeeps, HoverCompleteKeeps, HoverRemovedKeeps, HoverReturnKeeps,
       HoverThrowKeeps, HoverRemoveKeeps DEF Hover!Next, Hover!Steps
  <1> QED
    BY <1>1, <1>2

LEMMA HoverInvSound ==
    ASSUME HoverIInv
    PROVE  Hover!TypeOK /\ Hover!TargetLives /\ Hover!ObserversAgree /\ Hover!LatestWins
  <1>p. HoverRanges /\ HoverLatest /\ HoverHeard
    BY HoverInvParts
  <1>1. Hover!TypeOK
    BY <1>p DEF Hover!TypeOK, HoverRanges, HoverRecords, HoverEnds, Hover!Cursor
  <1>2. Hover!TargetLives /\ Hover!ObserversAgree
    BY <1>p DEF Hover!TargetLives, Hover!Targets, Hover!ObserversAgree, HoverRanges, HoverHeard
  <1>3. Hover!LatestWins
    BY <1>p DEF Hover!LatestWins, HoverLatest
  <1> QED
    BY <1>1, <1>2, <1>3

LEMMA HoverInvHolds == ASSUME Hover!HoverAssumption PROVE Hover!Spec => []HoverIInv
  <1>1. Hover!Init => HoverIInv
    BY HoverInitially
  <1>2. HoverIInv /\ [Hover!Next]_(Hover!vars) => HoverIInv'
    BY HoverInvStep
  <1> QED
    BY <1>1, <1>2, PTL DEF Hover!Spec

\* Every reachable state has its type.
THEOREM HoverTyped == ASSUME Hover!HoverAssumption PROVE Hover!Spec => []Hover!TypeOK
  <1>1. HoverIInv => Hover!TypeOK
    BY HoverInvSound
  <1> QED
    BY <1>1, HoverInvHolds, PTL

\* No observer hears the same news twice: it is told "left" only after "entered", and
\* "entered" only after "left", whatever is asked for, removed or thrown in between.
THEOREM HoverNewsAlwaysAlternates ==
    ASSUME Hover!HoverAssumption
    PROVE  Hover!Spec => Hover!NewsAlternates
  <1>1. HoverIInv /\ [Hover!Next]_(Hover!vars) => [Hover!Tell /\ ~cut => told' # told]_(Hover!vars)
    BY HoverTellKeeps
  <1> QED
    BY <1>1, HoverInvHolds, PTL DEF Hover!Spec, Hover!NewsAlternates
-----------------------------------------------------------------------------
\* Seen from hover, every behaviour is one of HoverTransitions.
LEMMA HoverBehaves == Spec => Hover!Spec
  <1>1. Init => Hover!Init
    BY DEF Init
  <1>2. [Next]_vars => [Hover!Next]_(Hover!vars)
    <2> SUFFICES ASSUME [Next]_vars PROVE [Hover!Next]_(Hover!vars)
      OBVIOUS
    <2>1. CASE OfHover /\ Hover!Next
      BY <2>1
    <2>2. CASE UNCHANGED hoverVars
      BY <2>2 DEF hoverVars, Hover!vars
    <2> QED
      BY <2>1, <2>2 DEF Next, OfWindow, OfTree, OfDynamic, OfEdit, OfToast, OfDialog, vars
  <1> QED
    BY <1>1, <1>2, PTL DEF Spec, Hover!Spec

\* Hover points at no destroyed node, observers and target agree when nothing is
\* unfinished, and the last request is the one that counts, over any tree.
THEOREM HoverIsAlwaysSound == Spec => []HoverIsSound
  <1>1. HoverIInv => HoverIsSound
    BY HoverInvSound DEF HoverIsSound
  <1>2. Hover!HoverAssumption
    BY ConstantsAsAssumed
  <1> QED
    BY <1>1, <1>2, HoverBehaves, HoverInvHolds, PTL
=============================================================================
