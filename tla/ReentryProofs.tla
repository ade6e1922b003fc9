---------------------------- MODULE ReentryProofs ----------------------------
(***************************************************************************)
(* What DispatcherProofs, WindowCloseProofs and StateProofs say of their    *)
(* components, said of the behaviours that MCReentry checks, in which their *)
(* callbacks call them again: each component behaves in them as its own     *)
(* specification says, for the others leave it alone.                       *)
(***************************************************************************)
EXTENDS MCReentry, Integers, TLAPS

-----------------------------------------------------------------------------
(***************************************************************************)
(* The behaviours.                                                          *)
(***************************************************************************)

\* A behaviour is one of a single component.
LEMMA SubjectStays == [Next]_vars => UNCHANGED subject
  BY DEF Next, OfDispatcher, OfWindow, OfState, OfPointer, OfToast, OfDialog, OfRaster, vars

\* Seen from the State, every behaviour is one of ObservableState.
LEMMA StateBehaves == Spec => Observable!Spec
  <1>1. Init => Observable!Init
    BY DEF Init
  <1>2. [Next]_vars => [Observable!Next]_(Observable!vars)
    <2> SUFFICES ASSUME [Next]_vars PROVE [Observable!Next]_(Observable!vars)
      OBVIOUS
    <2>1. CASE UNCHANGED stateVars
      BY <2>1 DEF stateVars, Observable!vars, Observable!published, Observable!registry,
                  Observable!queued, Observable!history
    <2> QED
      BY <2>1 DEF Next, OfDispatcher, OfWindow, OfPointer, OfToast, OfDialog, OfRaster, vars
  <1> QED
    BY <1>1, <1>2, PTL DEF Spec, Observable!Spec

\* Seen from the window, every behaviour is one of WindowClose.
LEMMA WindowBehaves == Spec => Window!Spec
  <1>1. Init => Window!Init
    BY DEF Init
  <1>2. [Next]_vars => [Window!Next]_(Window!vars)
    <2> SUFFICES ASSUME [Next]_vars PROVE [Window!Next]_(Window!vars)
      OBVIOUS
    <2>1. CASE UNCHANGED windowVars
      BY <2>1 DEF windowVars, Window!vars, Window!posts, Window!ghosts
    <2> QED
      BY <2>1 DEF Next, OfDispatcher, OfState, OfPointer, OfToast, OfDialog, OfRaster, vars
  <1> QED
    BY <1>1, <1>2, PTL DEF Spec, Window!Spec

\* Seen from the dispatcher, those that are not about its timers are behaviours
\* of the one whose tasks pump, and those that are of the one with batches.
LEMMA DispatcherBehaves ==
    /\ Spec /\ subject = "timers" => Batched!Spec
    /\ Spec /\ ~(subject = "timers") => Pumped!Spec
  <1>1. Init => Pumped!Init /\ Batched!Init
    BY DEF Init, Pumped!Init, Batched!Init, Pumped!NewDispatcherState,
           Batched!NewDispatcherState, Pumped!Threads, Batched!Threads, Pumped!NoCall,
           Batched!NoCall
  <1>2. /\ subject = "timers" /\ [Next]_vars
           => [Batched!Next]_(Batched!vars) /\ (subject = "timers")'
        /\ ~(subject = "timers") /\ [Next]_vars
           => [Pumped!Next]_(Pumped!vars) /\ ~(subject = "timers")'
    <2> SUFFICES ASSUME [Next]_vars
                 PROVE  IF subject = "timers" THEN [Batched!Next]_(Batched!vars)
                                              ELSE [Pumped!Next]_(Pumped!vars)
      BY SubjectStays
    <2>1. CASE UNCHANGED dispatcherVars
      BY <2>1 DEF dispatcherVars, Pumped!vars, Batched!vars
    <2> QED
      BY <2>1 DEF Next, OfWindow, OfState, OfPointer, OfToast, OfDialog, OfRaster, vars
  <1> QED
    BY <1>1, <1>2, PTL DEF Spec, Pumped!Spec, Batched!Spec
-----------------------------------------------------------------------------
(***************************************************************************)
(* What is checked.                                                         *)
(***************************************************************************)

\* A State whose observers write it loses no write, leaves no observer out and
\* nothing over, whatever is called and thrown in the middle of a dispatch.
THEOREM StateIsAlwaysSound == Spec => []StateIsSound
  <1>1. Observable!StateAssumption
    BY ConstantsAsAssumed
  <1>2. /\ Observable!LatestWriteWins /\ Observable!PassInBounds
        /\ Observable!RestsClean /\ Observable!NobodyLeftOut
        => StateIsSound
    BY DEF StateIsSound
  <1> QED
    BY <1>1, <1>2, StateBehaves, Observable!LatestWriteAlwaysWins,
       Observable!PassAlwaysInBounds, Observable!AlwaysRestsClean,
       Observable!NobodyIsLeftOut, PTL

\* The loop sleeps past nothing, tasks start in their order, no timer fires after
\* its last time and the limits hold when tasks pump; a window whose callbacks
\* pump does not forget a close step, and does not wait while a close that the
\* application does not decide is under way.
THEOREM NestedPumpsAreAlwaysSafe == Spec => []NestedPumpsAreSafe
  <1>1. Window!CloseAssumption
    BY ConstantsAsAssumed
  <1>2. Spec /\ subject = "dispatcher" => [](subject = "dispatcher")
    <2>1. subject = "dispatcher" /\ [Next]_vars => (subject = "dispatcher")'
      BY SubjectStays
    <2> QED
      BY <2>1, PTL DEF Spec
  <1>3. Spec /\ ~(subject = "dispatcher") => []~(subject = "dispatcher")
    <2>1. ~(subject = "dispatcher") /\ [Next]_vars => ~(subject = "dispatcher")'
      BY SubjectStays
    <2> QED
      BY <2>1, PTL DEF Spec
  <1>4. Spec /\ ~(subject = "timers") => []~(subject = "timers")
    <2>1. ~(subject = "timers") /\ [Next]_vars => ~(subject = "timers")'
      BY SubjectStays
    <2> QED
      BY <2>1, PTL DEF Spec
  <1>5. subject = "dispatcher" => ~(subject = "timers")
    OBVIOUS
  <1>6. Pumped!Spec => /\ [](Pumped!TypeOK /\ Pumped!WakeInv) /\ []Pumped!NoOversleep
                       /\ []Pumped!QueueIsUnstartedSuffix
                       /\ []Pumped!FinalFiringIsFinal /\ []Pumped!LimitsHold
    <2>1. Pumped!Spec => [](Pumped!TypeOK /\ Pumped!WakeInv)
      BY Pumped!WakeAlwaysKept DEF Pumped!UserCode
    <2>2. Pumped!Spec => []Pumped!NoOversleep
      BY Pumped!NeverOversleeps DEF Pumped!UserCode
    <2>3. Pumped!Spec => []Pumped!QueueIsUnstartedSuffix
      BY Pumped!TasksRunInOrder DEF Pumped!UserCode
    <2>4. Pumped!Spec => []Pumped!FinalFiringIsFinal /\ []Pumped!LimitsHold
      BY Pumped!FinalFiringsAreFinal, Pumped!LimitsAlwaysHold DEF Pumped!UserCode
    <2> QED
      BY <2>1, <2>2, <2>3, <2>4
  <1>7. Batched!Spec => /\ [](Batched!TypeOK /\ Batched!WakeInv) /\ []Batched!NoOversleep
                        /\ []Batched!FinalFiringIsFinal /\ []Batched!LimitsHold
    <2>1. Batched!Spec => [](Batched!TypeOK /\ Batched!WakeInv)
      BY Batched!WakeAlwaysKept DEF Batched!UserCode
    <2>2. Batched!Spec => []Batched!NoOversleep
      BY Batched!NeverOversleeps DEF Batched!UserCode
    <2>3. Batched!Spec => []Batched!FinalFiringIsFinal /\ []Batched!LimitsHold
      BY Batched!FinalFiringsAreFinal, Batched!LimitsAlwaysHold DEF Batched!UserCode
    <2> QED
      BY <2>1, <2>2, <2>3
  <1>8. Window!NoSleepOnDurableClose
    BY DEF Window!NoSleepOnDurableClose, Window!CloseControlReady, Window!Asleep
  <1>9. Spec => []Window!PostedMeansQueued
    BY <1>1, WindowBehaves, Window!PostedAlwaysQueued
  <1> QED
    BY <1>2, <1>3, <1>4, <1>5, <1>6, <1>7, <1>8, <1>9, DispatcherBehaves, PTL
       DEF NestedPumpsAreSafe

\* The dispatcher is the bounded FIFO executor of TaskQueue also while its tasks
\* pump; observers hear what ObserverContract says, and a value does not change
\* under those who borrow it.
THEOREM ContractsAreImplemented == Spec => ImplementsContracts
  <1>1. Observable!StateAssumption
    BY ConstantsAsAssumed
  <1>2. Pumped!Spec => Pumped!ImplementsTaskQueue
    BY Pumped!DispatcherImplementsTaskQueue DEF Pumped!UserCode
  <1>3. Batched!Spec => Pumped!ImplementsTaskQueue
    <2>1. Batched!Spec => []Batched!TypeOK /\ Batched!ImplementsTaskQueue
      BY Batched!TypeCorrect, Batched!DispatcherImplementsTaskQueue DEF Batched!UserCode
    <2>2. Batched!Queue!QueueInit => Pumped!Queue!QueueInit
      BY DEF Batched!Queue!QueueInit, Pumped!Queue!QueueInit, Batched!LastAccepted,
             Pumped!LastAccepted
    <2>3. Batched!TypeOK /\ [Batched!Queue!QueueNext]_(Batched!Queue!queueVars)
             => [Pumped!Queue!QueueNext]_(Pumped!Queue!queueVars)
      <3> SUFFICES ASSUME Batched!TypeOK, [Batched!Queue!QueueNext]_(Batched!Queue!queueVars)
                   PROVE  [Pumped!Queue!QueueNext]_(Pumped!Queue!queueVars)
        OBVIOUS
      <3>1. /\ Batched!LastAccepted = Pumped!LastAccepted
            /\ Batched!LastAccepted' = Pumped!LastAccepted'
        BY DEF Batched!LastAccepted, Pumped!LastAccepted
      <3>2. Pumped!LastAccepted \in Int /\ started \in Int
        BY DEF Batched!TypeOK, Batched!DispatcherStates, Batched!Ids, Pumped!LastAccepted
      <3>3. CASE Batched!Queue!Accept
        BY <3>1, <3>2, <3>3 DEF Batched!Queue!Accept, Pumped!Queue!Accept, Pumped!Queue!QueueNext
      <3>4. CASE Batched!Queue!StartNext
        BY <3>1, <3>4 DEF Batched!Queue!StartNext, Pumped!Queue!StartNext,
                          Pumped!Queue!QueueNext
      <3>5. CASE Batched!Queue!Close
        BY <3>1, <3>5 DEF Batched!Queue!Close, Pumped!Queue!Close, Pumped!Queue!QueueNext
      <3>6. CASE UNCHANGED Batched!Queue!queueVars
        BY <3>1, <3>6 DEF Batched!Queue!queueVars, Pumped!Queue!queueVars
      <3> QED
        BY <3>3, <3>4, <3>5, <3>6 DEF Batched!Queue!QueueNext
    <2> QED
      BY <2>1, <2>2, <2>3, PTL DEF Batched!ImplementsTaskQueue, Pumped!ImplementsTaskQueue,
                                   Batched!Queue!QueueSpec, Pumped!Queue!QueueSpec
  <1>4. Observable!Spec => Observable!StableBorrow /\ Observable!ImplementsObserverContract
    BY <1>1, Observable!BorrowIsStable, Observable!StateImplementsContract
  <1> QED
    BY <1>2, <1>3, <1>4, DispatcherBehaves, StateBehaves, PTL DEF ImplementsContracts
=============================================================================
