------------------------------ MODULE MCProgress ------------------------------
(***************************************************************************)
(* One TLC run for the components whose work must come to an end: a window  *)
(* that closes, a tree that mounts, structural changes, hover transitions,  *)
(* edit interactions, messages and dialogs.                                 *)
(*                                                                          *)
(* A behaviour is one of a single component, the subject; the others stay   *)
(* in their initial states, in which their properties hold and go on        *)
(* holding.                                                                 *)
(***************************************************************************)
EXTENDS Naturals, Sequences

CONSTANTS
    TreeSize,      \* the nodes of the tree that is mounted
    TreeMounts,    \* bound: its calls of mount that begin
    EditValues,    \* the values of the State that is edited
    HoverParent,   \* the nodes over which the pointer moves: each one's parent, or "none"
    HoverThrows    \* bound: exceptions of their observers

VARIABLES
    subject,
    \* WindowClose
    closePhase, requestPosted, completionPosted, windowAlive, tasks, wake, pumps, asked, notices,
    \* TreeLifecycle
    life, mounted, active, transition, dispatcher, live, lifetime, made, held, stale, operations, mounts,
    \* DynamicComposition
    desired, keys, records, identities, composed, registry, repair, dirty, retryAll, moved,
    flush, passes, queue, plan, todo, calling, failed, changes, faults,
    \* HoverTransitions
    nodes, target, leaving, pending, mode, observing, removing, told, wanted, cut, throws,
    \* EditSession
    editing, terminal, sessionAlive, callback, rest, previous, value, valid, busy, heard, spoiled,
    \* Toasts
    toast, view, publishing, refused, flips, started, expired, lived,
    \* Dialogs
    ctl, slot, nextGeneration, waiting, entries, overlays, marked, ended, closing, thrown, first, calls

windowVars == <<closePhase, requestPosted, completionPosted, windowAlive, tasks, wake, pumps, asked, notices>>
treeVars   == <<life, mounted, active, transition, dispatcher, live, lifetime, made, held, stale,
                operations, mounts>>
dynamicVars == <<desired, keys, records, identities, composed, registry, repair, dirty, retryAll,
                 moved, flush, passes, queue, plan, todo, calling, failed, changes, faults>>
hoverVars  == <<nodes, target, leaving, pending, mode, observing, removing, told, wanted, cut, throws>>
editVars   == <<editing, terminal, sessionAlive, callback, rest, previous, value, valid, busy, heard, spoiled>>

toastVars  == <<toast, view, publishing, refused, flips, started, expired, lived>>
dialogVars == <<ctl, slot, nextGeneration, waiting, entries, overlays, marked, ended, closing,
                thrown, first, calls>>

vars == <<subject, windowVars, treeVars, dynamicVars, hoverVars, editVars, toastVars, dialogVars>>
-----------------------------------------------------------------------------
Window == INSTANCE WindowCloseProofs WITH
    QueueMax <- 4, CheckpointMax <- 2, AppOwned <- TRUE, UserThrows <- FALSE,
    NestedFrom <- {}, MaxPumps <- 1,
    phase <- closePhase, request_posted <- requestPosted, completion_posted <- completionPosted,
    alive <- windowAlive, stack <- pumps

Tree == INSTANCE TreeLifecycle WITH
    N <- TreeSize, MaxMounts <- TreeMounts, stack <- operations

\* Three changes, of which one pass fails; two changes, and a pass whose
\* recovery fails too.
Dynamic == INSTANCE DynamicComposition WITH
    Active <- TRUE, MaxPasses <- 2, MaxChanges <- 3, MaxFaults <- 1,
    live <- identities, life <- composed, phase <- flush

Failing == INSTANCE DynamicComposition WITH
    Active <- TRUE, MaxPasses <- 2, MaxChanges <- 2, MaxFaults <- 2,
    live <- identities, life <- composed, phase <- flush

\* A root, left and right below it, and a leaf below left.
FourNodes == [n \in {"root", "left", "leaf", "right"} |->
                  CASE n = "root" -> "none" [] n = "leaf" -> "left" [] OTHER -> "root"]

HoverNodes == DOMAIN HoverParent

Hover == INSTANCE HoverTransitions WITH
    Nodes <- HoverNodes, ParentOf <- HoverParent, NoNode <- "none", MaxThrows <- HoverThrows,
    transition <- leaving, calling <- observing

Edit == INSTANCE EditSession WITH
    Values <- EditValues,
    active <- editing, alive <- sessionAlive, phase <- callback

\* One message, over which the pointer goes back and forth.
Toast == INSTANCE Toasts WITH
    Ids <- {1}, Capacity <- 2, Duration <- 1, MaxStack <- 2, MaxFaults <- 1, MaxFlips <- 1,
    s <- toast, ui <- view, stack <- publishing, faults <- refused

\* One controller that shows two dialogs.
Dialog == INSTANCE Dialogs WITH
    Dialogs <- {"a"}, MaxGen <- 2, MaxStack <- 2, MaxFaults <- 1, Reentrant <- FALSE,
    next <- nextGeneration, pending <- waiting, mounted <- overlays, dirty <- marked,
    stack <- closing, faults <- thrown

ASSUME ConstantsAsAssumed ==
    /\ Window!CloseAssumption /\ Tree!TreeAssumption
    /\ Dynamic!DynamicAssumption /\ Failing!DynamicAssumption /\ Hover!HoverAssumption
    /\ Toast!ToastAssumption /\ Dialog!DialogAssumption
-----------------------------------------------------------------------------
Init ==
    /\ subject \in {"window", "tree", "dynamic", "failing", "hover", "edit", "toast", "dialog"}
    /\ Window!Init /\ Tree!Init /\ Dynamic!Init /\ Hover!Init /\ Edit!Init
    /\ Toast!Init /\ Dialog!Init
    /\ subject # "edit" => value = CHOOSE v \in EditValues : TRUE   \* no need for all of the others' initial states

OfWindow == /\ subject = "window"
            /\ UNCHANGED <<subject, treeVars, dynamicVars, hoverVars, editVars, toastVars, dialogVars>>
OfTree == /\ subject = "tree"
          /\ UNCHANGED <<subject, windowVars, dynamicVars, hoverVars, editVars, toastVars, dialogVars>>
OfDynamic == /\ subject \in {"dynamic", "failing"}
             /\ UNCHANGED <<subject, windowVars, treeVars, hoverVars, editVars, toastVars, dialogVars>>
OfHover == /\ subject = "hover"
           /\ UNCHANGED <<subject, windowVars, treeVars, dynamicVars, editVars, toastVars, dialogVars>>
OfEdit == /\ subject = "edit"
          /\ UNCHANGED <<subject, windowVars, treeVars, dynamicVars, hoverVars, toastVars, dialogVars>>
OfToast == /\ subject = "toast"
           /\ UNCHANGED <<subject, windowVars, treeVars, dynamicVars, hoverVars, editVars, dialogVars>>
OfDialog == /\ subject = "dialog"
            /\ UNCHANGED <<subject, windowVars, treeVars, dynamicVars, hoverVars, editVars, toastVars>>

Next ==
    \/ OfWindow /\ Window!Next
    \/ OfTree /\ Tree!Next
    \/ subject = "dynamic" /\ OfDynamic /\ Dynamic!Next
    \/ subject = "failing" /\ OfDynamic /\ Failing!Next
    \/ OfHover /\ Hover!Next
    \/ OfEdit /\ Edit!Next
    \/ OfToast /\ Toast!Next
    \/ OfDialog /\ Dialog!Next

\* The fairness of each component.  One subject runs, so that fairness of the
\* disjunction is fairness of the subject's disjunct.
Fairness ==
    /\ WF_vars(\/ OfWindow /\ Window!WaitEnds
               \/ OfTree /\ Tree!Steps
               \/ OfDynamic /\ Dynamic!Steps
               \/ OfHover /\ Hover!Steps
               \/ OfEdit /\ Edit!GoesOn
               \/ OfToast /\ Toast!Internal)
    /\ WF_vars(\/ OfWindow /\ (Window!Controls \/ Window!Complete)
               \/ OfDynamic /\ Dynamic!Checkpoint
               \/ OfHover /\ Hover!Checkpoint
               \/ OfEdit /\ Edit!StateBusyEnds)
    /\ WF_vars(\/ OfWindow /\ (\/ Window!RunUserTask \/ Window!RunRequestTask
                               \/ Window!RunCompletionTask \/ Window!TasksDone)
               \/ OfHover /\ Hover!Return)
    /\ SF_vars(\/ OfWindow /\ Window!VetoReturns
               \/ OfEdit /\ Edit!Returns
               \/ OfToast /\ publishing = <<>> /\ \E f \in toast.fired : Toast!Fire(f[1], f[2])
               \/ OfDialog /\ closing = <<>> /\ Dialog!Layout)
    /\ SF_vars(\/ OfWindow /\ pumps = <<>> /\ Window!PumpBegin
               \/ OfToast /\ Toast!Returns
               \/ OfDialog /\ Len(closing) = 1 /\ Dialog!Steps)
    /\ SF_vars(\/ OfWindow /\ Window!DispatchDone
               \/ OfToast /\ (Toast!Tick \/ Toast!Due(1))
               \/ OfDialog /\ Len(closing) = 2 /\ Dialog!Steps)
    /\ SF_vars(\/ OfWindow /\ Window!CallbackReturns
               \/ OfToast /\ view = "transition" /\ Toast!Transition
               \/ OfDialog /\ closing = <<>> /\ Dialog!Dispatch)
    /\ SF_vars(OfToast /\ publishing = <<>> /\ Toast!Available /\ Toast!RunTask)
    /\ SF_vars(OfToast /\ publishing = <<>> /\ Toast!Sync)

Spec == Init /\ [][Next]_vars /\ Fairness
-----------------------------------------------------------------------------
TypeOK ==
    CASE subject = "window"  -> Window!TypeOK
      [] subject = "tree"    -> Tree!TypeOK
      [] subject = "dynamic" -> Dynamic!TypeOK
      [] subject = "failing" -> Failing!TypeOK
      [] subject = "hover"   -> Hover!TypeOK
      [] subject = "edit"    -> Edit!TypeOK
      [] subject = "toast"   -> Toast!TypeOK
      [] subject = "dialog"  -> Dialog!TypeOK

\* A window that closes: a posted close step has its task in the Dispatcher, the
\* close completes after the callback that requested it has unwound, and the loop
\* does not fall asleep on a close that is undecided.
CloseIsSound ==
    subject = "window" =>
        /\ Window!PostedMeansQueued
        /\ Window!CompletionUnwound
        /\ Window!NoSleepOnDurableClose

\* A tree that mounts: an operation that failed has left none of its calls
\* behind, a component has the Dispatcher as long as it is active, and retained
\* callbacks of components that were torn down do nothing.
LifecycleIsSound ==
    subject = "tree" =>
        /\ Tree!FlagsTellTheTruth
        /\ Tree!DispatcherWhileActive
        /\ Tree!DeadCallbacks

\* A tree whose structure changes: between flushes exactly the components in the
\* tree are up, no change of what hosts observe is lost, and the focus registry
\* has no destroyed node.
CompositionIsSound ==
    subject \in {"dynamic", "failing"} =>
        /\ Dynamic!TreeIsUp
        /\ Dynamic!NoChangeLost
        /\ Dynamic!RegistryIsSafe

\* Hover: it points at no destroyed node, observers and target agree when nothing
\* is unfinished, and the last request is the one that counts.
HoverIsSound ==
    subject = "hover" =>
        /\ Hover!TargetLives
        /\ Hover!ObserversAgree
        /\ Hover!LatestWins

\* An edit interaction: nothing is pending in a session at rest, and the
\* interaction of a destroyed owner is over.
EditIsSound ==
    subject = "edit" =>
        /\ Edit!RestsSettled
        /\ Edit!DestroyedIsOver

\* Whatever is destroyed, thrown or called again, windows close, components are
\* called and edit callbacks notified as their contracts say.
ImplementsContracts ==
    /\ Window!ImplementsCloseContract
    /\ Tree!ImplementsLifecycle
    /\ Dynamic!ImplementsLifecycle
    /\ Edit!ImplementsEditContract

\* Children that stay hear nothing of the others' reconciliation, no hover
\* observer hears the same news twice, begin reports an interaction that can be
\* updated or none, the action of a message is called once, when the message is
\* gone, and the completion of a dialog when the next one may be shown.
NothingIsToldTwice ==
    /\ Dynamic!RetainedUndisturbed
    /\ Hover!NewsAlternates
    /\ Edit!BeginReportsTruth
    /\ Toast!ActionStartsOnce
    /\ Dialog!CompletionComesLast

\* Close requests are answered and accepted ones close the window, lifecycle
\* operations end, hosts show what they are asked for in the end, hover requests
\* are served, interactions asked to end do, messages leave and their actions are
\* called, and dialogs that wait for the end of a dispatch are closed.
\*
\* These are the leads-to properties of the modules, one formula for the i-th of
\* every component: RequestAnswered and AcceptedCloses of the window,
\* OperationsEnd, Converges, RequestsAreServed, RequestedIsNotified,
\* MessagesLeave and ActionsAreCalled, and WaitingCloseEnds.
Owed(i) ==
    CASE subject = "window"  -> closePhase = (IF i = 1 THEN "Requesting" ELSE "Pending")
      [] subject = "tree"    -> Tree!Under
      [] subject \in {"dynamic", "failing"} -> ~Dynamic!Converged
      [] subject = "hover"   -> Hover!Waiting
      [] subject = "edit"    -> Edit!Ending
      [] subject = "toast"   -> IF i = 1 THEN Toast!Counting(1) ELSE Toast!Pressed(1) \/ Toast!Empty
      [] subject = "dialog"  -> waiting.gen = i

Settled(i) ==
    CASE subject = "window" -> IF i = 1 THEN closePhase # "Requesting"
                               ELSE closePhase \in {"Closed", "Teardown"}
      [] subject = "edit"   -> ~editing
      [] subject = "dialog" -> slot # i
      [] OTHER              -> ~Owed(i)

WorkComesToAnEnd == \A i \in {1, 2} : Owed(i) ~> Settled(i)
=============================================================================
