----------------------------- MODULE StateProofs -----------------------------
(***************************************************************************)
(* Proofs about ObservableState, for every set of values, any number of     *)
(* observers, nested reads and writes, and any number of commits.  A write  *)
(* is where the code may have put it: in the pending slot, in the copy that *)
(* a dispatch took of it, before its condition, or in what the reads under  *)
(* way have set aside; the invariants say what all of these make of the     *)
(* latest one, and to whom a pass is still to come.                         *)
(***************************************************************************)
EXTENDS ObservableState, SequenceTheorems, WellFoundedInduction, TLAPS

-----------------------------------------------------------------------------
\* Writes that stand at a condition or are about to be published.
Preparing == dispatch.at \in {"condition", "commit"}

\* User code runs between two operations, in a condition, in an observer or in a
\* reader; reads happen in user code.
Placed ==
    /\ dispatch.depth = 0
    /\ dispatch.at \in {"loop", "commit", "pass"} => reads = <<>>
    /\ ~dispatching => pending = NoWrite /\ copied = NoIntent
    /\ Preparing => dispatch.prepared # NoWrite /\ dispatch.prepared.v # value
    /\ dispatch.at = "commit" => owner_alive

\* Without an intent there is no write, and nothing is left of a State that is gone.
Intents ==
    /\ copied.intent \/ copied = NoIntent
    /\ \A i \in DOMAIN reads : reads[i].pending.intent \/ reads[i].pending = NoIntent
    /\ ~owner_alive => /\ pending = NoWrite /\ copied = NoIntent /\ owed = {}
                       /\ \A i \in DOMAIN listeners : ~listeners[i].active

\* Slots are in the order of their ids, and dead ones wait for a dispatch to end.
Ordered ==
    /\ \A i, j \in DOMAIN listeners : i < j => listeners[i].id < listeners[j].id
    /\ \A i \in DOMAIN listeners : listeners[i].id < next_listener_id
    /\ Len(listeners) < next_listener_id
    /\ ~cleanup_needed => \A i \in DOMAIN listeners : listeners[i].active
    /\ ~dispatching => ~cleanup_needed

\* Those who are owed the value are those whose turn is still to come.
Turns ==
    /\ dispatch.pass_size <= Len(listeners)
    /\ dispatch.at \notin {"pass", "callback"} => owed = {} /\ dispatch.pass_size = 0
    /\ dispatch.at \in {"pass", "callback"} => owed = {listeners[i].id : i \in Due}
    /\ dispatch.at = "callback" => dispatch.index - 1 \in 1 .. dispatch.pass_size

\* Write w is the latest one, or leaves the value as it is.
Means(w, l) == IF w = NoWrite THEN l.v = value ELSE l = [n |-> w.n, v |-> w.v]

\* What the queue and the dispatch make of the latest write.
Queues(l) ==
    IF copied.intent THEN Means(copied.write, l)
    ELSE IF pending # NoWrite THEN Means(pending, l)
    ELSE IF Preparing THEN Means(dispatch.prepared, l)
    ELSE l.v = value

\* And a read in progress.
Reads(i, l) ==
    IF reads[i].pending.intent THEN Means(reads[i].pending.write, l)
    ELSE l = reads[i].before

Latest ==
    owner_alive =>
        /\ \A i \in DOMAIN reads : IF i = 1 THEN Queues(reads[i].before)
                                            ELSE Reads(i - 1, reads[i].before)
        /\ IF reads = <<>> THEN Queues(latest) ELSE Reads(Len(reads), latest)

\* What is written while a condition runs is newer than what it decides.
Newer ==
    /\ dispatch.prepared.n <= writes /\ pending.n <= writes /\ copied.write.n <= writes
    /\ \A i \in DOMAIN reads : reads[i].pending.write.n <= writes
    /\ Preparing =>
        /\ pending # NoWrite => pending.n > dispatch.prepared.n
        /\ copied.intent => copied.write.n > dispatch.prepared.n
        /\ \A i \in DOMAIN reads :
              reads[i].pending.intent => reads[i].pending.write.n > dispatch.prepared.n

IInv == TypeOK /\ Placed /\ Intents /\ Ordered /\ Turns

\* What is lost counts as long as no condition restores the value.
WInv == Latest /\ Newer
-----------------------------------------------------------------------------
(***************************************************************************)
(* What the operators do.                                                   *)
(***************************************************************************)
\* The sequence without its dead slots.
LEMMA CompactedOp ==
  ASSUME NEW slots \in Seq(Slots), NEW s \in Compacted(slots)
  PROVE  /\ s \in Seq(Slots) /\ Len(s) \in Nat /\ Len(s) <= Len(slots)
         /\ \A i \in DOMAIN s : s[i].active /\ \E j \in DOMAIN slots : s[i] = slots[j]
         /\ \A j \in DOMAIN slots : slots[j].active => \E i \in DOMAIN s : s[i] = slots[j]
         /\ \A i, j \in DOMAIN s : i < j => s[i].id < s[j].id
  <1> DEFINE kept == {t \in ToSet(slots) : t.active}
  <1>1. PICK n \in 0 .. Len(slots) : s \in [1 .. n -> kept]
    BY DEF Compacted
  <1>2. /\ kept \subseteq ToSet(s)
        /\ \A i, j \in DOMAIN s : i < j => s[i].id < s[j].id
    BY DEF Compacted
  <1>3. ToSet(slots) = {slots[j] : j \in DOMAIN slots} /\ ToSet(s) = {s[i] : i \in DOMAIN s}
    BY DEF ToSet
  <1>4. kept \subseteq Slots /\ Len(slots) \in Nat
    BY <1>3
  <1>5. s \in Seq(Slots) /\ Len(s) = n
    BY <1>1, <1>4
  <1> QED
    BY <1>1, <1>2, <1>3, <1>4, <1>5

\* A function over the positions is a sequence.
LEMMA IsSequence ==
  ASSUME NEW S, NEW n \in Nat, NEW f \in [1 .. n -> S]
  PROVE  f \in Seq(S) /\ Len(f) = n
  OBVIOUS

\* The ids of the slots that are active.
LEMMA ActiveIs ==
  /\ ActiveIds = {listeners[i].id : i \in {j \in DOMAIN listeners : listeners[j].active}}
  /\ ActiveIds' = {listeners'[i].id : i \in {j \in DOMAIN listeners' : listeners'[j].active}}
  BY DEF ActiveIds, ToSet

\* The end of a dispatch leaves the active slots, in their order, and no others.
LEMMA LeaveOp ==
  ASSUME TypeOK, Ordered, LeaveDispatch
  PROVE  /\ dispatch' = NotDispatching /\ cleanup_needed' = FALSE
         /\ UNCHANGED <<published, next_listener_id, owner_alive, reads, writes>>
         /\ listeners' \in Seq(Slots) /\ Ordered'
         /\ ActiveIds' = ActiveIds
         /\ \A i \in DOMAIN listeners' : \E j \in DOMAIN listeners : listeners'[i] = listeners[j]
  <1>1. /\ dispatch' = NotDispatching /\ cleanup_needed' = FALSE
        /\ UNCHANGED <<published, next_listener_id, owner_alive, reads, writes>>
        /\ ~dispatching'
    BY DEF LeaveDispatch, dispatching, NotDispatching
  <1>2. CASE cleanup_needed
    <2>1. listeners' \in Compacted(listeners) /\ listeners \in Seq(Slots)
      BY <1>2 DEF LeaveDispatch, TypeOK
    <2>2. /\ listeners' \in Seq(Slots) /\ Len(listeners') \in Nat
          /\ Len(listeners') <= Len(listeners)
          /\ \A i \in DOMAIN listeners' :
                listeners'[i].active /\ \E j \in DOMAIN listeners : listeners'[i] = listeners[j]
          /\ \A j \in DOMAIN listeners : listeners[j].active
                => \E i \in DOMAIN listeners' : listeners'[i] = listeners[j]
          /\ \A i, j \in DOMAIN listeners' : i < j => listeners'[i].id < listeners'[j].id
      BY <2>1, CompactedOp
    <2>3. ActiveIds' = ActiveIds
      BY <2>2, ActiveIs
    <2>4. Ordered'
      <3>1. \A i \in DOMAIN listeners' : listeners'[i].id < next_listener_id'
        BY <1>1, <2>2 DEF Ordered
      <3>2. Len(listeners') < next_listener_id'
        BY <1>1, <2>1, <2>2 DEF Ordered, TypeOK
      <3> QED
        BY <1>1, <2>2, <3>1, <3>2 DEF Ordered
    <2> QED
      BY <1>1, <2>2, <2>3, <2>4
  <1>3. CASE ~cleanup_needed
    <2>1. listeners' = listeners
      BY <1>3 DEF LeaveDispatch
    <2> QED
      BY <1>1, <1>3, <2>1, ActiveIs DEF Ordered, TypeOK
  <1> QED
    BY <1>2, <1>3

\* Slots that die stay where they are while a dispatch walks over them.
LEMMA CleanupOp ==
  ASSUME TypeOK, Ordered, NEW slots \in Seq(Slots), Cleanup(slots, TRUE),
         Len(slots) = Len(listeners), \A i \in DOMAIN slots : slots[i].id = listeners[i].id,
         UNCHANGED next_listener_id, dispatching' <=> dispatching
  PROVE  /\ listeners' \in Seq(Slots) /\ cleanup_needed' \in BOOLEAN /\ Ordered'
         /\ dispatching => listeners' = slots
         /\ ActiveIds' = {slots[i].id : i \in {j \in DOMAIN slots : slots[j].active}}
         /\ \A i \in DOMAIN listeners' : \E j \in DOMAIN slots : listeners'[i] = slots[j]
  <1>1. DOMAIN slots = DOMAIN listeners /\ Len(slots) \in Nat /\ next_listener_id \in Nat
    BY DEF TypeOK
  <1>2. CASE ~dispatching
    <2>1. listeners' \in Compacted(slots) /\ cleanup_needed' = FALSE
      BY <1>2 DEF Cleanup
    <2>2. /\ listeners' \in Seq(Slots) /\ Len(listeners') \in Nat /\ Len(listeners') <= Len(slots)
          /\ \A i \in DOMAIN listeners' :
                listeners'[i].active /\ \E j \in DOMAIN slots : listeners'[i] = slots[j]
          /\ \A j \in DOMAIN slots : slots[j].active
                => \E i \in DOMAIN listeners' : listeners'[i] = slots[j]
          /\ \A i, j \in DOMAIN listeners' : i < j => listeners'[i].id < listeners'[j].id
      BY <2>1, CompactedOp
    <2>3. ActiveIds' = {slots[i].id : i \in {j \in DOMAIN slots : slots[j].active}}
      BY <2>2, ActiveIs
    <2>4. Ordered'
      <3>1. \A i \in DOMAIN listeners' : listeners'[i].id < next_listener_id'
        BY <1>1, <2>2 DEF Ordered
      <3>2. Len(listeners') < next_listener_id'
        BY <1>1, <2>2 DEF Ordered
      <3> QED
        BY <1>2, <2>1, <2>2, <3>1, <3>2 DEF Ordered
    <2> QED
      BY <1>2, <2>1, <2>2, <2>3, <2>4
  <1>3. CASE dispatching
    <2>1. listeners' = slots /\ cleanup_needed' = TRUE
      BY <1>3 DEF Cleanup
    <2>2. Ordered'
      BY <1>1, <1>3, <2>1 DEF Ordered
    <2> QED
      BY <1>3, <2>1, <2>2, ActiveIs
  <1> QED
    BY <1>2, <1>3

\* A subscription that is reset.
LEMMA UnsubscribeOp ==
  ASSUME TypeOK, Ordered, NEW id \in Ids, Unsubscribe(id)
  PROVE  /\ listeners' \in Seq(Slots) /\ cleanup_needed' \in BOOLEAN /\ Ordered'
         /\ ActiveIds' = ActiveIds \ {id}
         /\ \A i \in DOMAIN listeners' : \E j \in DOMAIN listeners :
               /\ listeners'[i].id = listeners[j].id
               /\ listeners'[i].active => listeners[j].active
         /\ dispatching =>
               /\ Len(listeners') = Len(listeners) /\ DOMAIN listeners' = DOMAIN listeners
               /\ \A i \in DOMAIN listeners :
                     /\ listeners'[i].id = listeners[i].id
                     /\ listeners'[i].active <=> listeners[i].active /\ listeners[i].id # id
  <1> DEFINE slots == [i \in DOMAIN listeners |->
                          IF listeners[i].id = id THEN [listeners[i] EXCEPT !.active = FALSE]
                                                  ELSE listeners[i]]
  <1>1. listeners \in Seq(Slots) /\ UNCHANGED <<next_listener_id, dispatch>> /\ Cleanup(slots, TRUE)
    BY DEF TypeOK, Unsubscribe
  <1>2. /\ slots \in Seq(Slots) /\ Len(slots) = Len(listeners) /\ DOMAIN slots = DOMAIN listeners
        /\ \A i \in DOMAIN slots :
              /\ slots[i].id = listeners[i].id
              /\ slots[i].active <=> listeners[i].active /\ listeners[i].id # id
    <2>1. \A i \in DOMAIN listeners : listeners[i] \in Slots
      BY <1>1
    <2>2. DOMAIN slots = DOMAIN listeners
      OBVIOUS
    <2>3. ASSUME NEW i \in DOMAIN slots
          PROVE  /\ slots[i] \in Slots /\ slots[i].id = listeners[i].id
                 /\ slots[i].active <=> listeners[i].active /\ listeners[i].id # id
      BY <2>1, <2>3 DEF Slots
    <2>4. slots \in [DOMAIN listeners -> Slots]
      BY <2>3
    <2>5. DOMAIN listeners = 1 .. Len(listeners) /\ Len(listeners) \in Nat
      BY <1>1
    <2> HIDE DEF slots
    <2>6. slots \in Seq(Slots) /\ Len(slots) = Len(listeners)
      BY <2>4, <2>5, IsSequence
    <2> QED
      BY <2>2, <2>3, <2>6
  <1> HIDE DEF slots
  <1>3. dispatching' <=> dispatching
    BY <1>1 DEF dispatching
  <1>4. /\ listeners' \in Seq(Slots) /\ cleanup_needed' \in BOOLEAN /\ Ordered'
        /\ dispatching => listeners' = slots
        /\ ActiveIds' = {slots[i].id : i \in {j \in DOMAIN slots : slots[j].active}}
        /\ \A i \in DOMAIN listeners' : \E j \in DOMAIN slots : listeners'[i] = slots[j]
    BY <1>1, <1>2, <1>3, CleanupOp
  <1>5. ActiveIds' = ActiveIds \ {id}
    BY <1>2, <1>4, ActiveIs
  <1> QED
    BY <1>2, <1>4, <1>5

\* The end of the State.
LEMMA InvalidateOp ==
  ASSUME TypeOK, Ordered, Invalidate, dispatching' <=> dispatching
  PROVE  /\ owner_alive' = FALSE /\ pending' = NoWrite /\ copied' = NoIntent /\ owed' = {}
         /\ UNCHANGED <<published, next_listener_id, latest, writes>>
         /\ listeners' \in Seq(Slots) /\ cleanup_needed' \in BOOLEAN /\ Ordered'
         /\ ActiveIds' = {}
         /\ \A i \in DOMAIN listeners' : ~listeners'[i].active
         /\ dispatching => /\ Len(listeners') = Len(listeners) /\ DOMAIN listeners' = DOMAIN listeners
                           /\ \A i \in DOMAIN listeners : listeners'[i].id = listeners[i].id
  <1> DEFINE slots == [i \in DOMAIN listeners |-> [listeners[i] EXCEPT !.active = FALSE]]
  <1>1. /\ owner_alive' = FALSE /\ pending' = NoWrite /\ copied' = NoIntent /\ owed' = {}
        /\ UNCHANGED <<published, next_listener_id, latest, writes>>
        /\ Cleanup(slots, TRUE) /\ listeners \in Seq(Slots)
    BY DEF TypeOK, Invalidate
  <1>2. /\ slots \in Seq(Slots) /\ Len(slots) = Len(listeners) /\ DOMAIN slots = DOMAIN listeners
        /\ \A i \in DOMAIN slots : slots[i].id = listeners[i].id /\ ~slots[i].active
    <2>1. \A i \in DOMAIN listeners : listeners[i] \in Slots
      BY <1>1
    <2>2. DOMAIN slots = DOMAIN listeners
      OBVIOUS
    <2>3. ASSUME NEW i \in DOMAIN slots
          PROVE  slots[i] \in Slots /\ slots[i].id = listeners[i].id /\ ~slots[i].active
      BY <2>1, <2>3 DEF Slots
    <2>4. slots \in [DOMAIN listeners -> Slots]
      BY <2>3
    <2>5. DOMAIN listeners = 1 .. Len(listeners) /\ Len(listeners) \in Nat
      BY <1>1
    <2> HIDE DEF slots
    <2>6. slots \in Seq(Slots) /\ Len(slots) = Len(listeners)
      BY <2>4, <2>5, IsSequence
    <2> QED
      BY <2>2, <2>3, <2>6
  <1> HIDE DEF slots
  <1>3. /\ listeners' \in Seq(Slots) /\ cleanup_needed' \in BOOLEAN /\ Ordered'
        /\ dispatching => listeners' = slots
        /\ ActiveIds' = {slots[i].id : i \in {j \in DOMAIN slots : slots[j].active}}
        /\ \A i \in DOMAIN listeners' : \E j \in DOMAIN slots : listeners'[i] = slots[j]
    BY <1>1, <1>2, CleanupOp
  <1> QED
    BY <1>1, <1>2, <1>3

\* A subscription that is made.
LEMMA ObserveOp ==
  ASSUME StateAssumption, TypeOK, Ordered, Observe
  PROVE  /\ listeners' \in Seq(Slots) /\ next_listener_id' \in 1 .. MaxListeners + 1 /\ Ordered'
         /\ next_listener_id \in Ids /\ next_listener_id \notin ActiveIds
         /\ ActiveIds' = ActiveIds \cup {next_listener_id}
         /\ Len(listeners') = Len(listeners) + 1
         /\ \A i \in DOMAIN listeners : i \in DOMAIN listeners' /\ listeners'[i] = listeners[i]
  <1>1. /\ listeners \in Seq(Slots) /\ next_listener_id \in Ids /\ MaxListeners \in Nat
        /\ listeners' = Append(listeners, [id |-> next_listener_id, active |-> TRUE])
        /\ next_listener_id' = next_listener_id + 1
        /\ UNCHANGED <<cleanup_needed, dispatch>>
    BY DEF StateAssumption, TypeOK, Observe, Ids
  <1>2. /\ listeners' \in Seq(Slots) /\ Len(listeners') = Len(listeners) + 1
        /\ \A i \in DOMAIN listeners : i \in DOMAIN listeners' /\ listeners'[i] = listeners[i]
        /\ Len(listeners) \in Nat /\ DOMAIN listeners = 1 .. Len(listeners)
        /\ DOMAIN listeners' = 1 .. Len(listeners) + 1
        /\ listeners'[Len(listeners) + 1] = [id |-> next_listener_id, active |-> TRUE]
    BY <1>1 DEF Slots
  <1>3. next_listener_id \notin ActiveIds
    BY <1>1, ActiveIs DEF Ordered, Slots, Ids
  <1>4. ActiveIds' = ActiveIds \cup {next_listener_id}
    BY <1>2, ActiveIs
  <1>5. Ordered'
    <2>1. \A i, j \in DOMAIN listeners' : i < j => listeners'[i].id < listeners'[j].id
      BY <1>1, <1>2 DEF Ordered
    <2>2. \A i \in DOMAIN listeners' : listeners'[i].id < next_listener_id'
      <3>1. ASSUME NEW i \in DOMAIN listeners
            PROVE  listeners[i].id \in Nat
        <4>1. listeners[i] \in Slots
          BY <1>1, <3>1
        <4> QED
          BY <1>1, <4>1 DEF Slots, Ids
      <3>2. next_listener_id \in Nat /\ next_listener_id' \in Nat
        BY <1>1 DEF Ids
      <3> QED
        BY <1>1, <1>2, <3>1, <3>2 DEF Ordered
    <2>3. Len(listeners') < next_listener_id'
      BY <1>1, <1>2 DEF Ordered, Ids
    <2>4. ~cleanup_needed' => \A i \in DOMAIN listeners' : listeners'[i].active
      BY <1>1, <1>2 DEF Ordered
    <2>5. ~dispatching' => ~cleanup_needed'
      BY <1>1 DEF Ordered, dispatching
    <2> QED
      BY <2>1, <2>2, <2>3, <2>4, <2>5 DEF Ordered
  <1> QED
    BY <1>1, <1>2, <1>3, <1>4, <1>5 DEF Ids

\* A write: where it goes and what it says.
LEMMA SetOp ==
  ASSUME StateAssumption, TypeOK, Placed, NEW v \in Values, NEW conditional \in BOOLEAN,
         Set(v, conditional)
  PROVE  \E w \in Writes :
            /\ \/ w = NoWrite /\ v = value
               \/ w # NoWrite /\ v # value /\ w.v = v /\ w.n = writes + 1
            /\ writes' = writes + 1 /\ writes' \in 0 .. MaxWrites
            /\ latest' = [n |-> writes', v |-> v] /\ latest' \in LatestWrites
            /\ owner_alive /\ UNCHANGED <<published, registry, owed>>
            /\ \/ /\ reads # <<>>
                  /\ reads' \in Seq(Frames) /\ Len(reads') = Len(reads)
                  /\ \A i \in DOMAIN reads :
                        reads'[i] = IF i = Len(reads)
                                    THEN [pending |-> [intent |-> TRUE, write |-> w],
                                          before |-> reads[i].before]
                                    ELSE reads[i]
                  /\ UNCHANGED <<queued, dispatch>>
               \/ /\ reads = <<>> /\ dispatching
                  /\ copied' = NoIntent /\ pending' = w
                  /\ UNCHANGED <<dispatch, reads>>
               \/ /\ reads = <<>> /\ ~dispatching
                  /\ pending' = w
                  /\ dispatch' = IF w = NoWrite THEN dispatch ELSE Looping(0)
                  /\ UNCHANGED <<copied, reads>>
  <1> DEFINE made == [v |-> v, conditional |-> conditional, n |-> writes']
             w == IF v = value THEN NoWrite ELSE made
  <1>1. /\ writes' = writes + 1 /\ writes' \in 1 .. MaxWrites
        /\ latest' = [n |-> writes', v |-> v]
        /\ owner_alive /\ UNCHANGED <<published, registry, owed>>
        /\ Place(made, v = value)
    BY DEF StateAssumption, TypeOK, Set
  <1>2. made \in Write /\ made.v = v /\ made.n = writes + 1 /\ made # NoWrite
    <2>1. made \in Write /\ made.v = v /\ made.n = writes + 1
      BY <1>1 DEF Write
    <2>2. made.n # NoWrite.n
      BY <1>1, <2>1 DEF NoWrite
    <2> QED
      BY <2>1, <2>2
  <1>3. latest' \in LatestWrites /\ writes' \in 0 .. MaxWrites
    BY <1>1 DEF LatestWrites
  <1>4. w \in Writes
    BY <1>2 DEF Writes
  <1> HIDE DEF made
  <1>5. /\ w \in Writes
        /\ \/ w = NoWrite /\ v = value
           \/ w # NoWrite /\ v # value /\ w.v = v /\ w.n = writes + 1
    BY <1>2, <1>4
  <1>6. CASE reads # <<>>
    <2>1. /\ reads' = [reads EXCEPT ![Len(reads)].pending = [intent |-> TRUE, write |-> w]]
          /\ UNCHANGED <<queued, dispatch>>
      BY <1>1, <1>6 DEF Place
    <2>2. reads \in Seq(Frames) /\ Len(reads) \in Nat \ {0} /\ DOMAIN reads = 1 .. Len(reads)
      BY <1>6 DEF TypeOK
    <2>3. [intent |-> TRUE, write |-> w] \in Intent
      BY <1>5 DEF Intent
    <2> HIDE DEF w
    <2>4. ASSUME NEW i \in DOMAIN reads
          PROVE  /\ reads'[i] \in Frames
                 /\ reads'[i] = IF i = Len(reads)
                                THEN [pending |-> [intent |-> TRUE, write |-> w],
                                      before |-> reads[i].before]
                                ELSE reads[i]
      <3>1. reads[i] \in Frames
        BY <2>2, <2>4
      <3>2. CASE i = Len(reads)
        <4>1. reads'[i] = [reads[i] EXCEPT !.pending = [intent |-> TRUE, write |-> w]]
          BY <2>1, <2>2, <3>2
        <4> QED
          BY <2>3, <3>1, <3>2, <4>1 DEF Frames
      <3>3. CASE i # Len(reads)
        <4>1. reads'[i] = reads[i]
          BY <2>1, <2>2, <3>3
        <4> QED
          BY <3>1, <3>3, <4>1
      <3> QED
        BY <3>2, <3>3
    <2>5. reads' \in [1 .. Len(reads) -> Frames]
      BY <2>1, <2>2, <2>4
    <2>6. reads' \in Seq(Frames) /\ Len(reads') = Len(reads)
      BY <2>2, <2>5, IsSequence
    <2> QED
      BY <1>1, <1>3, <1>5, <1>6, <2>1, <2>4, <2>6
  <1>7. CASE reads = <<>> /\ dispatching
    <2>1. copied' = NoIntent /\ pending' = w /\ UNCHANGED <<dispatch, reads>>
      BY <1>1, <1>7 DEF Place
    <2> QED
      BY <1>1, <1>3, <1>5, <1>7, <2>1
  <1>8. CASE reads = <<>> /\ ~dispatching
    <2>1. /\ pending' = w /\ UNCHANGED <<copied, reads>>
          /\ dispatch' = IF w = NoWrite THEN dispatch ELSE Looping(0)
      BY <1>1, <1>2, <1>8 DEF Place, Placed
    <2> QED
      BY <1>1, <1>3, <1>5, <1>8, <2>1
  <1> QED
    BY <1>6, <1>7, <1>8

\* All the reads but the innermost.
LEMMA OuterReads ==
  ASSUME reads \in Seq(Frames), reads # <<>>
  PROVE  /\ Len(reads) \in Nat \ {0} /\ DOMAIN reads = 1 .. Len(reads)
         /\ Last(reads) = reads[Len(reads)] /\ Last(reads) \in Frames
         /\ Front(reads) \in Seq(Frames) /\ Len(Front(reads)) = Len(reads) - 1
         /\ DOMAIN Front(reads) = 1 .. Len(reads) - 1
         /\ \A i \in 1 .. Len(reads) - 1 : Front(reads)[i] = reads[i]
         /\ Front(reads) = <<>> <=> Len(reads) = 1
  <1>1. /\ Len(reads) \in Nat \ {0} /\ DOMAIN reads = 1 .. Len(reads)
        /\ Last(reads) = reads[Len(reads)] /\ Last(reads) \in Frames
        /\ Front(reads) = SubSeq(reads, 1, Len(reads) - 1)
    BY DEF Front, Last
  <1>2. /\ SubSeq(reads, 1, Len(reads) - 1) \in Seq(Frames)
        /\ Len(SubSeq(reads, 1, Len(reads) - 1))
              = IF 1 <= Len(reads) - 1 THEN Len(reads) - 1 - 1 + 1 ELSE 0
        /\ \A i \in 1 .. Len(reads) - 1 - 1 + 1 :
              SubSeq(reads, 1, Len(reads) - 1)[i] = reads[1 + i - 1]
    <2>1. \A i \in 1 .. Len(reads) - 1 : reads[i] \in Frames
      BY <1>1
    <2>2. 1 \in Int /\ Len(reads) - 1 \in Int
      BY <1>1
    <2> QED
      BY <2>1, <2>2, SubSeqProperties
  <1>3. /\ Front(reads) \in Seq(Frames) /\ Len(Front(reads)) = Len(reads) - 1
        /\ DOMAIN Front(reads) = 1 .. Len(reads) - 1
        /\ \A i \in 1 .. Len(reads) - 1 : Front(reads)[i] = reads[i]
    <2> DEFINE f == SubSeq(reads, 1, Len(reads) - 1)
               n == Len(reads)
    <2>0. Front(reads) = f
      BY <1>1
    <2>1. n \in Nat \ {0} /\ f \in Seq(Frames)
      BY <1>1, <1>2
    <2>2. /\ Len(f) = IF 1 <= n - 1 THEN n - 1 - 1 + 1 ELSE 0
          /\ \A i \in 1 .. n - 1 - 1 + 1 : f[i] = reads[1 + i - 1]
      BY <1>2
    <2> HIDE DEF f, n
    <2>3. Len(f) = n - 1
      BY <2>1, <2>2
    <2>4. DOMAIN f = 1 .. n - 1
      BY <2>1, <2>3
    <2>5. \A i \in 1 .. n - 1 : f[i] = reads[i]
      BY <2>1, <2>2
    <2> QED
      BY <2>0, <2>1, <2>3, <2>4, <2>5 DEF n
  <1>4. Front(reads) = <<>> <=> Len(Front(reads)) = 0
    BY <1>3, EmptySeq
  <1>5. Len(Front(reads)) = 0 <=> Len(reads) = 1
    BY <1>1, <1>3
  <1> QED
    BY <1>1, <1>3, <1>4, <1>5

\* A read that returns hands its writes to the enclosing one, or to the dispatch.
LEMMA ReadReturnsOp ==
  ASSUME TypeOK, Placed, Intents, ReadReturns
  PROVE  LET n == Len(reads)
             done == reads[n].pending
         IN  /\ n \in Nat \ {0} /\ DOMAIN reads = 1 .. n /\ done \in Intent
             /\ UNCHANGED <<published, registry, pending, history>>
             /\ reads' \in Seq(Frames) /\ Len(reads') = n - 1 /\ DOMAIN reads' = 1 .. n - 1
             /\ \/ /\ owner_alive /\ done.intent /\ n > 1
                   /\ UNCHANGED <<copied, dispatch>>
                   /\ \A i \in 1 .. n - 1 :
                         reads'[i] = IF i = n - 1
                                     THEN [pending |-> done, before |-> reads[i].before]
                                     ELSE reads[i]
                \/ /\ owner_alive /\ done.intent /\ n = 1
                   /\ copied' = done
                   /\ dispatch' = IF dispatching THEN dispatch ELSE Looping(0)
                \/ /\ ~(owner_alive /\ done.intent)
                   /\ UNCHANGED <<copied, dispatch>>
                   /\ \A i \in 1 .. n - 1 : reads'[i] = reads[i]
  <1> DEFINE n == Len(reads)
             done == reads[n].pending
             outer == Front(reads)
  <1>1. /\ reads \in Seq(Frames) /\ reads # <<>>
        /\ UNCHANGED <<published, registry, pending, history>>
    BY DEF TypeOK, Placed, ReadReturns
  <1>2. /\ n \in Nat \ {0} /\ DOMAIN reads = 1 .. n
        /\ Last(reads) = reads[n] /\ reads[n] \in Frames
        /\ outer \in Seq(Frames) /\ Len(outer) = n - 1 /\ DOMAIN outer = 1 .. n - 1
        /\ \A i \in 1 .. n - 1 : outer[i] = reads[i]
        /\ outer = <<>> <=> n = 1
    BY <1>1, OuterReads
  <1>3. done \in Intent
    BY <1>2 DEF Frames
  <1>4. /\ reads' = IF owner_alive /\ done.intent /\ outer # <<>>
                    THEN [outer EXCEPT ![Len(outer)].pending = done] ELSE outer
        /\ copied' = IF owner_alive /\ done.intent /\ outer = <<>> THEN done ELSE copied
        /\ dispatch' = IF outer = <<>> /\ ~dispatching /\ owner_alive /\ copied'.intent
                       THEN Looping(0) ELSE dispatch
    BY <1>2 DEF ReadReturns
  <1>5. ~dispatching => ~copied.intent
    BY DEF Placed, NoIntent
  <1> HIDE DEF n, done, outer
  <1>6. CASE owner_alive /\ done.intent /\ n > 1
    <2>1. reads' = [outer EXCEPT ![n - 1].pending = done] /\ UNCHANGED <<copied, dispatch>>
      BY <1>2, <1>4, <1>6
    <2>2. ASSUME NEW i \in 1 .. n - 1
          PROVE  /\ reads'[i] \in Frames
                 /\ reads'[i] = IF i = n - 1
                                THEN [pending |-> done, before |-> reads[i].before]
                                ELSE reads[i]
      <3>1. outer[i] \in Frames /\ outer[i] = reads[i]
        BY <1>2, <2>2
      <3>2. CASE i = n - 1
        <4>1. reads'[i] = [outer[i] EXCEPT !.pending = done]
          BY <1>2, <2>1, <2>2, <3>2
        <4> QED
          BY <1>3, <3>1, <3>2, <4>1 DEF Frames
      <3>3. CASE i # n - 1
        <4>1. reads'[i] = outer[i]
          BY <1>2, <2>1, <2>2, <3>3
        <4> QED
          BY <3>1, <3>3, <4>1
      <3> QED
        BY <3>2, <3>3
    <2>3. reads' \in [1 .. n - 1 -> Frames]
      BY <1>2, <2>1, <2>2
    <2>4. reads' \in Seq(Frames) /\ Len(reads') = n - 1
      BY <1>2, <2>3, IsSequence
    <2> QED
      BY <1>1, <1>2, <1>3, <1>6, <2>1, <2>2, <2>3, <2>4 DEF n, done
  <1>7. CASE owner_alive /\ done.intent /\ n = 1
    <2>1. reads' = outer /\ copied' = done
      BY <1>2, <1>4, <1>7
    <2>2. dispatch' = IF dispatching THEN dispatch ELSE Looping(0)
      BY <1>2, <1>4, <1>7, <2>1
    <2> QED
      BY <1>1, <1>2, <1>3, <1>7, <2>1, <2>2 DEF n, done
  <1>8. CASE ~(owner_alive /\ done.intent)
    <2>1. reads' = outer /\ copied' = copied
      BY <1>4, <1>8
    <2>2. dispatch' = dispatch
      BY <1>4, <1>5, <2>1
    <2> QED
      BY <1>1, <1>2, <1>3, <1>8, <2>1, <2>2 DEF n, done
  <1> QED
    BY <1>2, <1>6, <1>7, <1>8

\* A read that fails takes its writes with it.
LEMMA ReadThrowsOp ==
  ASSUME TypeOK, Placed, ReadThrows
  PROVE  LET n == Len(reads)
         IN  /\ n \in Nat \ {0} /\ DOMAIN reads = 1 .. n /\ reads[n].before \in LatestWrites
             /\ UNCHANGED <<published, registry, queued, dispatch, owed, writes>>
             /\ latest' = reads[n].before
             /\ reads' \in Seq(Frames) /\ Len(reads') = n - 1 /\ DOMAIN reads' = 1 .. n - 1
             /\ \A i \in 1 .. n - 1 : reads'[i] = reads[i]
  <1>1. /\ reads \in Seq(Frames) /\ reads # <<>> /\ reads' = Front(reads)
        /\ latest' = Last(reads).before
        /\ UNCHANGED <<published, registry, queued, dispatch, owed, writes>>
    BY DEF TypeOK, Placed, ReadThrows
  <1>2. /\ Len(reads) \in Nat \ {0} /\ DOMAIN reads = 1 .. Len(reads)
        /\ Last(reads) = reads[Len(reads)] /\ Last(reads) \in Frames
        /\ Front(reads) \in Seq(Frames) /\ Len(Front(reads)) = Len(reads) - 1
        /\ DOMAIN Front(reads) = 1 .. Len(reads) - 1
        /\ \A i \in 1 .. Len(reads) - 1 : Front(reads)[i] = reads[i]
    BY <1>1, OuterReads
  <1>3. Last(reads).before \in LatestWrites
    BY <1>2 DEF Frames
  <1> QED
    BY <1>1, <1>2, <1>3

\* A read that begins remembers the latest write.
LEMMA ReadBeginsOp ==
  ASSUME TypeOK, ReadBegins
  PROVE  LET n == Len(reads)
         IN  /\ n \in Nat /\ DOMAIN reads = 1 .. n
             /\ UNCHANGED <<published, registry, queued, dispatch, history>>
             /\ reads' \in Seq(Frames) /\ Len(reads') = n + 1 /\ DOMAIN reads' = 1 .. n + 1
             /\ reads'[n + 1] = [pending |-> NoIntent, before |-> latest]
             /\ \A i \in 1 .. n : reads'[i] = reads[i]
  <1> DEFINE frame == [pending |-> NoIntent, before |-> latest]
  <1>1. frame \in Frames
    BY DEF TypeOK, Frames, NoIntent, Intent, Writes
  <1>2. reads \in Seq(Frames) /\ reads' = Append(reads, frame)
    BY DEF TypeOK, ReadBegins
  <1>3. UNCHANGED <<published, registry, queued, dispatch, history>>
    BY DEF ReadBegins
  <1> HIDE DEF frame
  <1>4. LET n == Len(reads)
        IN  /\ n \in Nat /\ DOMAIN reads = 1 .. n
            /\ reads' \in Seq(Frames) /\ Len(reads') = n + 1 /\ DOMAIN reads' = 1 .. n + 1
            /\ reads'[n + 1] = frame
            /\ \A i \in 1 .. n : reads'[i] = reads[i]
    BY <1>1, <1>2
  <1> QED
    BY <1>3, <1>4 DEF frame

-----------------------------------------------------------------------------
(***************************************************************************)
(* Every step keeps the invariant.                                          *)
(***************************************************************************)
\* What the constants make of the types.
LEMMA Basics ==
  ASSUME StateAssumption
  PROVE  /\ MaxListeners \in Nat /\ MaxReads \in Nat /\ MaxWrites \in Nat /\ RevisionMax \in Nat
         /\ NoWrite \in Writes /\ NoIntent \in Intent
         /\ NotDispatching \in Dispatch /\ Looping(0) \in Dispatch
         /\ \A w \in Writes : w.v \in Values /\ w.n \in Nat
  <1>1. /\ MaxListeners \in Nat /\ MaxReads \in Nat /\ MaxWrites \in Nat /\ RevisionMax \in Nat
        /\ InitialValue \in Values
    BY DEF StateAssumption
  <1>2. NoWrite \in Writes /\ NoIntent \in Intent
    BY DEF Writes, NoIntent, Intent
  <1>3. \A w \in Writes : w.v \in Values /\ w.n \in Nat
    BY <1>1 DEF Writes, Write, NoWrite
  <1>4. NotDispatching \in Dispatch
    BY <1>1, <1>2 DEF NotDispatching, Dispatch
  <1>5. Looping(0) \in Dispatch
    <2> DEFINE r == [NotDispatching EXCEPT !.at = "loop"]
    <2>1. r \in Dispatch
      BY <1>4 DEF Dispatch
    <2>2. Looping(0) = [r EXCEPT !.depth = 0]
      BY Zenon DEF Looping
    <2>3. 0 \in 0 .. MaxReads
      BY <1>1
    <2> HIDE DEF r
    <2> QED
      BY <2>1, <2>2, <2>3 DEF Dispatch
  <1> QED
    BY <1>1, <1>2, <1>3, <1>4, <1>5

\* In a dispatch nothing is being read, but for what user code in it reads.
LEMMA AtIs ==
  ASSUME TypeOK, Placed, NEW at, At(at)
  PROVE  dispatch.at = at /\ reads = <<>>
  <1>1. dispatch.at = at /\ Len(reads) = 0 /\ reads \in Seq(Frames)
    BY DEF At, Placed, TypeOK
  <1> QED
    BY <1>1, EmptySeq

\* A set of numbers that is not empty has a least one.
LEMMA LeastOne ==
  ASSUME NEW T \in SUBSET Nat, T # {}
  PROVE  \E x \in T : \A y \in T : x <= y
  <1> DEFINE R == {ss \in Nat \X Nat : ss[1] < ss[2]}
  <1>1. IsWellFoundedOn(R, Nat)
    BY NatLessThanWellFounded, Zenon DEF OpToRel
  <1>2. \A x, y \in Nat : <<y, x>> \in R <=> y < x
    OBVIOUS
  <1> HIDE DEF R
  <1>3. PICK x \in T : \A y \in T : ~ (<<y, x>> \in R)
    BY <1>1, WFMin
  <1>4. ASSUME NEW y \in T
        PROVE  x <= y
    <2>1. ~ (y < x) /\ x \in Nat /\ y \in Nat
      BY <1>2, <1>3
    <2> QED
      BY <2>1
  <1> QED
    BY <1>4

\* The callback that comes next.
LEMMA NextOp ==
  ASSUME StateAssumption, TypeOK, Placed, Turns, NextCallback
  PROVE  \E i \in Due :
            /\ \A k \in Due : i <= k
            /\ dispatch' = [dispatch EXCEPT !.at = "callback", !.index = i + 1]
            /\ owed' = owed \ {listeners[i].id}
            /\ UNCHANGED <<published, registry, queued, reads, latest, writes>>
            /\ dispatch.at = "pass" /\ reads = <<>> /\ owner_alive
            /\ i \in DOMAIN listeners /\ i \in dispatch.index .. dispatch.pass_size
  <1> DEFINE i == CHOOSE j \in Due : \A k \in Due : j <= k
  <1>1. /\ dispatch' = [dispatch EXCEPT !.at = "callback", !.index = i + 1]
        /\ owed' = owed \ {listeners[i].id}
        /\ UNCHANGED <<published, registry, queued, reads, latest, writes>>
        /\ owner_alive /\ Due # {} /\ At("pass")
    BY DEF NextCallback
  <1>2. Due \in SUBSET (dispatch.index .. dispatch.pass_size) /\ Due \subseteq DOMAIN listeners
    BY DEF Due
  <1>3. dispatch.index .. dispatch.pass_size \subseteq Nat
    BY DEF TypeOK, Dispatch
  <1>4. \E j \in Due : \A k \in Due : j <= k
    <2>1. Due \subseteq Nat /\ Due # {}
      BY <1>1, <1>2, <1>3
    <2> HIDE DEF i
    <2>2. \E j \in Due : \A k \in Due : j <= k
      BY <2>1, LeastOne
    <2> QED
      BY <2>2
  <1>5. i \in Due /\ \A k \in Due : i <= k
    BY <1>4
  <1> HIDE DEF i
  <1> QED
    BY <1>1, <1>2, <1>5, AtIs

\* Where a dispatch starts and ends.
LEMMA LoopIs ==
  /\ Looping(0).at = "loop" /\ Looping(0).prepared = NoWrite /\ Looping(0).index = 1
  /\ Looping(0).pass_size = 0 /\ Looping(0).depth = 0
  /\ NotDispatching.at = "idle" /\ NotDispatching.prepared = NoWrite
  /\ NotDispatching.index = 1 /\ NotDispatching.pass_size = 0 /\ NotDispatching.depth = 0
  BY DEF Looping, NotDispatching

LEMMA TypeStep ==
  ASSUME StateAssumption, IInv, [Next]_vars
  PROVE  TypeOK'
  <1> USE DEF IInv
  <1>0. /\ TypeOK /\ Placed /\ Intents /\ Ordered /\ Turns
        /\ MaxListeners \in Nat /\ MaxReads \in Nat /\ MaxWrites \in Nat /\ RevisionMax \in Nat
        /\ NoWrite \in Writes /\ NoIntent \in Intent
        /\ NotDispatching \in Dispatch /\ Looping(0) \in Dispatch
        /\ \A w \in Writes : w.v \in Values /\ w.n \in Nat
    BY Basics
  <1>1. ASSUME NEW v \in Values, NEW conditional \in BOOLEAN, Set(v, conditional)
        PROVE  TypeOK'
    <2>1. PICK w \in Writes :
            /\ writes' \in 0 .. MaxWrites /\ latest' \in LatestWrites
            /\ UNCHANGED <<published, registry, owed>>
            /\ \/ reads' \in Seq(Frames) /\ UNCHANGED <<queued, dispatch>>
               \/ copied' = NoIntent /\ pending' = w /\ UNCHANGED <<dispatch, reads>>
               \/ /\ pending' = w /\ UNCHANGED <<copied, reads>>
                  /\ dispatch' = IF w = NoWrite THEN dispatch ELSE Looping(0)
      BY <1>0, <1>1, SetOp, Zenon
    <2>2. /\ pending' \in Writes /\ copied' \in Intent /\ dispatch' \in Dispatch
          /\ reads' \in Seq(Frames)
      BY <1>0, <2>1 DEF TypeOK, queued
    <2> QED
      BY <1>0, <2>1, <2>2 DEF TypeOK, published, registry
  <1>2. CASE Observe
    <2>1. listeners' \in Seq(Slots) /\ next_listener_id' \in 1 .. MaxListeners + 1
      BY <1>0, <1>2, ObserveOp
    <2> QED
      BY <1>0, <1>2, <2>1 DEF TypeOK, Observe, published, queued, history
  <1>3. ASSUME NEW id \in Ids, Unsubscribe(id)
        PROVE  TypeOK'
    <2>1. listeners' \in Seq(Slots) /\ cleanup_needed' \in BOOLEAN
      BY <1>0, <1>3, UnsubscribeOp
    <2>2. owed' \subseteq Ids
      BY <1>0, <1>3 DEF TypeOK, Unsubscribe
    <2> QED
      BY <1>0, <1>3, <2>1, <2>2 DEF TypeOK, Unsubscribe, published, queued
  <1>4. CASE DestroyOwner
    <2>1. Invalidate /\ UNCHANGED <<dispatch, reads>>
      BY <1>4 DEF DestroyOwner
    <2>2. dispatching' <=> dispatching
      BY <2>1 DEF dispatching
    <2>3. /\ owner_alive' = FALSE /\ pending' = NoWrite /\ copied' = NoIntent /\ owed' = {}
          /\ UNCHANGED <<published, next_listener_id, latest, writes>>
          /\ listeners' \in Seq(Slots) /\ cleanup_needed' \in BOOLEAN
      BY <1>0, <2>1, <2>2, InvalidateOp
    <2> QED
      BY <1>0, <2>1, <2>3 DEF TypeOK, published
  <1>5. CASE ReadBegins
    <2>1. UNCHANGED <<published, registry, queued, dispatch, history>> /\ reads' \in Seq(Frames)
      BY <1>0, <1>5, ReadBeginsOp
    <2> QED
      BY <1>0, <2>1 DEF TypeOK, published, registry, queued, history
  <1>6. CASE ReadReturns
    <2>1. /\ UNCHANGED <<published, registry, pending, history>> /\ reads' \in Seq(Frames)
          /\ copied' \in Intent /\ dispatch' \in Dispatch
      BY <1>0, <1>6, ReadReturnsOp DEF TypeOK
    <2> QED
      BY <1>0, <2>1 DEF TypeOK, published, registry, history
  <1>7. CASE ReadThrows
    <2>1. /\ UNCHANGED <<published, registry, queued, dispatch, owed, writes>>
          /\ reads' \in Seq(Frames) /\ latest' \in LatestWrites
      BY <1>0, <1>7, ReadThrowsOp
    <2> QED
      BY <1>0, <2>1 DEF TypeOK, published, registry, queued
  <1>8. ASSUME LeaveDispatch, pending' \in Writes, copied' \in Intent, owed' \subseteq Ids,
               latest' \in LatestWrites
        PROVE  TypeOK'
    <2>1. /\ dispatch' = NotDispatching /\ cleanup_needed' = FALSE
          /\ UNCHANGED <<published, next_listener_id, owner_alive, reads, writes>>
          /\ listeners' \in Seq(Slots)
      BY <1>0, <1>8, LeaveOp
    <2> QED
      BY <1>0, <1>8, <2>1 DEF TypeOK, published
  <1>9. CASE DispatchEnds
    BY <1>0, <1>8, <1>9 DEF DispatchEnds, TypeOK, queued
  <1>10. CASE DispatchFails
    <2>1. value \in Values
      BY <1>0 DEF TypeOK
    <2>2. /\ pending' = NoWrite /\ copied' = NoIntent /\ owed' = {} /\ LeaveDispatch
          /\ latest' = [n |-> 0, v |-> value]
      BY <1>10 DEF DispatchFails
    <2>3. latest' \in LatestWrites
      BY <1>0, <2>1, <2>2 DEF LatestWrites
    <2> QED
      BY <1>0, <1>8, <2>2, <2>3
  <1>11. CASE TakeWrite
    <2> DEFINE w == IF copied.intent THEN copied.write ELSE pending
               at == IF w = NoWrite \/ w.v = value THEN "loop"
                     ELSE IF w.conditional THEN "condition" ELSE "commit"
    <2>1. /\ dispatch' = [dispatch EXCEPT !.prepared = w, !.at = at]
          /\ pending' = NoWrite /\ copied' = NoIntent
          /\ UNCHANGED <<published, registry, reads, history>>
      BY <1>11 DEF TakeWrite
    <2>2. w \in Writes
      BY <1>0 DEF TypeOK, Intent
    <2>3. at \in {"loop", "condition", "commit"}
      OBVIOUS
    <2> HIDE DEF w, at
    <2>4. dispatch' \in Dispatch
      BY <1>0, <2>1, <2>2, <2>3 DEF TypeOK, Dispatch
    <2> QED
      BY <1>0, <2>1, <2>4 DEF TypeOK, published, registry, history
  <1>12. CASE ConditionReturns
    <2>1. PICK at \in {"loop", "commit"} : dispatch' = [dispatch EXCEPT !.at = at]
      BY <1>12 DEF ConditionReturns
    <2>2. dispatch' \in Dispatch
      <3>1. at \in {"idle", "loop", "condition", "commit", "pass", "callback"}
        BY <2>1
      <3> QED
        BY <1>0, <2>1, <3>1 DEF TypeOK, Dispatch
    <2>3. UNCHANGED <<published, registry, queued, reads, owed, writes>>
      BY <1>12 DEF ConditionReturns
    <2>4. latest' = latest \/ latest' = [n |-> 0, v |-> value]
      BY <1>12 DEF ConditionReturns, Without
    <2>5. latest' \in LatestWrites
      BY <1>0, <2>4 DEF TypeOK, LatestWrites
    <2> QED
      BY <1>0, <2>2, <2>3, <2>5 DEF TypeOK, published, registry, queued
  <1>13. CASE Commit
    <2>1. /\ value' = dispatch.prepared.v /\ revision' = revision + 1 /\ revision < RevisionMax
          /\ dispatch' = [dispatch EXCEPT !.at = "pass", !.index = 1, !.pass_size = Len(listeners)]
          /\ owed' = ActiveIds
          /\ UNCHANGED <<registry, queued, reads, latest, writes>>
      BY <1>13 DEF Commit
    <2>2. dispatch.prepared \in Writes
      BY <1>0 DEF TypeOK, Dispatch
    <2>3. Len(listeners) \in 0 .. MaxListeners
      BY <1>0 DEF TypeOK, Ordered
    <2>4. dispatch' \in Dispatch
      <3>1. /\ 1 \in 1 .. MaxListeners + 1
            /\ "pass" \in {"idle", "loop", "condition", "commit", "pass", "callback"}
        BY <1>0
      <3> QED
        BY <1>0, <2>1, <2>3, <3>1 DEF TypeOK, Dispatch
    <2>5. owed' \subseteq Ids
      <3>1. \A i \in DOMAIN listeners : listeners[i] \in Slots
        BY <1>0 DEF TypeOK
      <3> QED
        BY <2>1, <3>1, ActiveIs DEF Slots
    <2>6. value' \in Values /\ revision' \in 0 .. RevisionMax
      BY <1>0, <2>1, <2>2 DEF TypeOK
    <2> QED
      BY <1>0, <2>1, <2>4, <2>5, <2>6 DEF TypeOK, registry, queued
  <1>14. CASE RetiredByMove
    <2>1. /\ Invalidate /\ dispatch' = [dispatch EXCEPT !.at = "loop"] /\ UNCHANGED reads
          /\ dispatch.at = "commit"
      BY <1>14 DEF RetiredByMove, At
    <2>2. dispatch' \in Dispatch
      BY <1>0, <2>1 DEF TypeOK, Dispatch
    <2>3. dispatching' <=> dispatching
      BY <1>0, <2>1 DEF dispatching, TypeOK, Dispatch
    <2>4. /\ owner_alive' = FALSE /\ pending' = NoWrite /\ copied' = NoIntent /\ owed' = {}
          /\ UNCHANGED <<published, next_listener_id, latest, writes>>
          /\ listeners' \in Seq(Slots) /\ cleanup_needed' \in BOOLEAN
      BY <1>0, <2>1, <2>3, InvalidateOp
    <2> QED
      BY <1>0, <2>1, <2>2, <2>4 DEF TypeOK, published
  <1>15. CASE WriteFails
    BY <1>10, <1>15 DEF WriteFails
  <1>16. CASE NextCallback
    <2>1. PICK i \in Due :
            /\ dispatch' = [dispatch EXCEPT !.at = "callback", !.index = i + 1]
            /\ owed' = owed \ {listeners[i].id}
            /\ UNCHANGED <<published, registry, queued, reads, latest, writes>>
            /\ i \in dispatch.index .. dispatch.pass_size
      BY <1>0, <1>16, NextOp, Zenon
    <2>2. i + 1 \in 1 .. MaxListeners + 1
      <3>1. dispatch.index \in 1 .. MaxListeners + 1 /\ dispatch.pass_size \in 0 .. MaxListeners
        BY <1>0 DEF TypeOK, Dispatch
      <3> QED
        BY <1>0, <2>1, <3>1
    <2>3. dispatch' \in Dispatch
      BY <1>0, <2>1, <2>2 DEF TypeOK, Dispatch
    <2> QED
      BY <1>0, <2>1, <2>3 DEF TypeOK, published, registry, queued
  <1>17. CASE CallbackReturns
    <2>1. dispatch' \in Dispatch
      BY <1>0, <1>17 DEF CallbackReturns, TypeOK, Dispatch
    <2> QED
      BY <1>0, <1>17, <2>1 DEF CallbackReturns, TypeOK, published, registry, queued, history
  <1>18. CASE CallbackThrows
    BY <1>10, <1>18 DEF CallbackThrows
  <1>19. CASE PassEnds
    <2>1. dispatch' = Looping(0) /\ UNCHANGED <<published, registry, queued, reads, history>>
      BY <1>0, <1>19 DEF PassEnds, Placed
    <2> QED
      BY <1>0, <2>1 DEF TypeOK, published, registry, queued, history
  <1>20. CASE UNCHANGED vars
    BY <1>0, <1>20 DEF TypeOK, vars, published, registry, queued, history
  <1>21. [Next]_vars
    OBVIOUS
  <1> QED
    BY <1>1, <1>2, <1>3, <1>4, <1>5, <1>6, <1>7, <1>9, <1>11, <1>12, <1>13, <1>14, <1>15, <1>16,
       <1>17, <1>18, <1>19, <1>20, <1>21 DEF Next, UserCall, DispatchStep

LEMMA PlacedStep ==
  ASSUME StateAssumption, IInv, [Next]_vars
  PROVE  Placed'
  <1>0. TypeOK /\ Placed /\ Intents /\ Ordered /\ Turns /\ dispatch \in Dispatch
    BY DEF IInv, TypeOK
  <1>a. ASSUME InUserCode, dispatch.at \in {"loop", "commit", "pass"}
        PROVE  FALSE
    BY <1>0, <1>a DEF InUserCode, Placed
  <1>1. ASSUME NEW v \in Values, NEW conditional \in BOOLEAN, Set(v, conditional)
        PROVE  Placed'
    <2>1. PICK w \in Writes :
            /\ UNCHANGED <<published, registry, owed>>
            /\ \/ reads # <<>> /\ Len(reads') = Len(reads) /\ UNCHANGED <<queued, dispatch>>
               \/ reads = <<>> /\ dispatching /\ UNCHANGED <<dispatch, reads>>
               \/ /\ reads = <<>> /\ ~dispatching /\ pending' = w /\ UNCHANGED <<copied, reads>>
                  /\ dispatch' = IF w = NoWrite THEN dispatch ELSE Looping(0)
      BY <1>0, <1>1, SetOp, Zenon
    <2>2. InUserCode /\ owner_alive
      BY <1>1 DEF Set
    <2>3. CASE reads # <<>> /\ Len(reads') = Len(reads) /\ UNCHANGED <<queued, dispatch>>
      BY <1>0, <1>a, <2>1, <2>2, <2>3
         DEF Placed, Preparing, dispatching, queued, published, registry
    <2>4. CASE reads = <<>> /\ dispatching /\ UNCHANGED <<dispatch, reads>>
      BY <1>0, <2>1, <2>4 DEF Placed, Preparing, dispatching, published, registry
    <2>5. CASE /\ reads = <<>> /\ ~dispatching /\ pending' = w /\ UNCHANGED <<copied, reads>>
               /\ dispatch' = IF w = NoWrite THEN dispatch ELSE Looping(0)
      BY <1>0, <2>1, <2>5, LoopIs DEF Placed, Preparing, dispatching, published, registry
    <2> QED
      BY <2>1, <2>3, <2>4, <2>5
  <1>2. CASE Observe
    BY <1>0, <1>2 DEF Observe, Placed, Preparing, dispatching, published, queued
  <1>3. ASSUME NEW id \in Ids, Unsubscribe(id)
        PROVE  Placed'
    BY <1>0, <1>3 DEF Unsubscribe, Placed, Preparing, dispatching, published, queued
  <1>4. CASE DestroyOwner
    BY <1>0, <1>a, <1>4 DEF DestroyOwner, Invalidate, Placed, Preparing, dispatching, published
  <1>5. CASE ReadBegins
    <2>1. UNCHANGED <<published, registry, queued, dispatch, history>> /\ InUserCode
      BY <1>0, <1>5, ReadBeginsOp DEF ReadBegins
    <2> QED
      BY <1>0, <1>a, <2>1
         DEF Placed, Preparing, dispatching, published, registry, queued, history
  <1>6. CASE ReadReturns
    <2>1. /\ UNCHANGED <<published, registry, pending, history>>
          /\ \/ UNCHANGED <<copied, dispatch>>
             \/ reads' = <<>> /\ dispatch' = IF dispatching THEN dispatch ELSE Looping(0)
          /\ reads # <<>>
      <3>1. /\ UNCHANGED <<published, registry, pending, history>>
            /\ Len(reads) \in Nat \ {0} /\ DOMAIN reads = 1 .. Len(reads)
            /\ reads' \in Seq(Frames) /\ Len(reads') = Len(reads) - 1
        BY <1>0, <1>6, ReadReturnsOp
      <3>2. \/ UNCHANGED <<copied, dispatch>>
            \/ /\ Len(reads) = 1
               /\ dispatch' = IF dispatching THEN dispatch ELSE Looping(0)
        BY <1>0, <1>6, ReadReturnsOp
      <3>3. Len(reads') = 0 => reads' = <<>>
        BY <3>1, EmptySeq
      <3>4. reads # <<>>
        BY <3>1
      <3> QED
        BY <3>1, <3>2, <3>3, <3>4
    <2>2. dispatch.at \notin {"loop", "commit", "pass"}
      BY <1>0, <2>1 DEF Placed
    <2>3. CASE UNCHANGED <<copied, dispatch>>
      BY <1>0, <2>1, <2>2, <2>3
         DEF Placed, Preparing, dispatching, published, registry, history
    <2>4. CASE reads' = <<>> /\ dispatch' = IF dispatching THEN dispatch ELSE Looping(0)
      BY <1>0, <2>1, <2>2, <2>4, LoopIs
         DEF Placed, Preparing, dispatching, published, registry, history
    <2> QED
      BY <2>1, <2>3, <2>4
  <1>7. CASE ReadThrows
    <2>1. UNCHANGED <<published, registry, queued, dispatch, owed, writes>> /\ reads # <<>>
      BY <1>0, <1>7, ReadThrowsOp
    <2> QED
      BY <1>0, <2>1 DEF Placed, Preparing, dispatching, published, registry, queued
  <1>8. ASSUME LeaveDispatch, pending' = NoWrite, copied' = NoIntent
        PROVE  Placed'
    BY <1>0, <1>8, LoopIs DEF LeaveDispatch, Placed, Preparing, dispatching
  <1>9. CASE DispatchEnds
    <2>1. pending = NoWrite /\ copied = NoIntent
      BY <1>0, <1>9 DEF DispatchEnds, Intents
    <2> QED
      BY <1>8, <1>9, <2>1 DEF DispatchEnds, queued
  <1>10. CASE DispatchFails
    BY <1>8, <1>10 DEF DispatchFails
  <1>11. CASE TakeWrite
    <2> DEFINE w == IF copied.intent THEN copied.write ELSE pending
               at == IF w = NoWrite \/ w.v = value THEN "loop"
                     ELSE IF w.conditional THEN "condition" ELSE "commit"
    <2>1. /\ dispatch' = [dispatch EXCEPT !.prepared = w, !.at = at]
          /\ UNCHANGED <<published, registry, reads, history>> /\ owner_alive
          /\ reads = <<>>
      BY <1>0, <1>11, AtIs DEF TakeWrite
    <2>2. /\ at \in {"loop", "condition", "commit"}
          /\ at # "loop" => w # NoWrite /\ w.v # value
      OBVIOUS
    <2> HIDE DEF w, at
    <2>3. dispatch'.at = at /\ dispatch'.prepared = w /\ dispatch'.depth = dispatch.depth
      BY <1>0, <2>1 DEF Dispatch
    <2> QED
      BY <1>0, <2>1, <2>2, <2>3 DEF Placed, Preparing, dispatching, published, registry
  <1>12. CASE ConditionReturns
    <2>1. PICK at \in {"loop", "commit"} : /\ dispatch' = [dispatch EXCEPT !.at = at]
                                           /\ at = "commit" => owner_alive
      BY <1>12 DEF ConditionReturns
    <2>2. /\ UNCHANGED <<published, registry, queued, reads, owed, writes>> /\ reads = <<>>
          /\ dispatch.at = "condition"
      BY <1>0, <1>12, AtIs DEF ConditionReturns
    <2>3. /\ dispatch'.at = at /\ dispatch'.prepared = dispatch.prepared
          /\ dispatch'.depth = dispatch.depth
      BY <1>0, <2>1 DEF Dispatch
    <2> QED
      BY <1>0, <2>1, <2>2, <2>3 DEF Placed, Preparing, dispatching, published, registry, queued
  <1>13. CASE Commit
    <2>1. /\ dispatch' = [dispatch EXCEPT !.at = "pass", !.index = 1, !.pass_size = Len(listeners)]
          /\ UNCHANGED <<registry, queued, reads, latest, writes>> /\ reads = <<>>
      BY <1>0, <1>13, AtIs DEF Commit
    <2>2. dispatch'.at = "pass" /\ dispatch'.depth = dispatch.depth
      BY <1>0, <2>1 DEF Dispatch
    <2> QED
      BY <1>0, <2>1, <2>2 DEF Placed, Preparing, dispatching
  <1>14. CASE RetiredByMove
    <2>1. /\ Invalidate /\ dispatch' = [dispatch EXCEPT !.at = "loop"] /\ UNCHANGED reads
          /\ reads = <<>>
      BY <1>0, <1>14, AtIs DEF RetiredByMove
    <2>2. dispatch'.at = "loop" /\ dispatch'.depth = dispatch.depth
      BY <1>0, <2>1 DEF Dispatch
    <2> QED
      BY <1>0, <2>1, <2>2 DEF Placed, Preparing, dispatching
  <1>15. CASE WriteFails
    BY <1>10, <1>15 DEF WriteFails
  <1>16. CASE NextCallback
    <2>1. PICK i \in Due :
            /\ dispatch' = [dispatch EXCEPT !.at = "callback", !.index = i + 1]
            /\ UNCHANGED <<published, registry, queued, reads, latest, writes>>
            /\ reads = <<>>
      BY <1>0, <1>16, NextOp, Zenon
    <2>2. dispatch'.at = "callback" /\ dispatch'.depth = dispatch.depth
      BY <1>0, <2>1 DEF Dispatch
    <2> QED
      BY <1>0, <2>1, <2>2 DEF Placed, Preparing, dispatching
  <1>17. CASE CallbackReturns
    <2>1. /\ dispatch' = [dispatch EXCEPT !.at = "pass"]
          /\ UNCHANGED <<published, registry, queued, reads, history>> /\ reads = <<>>
      BY <1>0, <1>17, AtIs DEF CallbackReturns
    <2>2. dispatch'.at = "pass" /\ dispatch'.depth = dispatch.depth
      BY <1>0, <2>1 DEF Dispatch
    <2> QED
      BY <1>0, <2>1, <2>2 DEF Placed, Preparing, dispatching
  <1>18. CASE CallbackThrows
    BY <1>10, <1>18 DEF CallbackThrows
  <1>19. CASE PassEnds
    <2>1. dispatch' = Looping(0) /\ UNCHANGED <<published, registry, queued, reads, history>>
          /\ reads = <<>>
      BY <1>0, <1>19, AtIs DEF PassEnds, Placed
    <2> QED
      BY <1>0, <2>1, LoopIs DEF Placed, Preparing, dispatching
  <1>20. CASE UNCHANGED vars
    BY <1>0, <1>20
       DEF Placed, Preparing, dispatching, vars, published, registry, queued, history
  <1>21. [Next]_vars
    OBVIOUS
  <1> QED
    BY <1>1, <1>2, <1>3, <1>4, <1>5, <1>6, <1>7, <1>9, <1>11, <1>12, <1>13, <1>14, <1>15, <1>16,
       <1>17, <1>18, <1>19, <1>20, <1>21 DEF Next, UserCall, DispatchStep

LEMMA IntentsStep ==
  ASSUME StateAssumption, IInv, [Next]_vars
  PROVE  Intents'
  <1>0. TypeOK /\ Placed /\ Intents /\ Ordered /\ Turns
    BY DEF IInv
  <1>a. ASSUME UNCHANGED <<owner_alive, listeners, reads>>,
               UNCHANGED queued \/ (pending' = NoWrite /\ copied' = NoIntent),
               owed' \subseteq owed \/ owner_alive
        PROVE  Intents'
    BY <1>0, <1>a DEF Intents, queued
  <1>1. ASSUME NEW v \in Values, NEW conditional \in BOOLEAN, Set(v, conditional)
        PROVE  Intents'
    <2>1. PICK w \in Writes :
            /\ owner_alive /\ UNCHANGED registry
            /\ \/ /\ reads # <<>> /\ reads' \in Seq(Frames) /\ Len(reads') = Len(reads)
                  /\ \A i \in DOMAIN reads :
                        reads'[i] = IF i = Len(reads)
                                    THEN [pending |-> [intent |-> TRUE, write |-> w],
                                          before |-> reads[i].before]
                                    ELSE reads[i]
                  /\ UNCHANGED queued
               \/ UNCHANGED reads /\ (UNCHANGED copied \/ copied' = NoIntent)
      BY <1>0, <1>1, SetOp, Zenon
    <2>2. CASE UNCHANGED reads
      BY <1>0, <2>1, <2>2 DEF Intents, registry, queued
    <2>3. CASE /\ reads # <<>> /\ reads' \in Seq(Frames) /\ Len(reads') = Len(reads)
               /\ \A i \in DOMAIN reads :
                     reads'[i] = IF i = Len(reads)
                                 THEN [pending |-> [intent |-> TRUE, write |-> w],
                                       before |-> reads[i].before]
                                 ELSE reads[i]
               /\ UNCHANGED queued
      <3>1. reads \in Seq(Frames)
        BY <1>0 DEF TypeOK
      <3>2. DOMAIN reads' = DOMAIN reads
        BY <2>3, <3>1
      <3>3. \A i \in DOMAIN reads' : reads'[i].pending.intent \/ reads'[i].pending = NoIntent
        BY <1>0, <2>3, <3>2 DEF Intents
      <3> QED
        BY <1>0, <2>1, <2>3, <3>3 DEF Intents, registry, queued
    <2> QED
      BY <2>1, <2>2, <2>3
  <1>2. CASE Observe
    BY <1>0, <1>2 DEF Observe, Intents, queued
  <1>3. ASSUME NEW id \in Ids, Unsubscribe(id)
        PROVE  Intents'
    <2>1. \A i \in DOMAIN listeners' : \E j \in DOMAIN listeners :
             listeners'[i].active => listeners[j].active
      BY <1>0, <1>3, UnsubscribeOp
    <2>2. UNCHANGED <<owner_alive, queued, reads>> /\ owed' \subseteq owed
      BY <1>3 DEF Unsubscribe
    <2> QED
      BY <1>0, <2>1, <2>2 DEF Intents, queued
  <1>a2. ASSUME Invalidate, UNCHANGED reads, dispatching' <=> dispatching
         PROVE  Intents'
    <2>1. /\ owner_alive' = FALSE /\ pending' = NoWrite /\ copied' = NoIntent /\ owed' = {}
          /\ \A i \in DOMAIN listeners' : ~listeners'[i].active
      BY <1>0, <1>a2, InvalidateOp
    <2> QED
      BY <1>0, <1>a2, <2>1 DEF Intents
  <1>4. CASE DestroyOwner
    BY <1>a2, <1>4 DEF DestroyOwner, dispatching
  <1>5. CASE ReadBegins
    <2>1. /\ UNCHANGED <<registry, queued, history>>
          /\ Len(reads) \in Nat /\ DOMAIN reads = 1 .. Len(reads)
          /\ DOMAIN reads' = 1 .. Len(reads) + 1
          /\ reads'[Len(reads) + 1] = [pending |-> NoIntent, before |-> latest]
          /\ \A i \in 1 .. Len(reads) : reads'[i] = reads[i]
      BY <1>0, <1>5, ReadBeginsOp
    <2>2. \A i \in DOMAIN reads' : i = Len(reads) + 1 \/ i \in DOMAIN reads
      BY <2>1
    <2>3. \A i \in DOMAIN reads' : reads'[i].pending.intent \/ reads'[i].pending = NoIntent
      BY <1>0, <2>1, <2>2 DEF Intents
    <2> QED
      BY <1>0, <2>1, <2>3 DEF Intents, registry, queued, history
  <1>6. CASE ReadReturns
    <2> DEFINE n == Len(reads)
               done == reads[n].pending
    <2>1. /\ n \in Nat \ {0} /\ DOMAIN reads = 1 .. n /\ DOMAIN reads' = 1 .. n - 1
          /\ UNCHANGED <<registry, pending, history>>
      BY <1>0, <1>6, ReadReturnsOp
    <2>2. \/ /\ owner_alive /\ done.intent
             /\ UNCHANGED copied
             /\ \A i \in 1 .. n - 1 : reads'[i] = IF i = n - 1
                                                  THEN [pending |-> done, before |-> reads[i].before]
                                                  ELSE reads[i]
          \/ owner_alive /\ done.intent /\ n = 1 /\ copied' = done
          \/ UNCHANGED copied /\ \A i \in 1 .. n - 1 : reads'[i] = reads[i]
      BY <1>0, <1>6, ReadReturnsOp
    <2> HIDE DEF n, done
    <2>3. \A i \in DOMAIN reads' : i \in DOMAIN reads
      BY <2>1
    <2>4. \A i \in DOMAIN reads' : reads'[i].pending.intent \/ reads'[i].pending = NoIntent
      BY <1>0, <2>1, <2>2, <2>3 DEF Intents
    <2>5. copied'.intent \/ copied' = NoIntent
      BY <1>0, <2>2 DEF Intents
    <2>6. ~owner_alive => UNCHANGED copied
      BY <2>2
    <2> QED
      BY <1>0, <2>1, <2>4, <2>5, <2>6 DEF Intents, registry, history
  <1>7. CASE ReadThrows
    <2>1. /\ Len(reads) \in Nat \ {0} /\ DOMAIN reads = 1 .. Len(reads)
          /\ DOMAIN reads' = 1 .. Len(reads) - 1
          /\ UNCHANGED <<registry, queued, owed>>
          /\ \A i \in 1 .. Len(reads) - 1 : reads'[i] = reads[i]
      BY <1>0, <1>7, ReadThrowsOp
    <2>2. \A i \in DOMAIN reads' : i \in DOMAIN reads
      BY <2>1
    <2> QED
      BY <1>0, <2>1, <2>2 DEF Intents, registry, queued
  <1>8. ASSUME LeaveDispatch, UNCHANGED queued \/ (pending' = NoWrite /\ copied' = NoIntent),
               owed' \subseteq owed
        PROVE  Intents'
    <2>1. /\ UNCHANGED <<owner_alive, reads>>
          /\ \A i \in DOMAIN listeners' : \E j \in DOMAIN listeners : listeners'[i] = listeners[j]
      BY <1>0, <1>8, LeaveOp
    <2> QED
      BY <1>0, <1>8, <2>1 DEF Intents, queued
  <1>9. CASE DispatchEnds
    BY <1>8, <1>9 DEF DispatchEnds
  <1>10. CASE DispatchFails
    BY <1>8, <1>10 DEF DispatchFails
  <1>11. CASE TakeWrite
    BY <1>a, <1>11 DEF TakeWrite, registry, history
  <1>12. CASE ConditionReturns
    BY <1>a, <1>12 DEF ConditionReturns, registry
  <1>13. CASE Commit
    <2>1. owner_alive
      BY <1>0, <1>13 DEF Commit, At, Placed
    <2> QED
      BY <1>a, <1>13, <2>1 DEF Commit, registry
  <1>14. CASE RetiredByMove
    <2>1. /\ Invalidate /\ dispatch' = [dispatch EXCEPT !.at = "loop"] /\ UNCHANGED reads
          /\ dispatch.at = "commit" /\ dispatch \in Dispatch
      BY <1>0, <1>14 DEF RetiredByMove, At, TypeOK
    <2>2. dispatching' <=> dispatching
      BY <2>1 DEF dispatching, Dispatch
    <2> QED
      BY <1>a2, <2>1, <2>2
  <1>15. CASE WriteFails
    BY <1>10, <1>15 DEF WriteFails
  <1>16. CASE NextCallback
    BY <1>a, <1>16 DEF NextCallback, registry
  <1>17. CASE CallbackReturns
    BY <1>a, <1>17 DEF CallbackReturns, registry, history
  <1>18. CASE CallbackThrows
    BY <1>10, <1>18 DEF CallbackThrows
  <1>19. CASE PassEnds
    BY <1>a, <1>19 DEF PassEnds, registry, history
  <1>20. CASE UNCHANGED vars
    BY <1>a, <1>20 DEF vars, registry, history
  <1>21. [Next]_vars
    OBVIOUS
  <1> QED
    BY <1>1, <1>2, <1>3, <1>4, <1>5, <1>6, <1>7, <1>9, <1>11, <1>12, <1>13, <1>14, <1>15, <1>16,
       <1>17, <1>18, <1>19, <1>20, <1>21 DEF Next, UserCall, DispatchStep

LEMMA OrderedStep ==
  ASSUME StateAssumption, IInv, [Next]_vars
  PROVE  Ordered'
  <1>0. TypeOK /\ Placed /\ Intents /\ Ordered /\ Turns
    BY DEF IInv
  <1>a. ASSUME UNCHANGED registry, dispatching' \/ ~dispatching
        PROVE  Ordered'
    BY <1>0, <1>a DEF Ordered, registry
  <1>1. ASSUME NEW v \in Values, NEW conditional \in BOOLEAN, Set(v, conditional)
        PROVE  Ordered'
    <2>1. PICK w \in Writes :
            /\ UNCHANGED registry
            /\ \/ UNCHANGED dispatch
               \/ ~dispatching /\ dispatch' = IF w = NoWrite THEN dispatch ELSE Looping(0)
      BY <1>0, <1>1, SetOp, Zenon
    <2> QED
      BY <1>a, <2>1 DEF dispatching
  <1>2. CASE Observe
    BY <1>0, <1>2, ObserveOp
  <1>3. ASSUME NEW id \in Ids, Unsubscribe(id)
        PROVE  Ordered'
    BY <1>0, <1>3, UnsubscribeOp
  <1>4. CASE DestroyOwner
    <2>1. Invalidate /\ (dispatching' <=> dispatching)
      BY <1>4 DEF DestroyOwner, dispatching
    <2> QED
      BY <1>0, <2>1, InvalidateOp
  <1>5. CASE ReadBegins
    BY <1>a, <1>5 DEF ReadBegins, dispatching
  <1>6. CASE ReadReturns
    <2>1. UNCHANGED registry
      BY <1>6 DEF ReadReturns
    <2>2. UNCHANGED dispatch \/ dispatch' = Looping(0)
      BY <1>0, <1>6, ReadReturnsOp
    <2> QED
      BY <1>a, <2>1, <2>2, LoopIs DEF dispatching
  <1>7. CASE ReadThrows
    BY <1>a, <1>7 DEF ReadThrows, dispatching
  <1>8. ASSUME LeaveDispatch
        PROVE  Ordered'
    BY <1>0, <1>8, LeaveOp
  <1>9. CASE DispatchEnds
    BY <1>8, <1>9 DEF DispatchEnds
  <1>10. CASE DispatchFails
    BY <1>8, <1>10 DEF DispatchFails
  <1>11. CASE TakeWrite
    <2> DEFINE w == IF copied.intent THEN copied.write ELSE pending
               at == IF w = NoWrite \/ w.v = value THEN "loop"
                     ELSE IF w.conditional THEN "condition" ELSE "commit"
    <2>1. /\ dispatch' = [dispatch EXCEPT !.prepared = w, !.at = at]
          /\ UNCHANGED registry
      BY <1>0, <1>11 DEF TakeWrite
    <2>2. at # "idle"
      OBVIOUS
    <2> HIDE DEF w, at
    <2>3. dispatch'.at = at
      BY <1>0, <2>1 DEF Dispatch, TypeOK
    <2> QED
      BY <1>a, <2>1, <2>2, <2>3 DEF dispatching
  <1>12. CASE ConditionReturns
    <2>1. PICK at \in {"loop", "commit"} : dispatch' = [dispatch EXCEPT !.at = at]
      BY <1>12 DEF ConditionReturns
    <2>2. dispatch'.at = at
      BY <1>0, <2>1 DEF Dispatch, TypeOK
    <2>3. UNCHANGED registry
      BY <1>12 DEF ConditionReturns
    <2> QED
      BY <1>a, <2>1, <2>2, <2>3 DEF dispatching
  <1>13. CASE Commit
    <2>1. dispatch'.at = "pass" /\ UNCHANGED registry
      BY <1>0, <1>13 DEF Commit, TypeOK, Dispatch
    <2> QED
      BY <1>a, <2>1 DEF dispatching
  <1>14. CASE RetiredByMove
    <2>1. Invalidate /\ dispatch.at = "commit" /\ dispatch'.at = "loop"
      BY <1>0, <1>14 DEF RetiredByMove, At, TypeOK, Dispatch
    <2>2. dispatching' <=> dispatching
      BY <2>1 DEF dispatching
    <2> QED
      BY <1>0, <2>1, <2>2, InvalidateOp
  <1>15. CASE WriteFails
    BY <1>10, <1>15 DEF WriteFails
  <1>16. CASE NextCallback
    <2>1. dispatch'.at = "callback" /\ UNCHANGED registry
      BY <1>0, <1>16 DEF NextCallback, TypeOK, Dispatch
    <2> QED
      BY <1>a, <2>1 DEF dispatching
  <1>17. CASE CallbackReturns
    <2>1. dispatch'.at = "pass" /\ UNCHANGED registry
      BY <1>0, <1>17 DEF CallbackReturns, TypeOK, Dispatch
    <2> QED
      BY <1>a, <2>1 DEF dispatching
  <1>18. CASE CallbackThrows
    BY <1>10, <1>18 DEF CallbackThrows
  <1>19. CASE PassEnds
    <2>1. dispatch' = Looping(0) /\ UNCHANGED registry
      BY <1>0, <1>19 DEF PassEnds, Placed
    <2> QED
      BY <1>a, <2>1, LoopIs DEF dispatching
  <1>20. CASE UNCHANGED vars
    BY <1>a, <1>20 DEF vars, dispatching
  <1>21. [Next]_vars
    OBVIOUS
  <1> QED
    BY <1>1, <1>2, <1>3, <1>4, <1>5, <1>6, <1>7, <1>9, <1>11, <1>12, <1>13, <1>14, <1>15, <1>16,
       <1>17, <1>18, <1>19, <1>20, <1>21 DEF Next, UserCall, DispatchStep

LEMMA TurnsStep ==
  ASSUME StateAssumption, IInv, [Next]_vars
  PROVE  Turns'
  <1>0. /\ TypeOK /\ Placed /\ Intents /\ Ordered /\ Turns /\ dispatch \in Dispatch
        /\ listeners \in Seq(Slots) /\ Len(listeners) \in Nat
        /\ DOMAIN listeners = 1 .. Len(listeners)
    BY DEF IInv, TypeOK
  <1>00. dispatch.index \in Nat /\ dispatch.pass_size \in Nat /\ TypeOK'
    BY <1>0, Basics, TypeStep DEF Dispatch
  <1>01. Len(listeners') \in Nat
    BY <1>00 DEF TypeOK
  <1>a. ASSUME UNCHANGED <<dispatch, listeners, owed>>
        PROVE  Turns'
    BY <1>0, <1>a DEF Turns, Due
  <1>b. ASSUME dispatch'.at \notin {"pass", "callback"}, dispatch'.pass_size = 0, owed' = {}
        PROVE  Turns'
    BY <1>01, <1>b DEF Turns
  <1>c. ASSUME dispatch.at \notin {"pass", "callback"}
        PROVE  owed = {} /\ dispatch.pass_size = 0
    BY <1>0, <1>c DEF Turns
  <1>1. ASSUME NEW v \in Values, NEW conditional \in BOOLEAN, Set(v, conditional)
        PROVE  Turns'
    <2>1. PICK w \in Writes :
            /\ UNCHANGED <<registry, owed>>
            /\ \/ UNCHANGED dispatch
               \/ ~dispatching /\ dispatch' = IF w = NoWrite THEN dispatch ELSE Looping(0)
      BY <1>0, <1>1, SetOp, Zenon
    <2>2. CASE UNCHANGED dispatch
      BY <1>a, <2>1, <2>2 DEF registry
    <2>3. CASE ~dispatching /\ dispatch' = Looping(0)
      BY <1>b, <1>c, <2>1, <2>3, LoopIs DEF dispatching
    <2> QED
      BY <2>1, <2>2, <2>3
  <1>2. CASE Observe
    <2>1. /\ UNCHANGED <<dispatch, owed>>
          /\ Len(listeners') = Len(listeners) + 1
          /\ \A i \in DOMAIN listeners : i \in DOMAIN listeners' /\ listeners'[i] = listeners[i]
      BY <1>0, <1>2, ObserveOp DEF Observe, history
    <2>2. dispatch.pass_size <= Len(listeners)
      BY <1>0 DEF Turns
    <2>3. ASSUME NEW i \in dispatch.index .. dispatch.pass_size
          PROVE  i \in DOMAIN listeners
      <3>1. dispatch.index >= 1
        BY <1>0, Basics DEF Dispatch
      <3> QED
        BY <1>0, <1>00, <2>2, <2>3, <3>1
    <2>4. Due' = Due
      BY <2>1, <2>3 DEF Due
    <2>5. \A i \in Due : listeners'[i] = listeners[i]
      BY <2>1, <2>3 DEF Due
    <2>6. dispatch'.pass_size <= Len(listeners')
      BY <1>0, <1>00, <2>1, <2>2
    <2> QED
      BY <1>0, <2>1, <2>4, <2>5, <2>6 DEF Turns
  <1>3. ASSUME NEW id \in Ids, Unsubscribe(id)
        PROVE  Turns'
    <2>1. UNCHANGED dispatch /\ owed' = owed \ {id}
      BY <1>3 DEF Unsubscribe, queued
    <2>2. CASE dispatching
      <3>1. /\ Len(listeners') = Len(listeners) /\ DOMAIN listeners' = DOMAIN listeners
            /\ \A i \in DOMAIN listeners :
                  /\ listeners'[i].id = listeners[i].id
                  /\ listeners'[i].active <=> listeners[i].active /\ listeners[i].id # id
        BY <1>0, <1>3, <2>2, UnsubscribeOp
      <3>2. Due' = {i \in Due : listeners[i].id # id}
        BY <2>1, <3>1 DEF Due
      <3>3. \A i \in Due : listeners'[i].id = listeners[i].id
        BY <3>1 DEF Due
      <3> QED
        BY <1>0, <2>1, <3>1, <3>2, <3>3 DEF Turns
    <2>3. CASE ~dispatching
      BY <1>b, <1>c, <2>1, <2>3 DEF dispatching
    <2> QED
      BY <2>2, <2>3
  <1>d. ASSUME Invalidate, dispatching, dispatching', UNCHANGED dispatch
        PROVE  Turns'
    <2>1. /\ owed' = {} /\ Len(listeners') = Len(listeners)
          /\ \A i \in DOMAIN listeners' : ~listeners'[i].active
      BY <1>0, <1>d, InvalidateOp
    <2>2. Due' = {}
      BY <2>1 DEF Due
    <2> QED
      BY <1>0, <1>d, <2>1, <2>2 DEF Turns
  <1>4. CASE DestroyOwner
    <2>1. Invalidate /\ UNCHANGED dispatch
      BY <1>4 DEF DestroyOwner
    <2>2. CASE dispatching
      BY <1>d, <2>1, <2>2 DEF dispatching
    <2>3. CASE ~dispatching
      <3>1. owed' = {}
        BY <2>1 DEF Invalidate
      <3> QED
        BY <1>b, <1>c, <2>1, <2>3, <3>1 DEF dispatching
    <2> QED
      BY <2>2, <2>3
  <1>5. CASE ReadBegins
    BY <1>a, <1>5 DEF ReadBegins, registry, history
  <1>6. CASE ReadReturns
    <2>1. UNCHANGED <<registry, history>>
      BY <1>6 DEF ReadReturns
    <2>2. UNCHANGED dispatch \/ (~dispatching /\ dispatch' = Looping(0))
      BY <1>0, <1>6, ReadReturnsOp
    <2>3. CASE UNCHANGED dispatch
      BY <1>a, <2>1, <2>3 DEF registry, history
    <2>4. CASE ~dispatching /\ dispatch' = Looping(0)
      BY <1>b, <1>c, <2>1, <2>4, LoopIs DEF dispatching, history
    <2> QED
      BY <2>2, <2>3, <2>4
  <1>7. CASE ReadThrows
    BY <1>a, <1>7 DEF ReadThrows, registry
  <1>8. ASSUME LeaveDispatch, owed' = {}
        PROVE  Turns'
    BY <1>b, <1>8, LoopIs DEF LeaveDispatch
  <1>9. CASE DispatchEnds
    <2>1. owed' = {}
      BY <1>c, <1>9 DEF DispatchEnds, At
    <2> QED
      BY <1>8, <1>9, <2>1 DEF DispatchEnds
  <1>10. CASE DispatchFails
    BY <1>8, <1>10 DEF DispatchFails
  <1>11. CASE TakeWrite
    <2> DEFINE w == IF copied.intent THEN copied.write ELSE pending
               at == IF w = NoWrite \/ w.v = value THEN "loop"
                     ELSE IF w.conditional THEN "condition" ELSE "commit"
    <2>1. /\ dispatch' = [dispatch EXCEPT !.prepared = w, !.at = at]
          /\ UNCHANGED history /\ dispatch.at = "loop"
      BY <1>0, <1>11, AtIs DEF TakeWrite
    <2>2. at \notin {"pass", "callback"}
      OBVIOUS
    <2> HIDE DEF w, at
    <2>3. dispatch'.at = at /\ dispatch'.pass_size = dispatch.pass_size
      BY <1>0, <2>1 DEF Dispatch
    <2> QED
      BY <1>b, <1>c, <2>1, <2>2, <2>3 DEF history
  <1>12. CASE ConditionReturns
    <2>1. PICK at \in {"loop", "commit"} : dispatch' = [dispatch EXCEPT !.at = at]
      BY <1>12 DEF ConditionReturns
    <2>2. dispatch'.at = at /\ dispatch'.pass_size = dispatch.pass_size
      BY <1>0, <2>1 DEF Dispatch
    <2>3. UNCHANGED owed /\ dispatch.at = "condition"
      BY <1>12 DEF ConditionReturns, At
    <2> QED
      BY <1>b, <1>c, <2>1, <2>2, <2>3
  <1>13. CASE Commit
    <2>1. /\ dispatch' = [dispatch EXCEPT !.at = "pass", !.index = 1, !.pass_size = Len(listeners)]
          /\ owed' = ActiveIds /\ UNCHANGED listeners
      BY <1>13 DEF Commit, registry
    <2>2. dispatch'.at = "pass" /\ dispatch'.index = 1 /\ dispatch'.pass_size = Len(listeners)
      BY <1>0, <2>1 DEF Dispatch
    <2>3. Due' = {j \in DOMAIN listeners : listeners[j].active}
      BY <1>0, <2>1, <2>2 DEF Due
    <2>4. owed' = {listeners'[i].id : i \in Due'}
      BY <2>1, <2>3, ActiveIs
    <2>5. dispatch'.pass_size <= Len(listeners')
      BY <1>0, <2>1, <2>2
    <2> QED
      BY <2>2, <2>4, <2>5 DEF Turns
  <1>14. CASE RetiredByMove
    <2>1. /\ owed' = {} /\ dispatch' = [dispatch EXCEPT !.at = "loop"] /\ dispatch.at = "commit"
      BY <1>14 DEF RetiredByMove, Invalidate, At
    <2>2. dispatch'.at = "loop" /\ dispatch'.pass_size = dispatch.pass_size
      BY <1>0, <2>1 DEF Dispatch
    <2> QED
      BY <1>b, <1>c, <2>1, <2>2
  <1>15. CASE WriteFails
    BY <1>10, <1>15 DEF WriteFails
  <1>16. CASE NextCallback
    <2>1. PICK i \in Due :
            /\ \A k \in Due : i <= k
            /\ dispatch' = [dispatch EXCEPT !.at = "callback", !.index = i + 1]
            /\ owed' = owed \ {listeners[i].id}
            /\ UNCHANGED registry
            /\ dispatch.at = "pass"
            /\ i \in DOMAIN listeners /\ i \in dispatch.index .. dispatch.pass_size
      BY <1>0, <1>00, <1>16, NextOp, Zenon
    <2>2. /\ dispatch'.at = "callback" /\ dispatch'.index = i + 1
          /\ dispatch'.pass_size = dispatch.pass_size
      BY <1>0, <2>1 DEF Dispatch
    <2>3. i \in Nat /\ i >= dispatch.index /\ i <= dispatch.pass_size /\ listeners' = listeners
      BY <1>00, <2>1 DEF registry
    <2>4. Due' = Due \ {i}
      <3>1. ASSUME NEW k
            PROVE  k \in Due' <=> k \in Due /\ k # i
        <4>1. k \in Due => k \in dispatch.index .. dispatch.pass_size /\ i <= k
          BY <2>1 DEF Due
        <4>2. k \in Due' <=> /\ k \in i + 1 .. dispatch.pass_size
                             /\ k \in DOMAIN listeners /\ listeners[k].active
          BY <2>2, <2>3 DEF Due
        <4>3. k \in Due <=> /\ k \in dispatch.index .. dispatch.pass_size
                            /\ k \in DOMAIN listeners /\ listeners[k].active
          BY DEF Due
        <4> QED
          BY <1>00, <2>3, <4>1, <4>2, <4>3
      <3> QED
        BY <3>1
    <2>5. ASSUME NEW k \in Due, k # i
          PROVE  listeners[k].id # listeners[i].id
      <3>1. k \in DOMAIN listeners /\ i \in DOMAIN listeners
        BY <2>1, <2>5 DEF Due
      <3>2. listeners[k] \in Slots /\ listeners[i] \in Slots /\ k \in Nat
        BY <1>0, <3>1
      <3>3. listeners[k].id \in Int /\ listeners[i].id \in Int
        BY <3>2, Basics DEF Slots, Ids
      <3>4. i < k => listeners[i].id < listeners[k].id
        BY <1>0, <3>1 DEF Ordered
      <3>5. k < i => listeners[k].id < listeners[i].id
        BY <1>0, <3>1 DEF Ordered
      <3> QED
        BY <2>3, <2>5, <3>2, <3>3, <3>4, <3>5
    <2>6. owed' = {listeners'[k].id : k \in Due'}
      <3>1. owed = {listeners[k].id : k \in Due}
        BY <1>0, <2>1 DEF Turns
      <3> QED
        BY <2>1, <2>3, <2>4, <2>5, <3>1
    <2>7. dispatch'.pass_size <= Len(listeners')
      BY <1>0, <2>2, <2>3 DEF Turns
    <2>8. dispatch'.index - 1 \in 1 .. dispatch'.pass_size
      <3>1. dispatch.index >= 1
        BY <1>0, Basics DEF Dispatch
      <3> QED
        BY <1>00, <2>2, <2>3, <3>1
    <2> QED
      BY <2>2, <2>6, <2>7, <2>8 DEF Turns
  <1>17. CASE CallbackReturns
    <2>1. /\ dispatch' = [dispatch EXCEPT !.at = "pass"]
          /\ UNCHANGED <<listeners, owed>> /\ dispatch.at = "callback"
      BY <1>17 DEF CallbackReturns, At, registry, history
    <2>2. /\ dispatch'.at = "pass" /\ dispatch'.index = dispatch.index
          /\ dispatch'.pass_size = dispatch.pass_size
      BY <1>0, <2>1 DEF Dispatch
    <2> QED
      BY <1>0, <2>1, <2>2 DEF Turns, Due
  <1>18. CASE CallbackThrows
    BY <1>10, <1>18 DEF CallbackThrows
  <1>19. CASE PassEnds
    <2>1. /\ dispatch' = Looping(0) /\ UNCHANGED <<registry, history>>
          /\ ~owner_alive \/ Due = {}
          /\ dispatch.at = "pass"
      BY <1>0, <1>19 DEF PassEnds, Placed, At
    <2>2. owed = {}
      BY <1>0, <2>1 DEF Turns, Intents
    <2> QED
      BY <1>b, <2>1, <2>2, LoopIs DEF history
  <1>20. CASE UNCHANGED vars
    BY <1>a, <1>20 DEF vars, registry, history
  <1>21. [Next]_vars
    OBVIOUS
  <1> QED
    BY <1>1, <1>2, <1>3, <1>4, <1>5, <1>6, <1>7, <1>9, <1>11, <1>12, <1>13, <1>14, <1>15, <1>16,
       <1>17, <1>18, <1>19, <1>20, <1>21 DEF Next, UserCall, DispatchStep

\* A write keeps its number: it is one that was made.
LEMMA NewerStep ==
  ASSUME StateAssumption, ~ConditionsRestore, IInv, WInv, [Next]_vars
  PROVE  Newer'
  <1>0. /\ TypeOK /\ Placed /\ Intents /\ Ordered /\ Turns /\ Newer /\ dispatch \in Dispatch
        /\ writes \in Nat /\ NoWrite.n = 0 /\ NoIntent.write.n = 0 /\ ~NoIntent.intent
        /\ MaxWrites \in Nat /\ \A w \in Writes : w.n \in Nat
    BY Basics DEF IInv, WInv, TypeOK, NoWrite, NoIntent
  <1>01. /\ dispatch.prepared \in Writes /\ pending \in Writes /\ copied.write \in Writes
         /\ reads \in Seq(Frames) /\ Len(reads) \in Nat /\ DOMAIN reads = 1 .. Len(reads)
    BY <1>0 DEF TypeOK, Dispatch, Intent
  <1>02. \A i \in DOMAIN reads : reads[i].pending.write \in Writes
    <2>1. \A i \in DOMAIN reads : reads[i] \in Frames
      BY <1>01
    <2> QED
      BY <2>1 DEF Frames, Intent
  <1>a. ASSUME UNCHANGED <<dispatch, queued, reads, writes>>
        PROVE  Newer'
    BY <1>0, <1>a DEF Newer, Preparing, queued
  <1>b. ASSUME UNCHANGED reads, writes' = writes,
               UNCHANGED queued \/ (pending' = NoWrite /\ copied' = NoIntent),
               dispatch'.at \notin {"condition", "commit"}, dispatch'.prepared.n <= writes
        PROVE  Newer'
    BY <1>0, <1>b DEF Newer, Preparing, queued
  <1>1. ASSUME NEW v \in Values, NEW conditional \in BOOLEAN, Set(v, conditional)
        PROVE  Newer'
    <2>1. PICK w \in Writes :
            /\ \/ w = NoWrite /\ v = value
               \/ w # NoWrite /\ v # value /\ w.v = v /\ w.n = writes + 1
            /\ writes' = writes + 1 /\ writes' \in 0 .. MaxWrites
            /\ latest' = [n |-> writes', v |-> v] /\ latest' \in LatestWrites
            /\ owner_alive /\ UNCHANGED <<published, registry, owed>>
            /\ \/ /\ reads # <<>>
                  /\ reads' \in Seq(Frames) /\ Len(reads') = Len(reads)
                  /\ \A i \in DOMAIN reads :
                        reads'[i] = IF i = Len(reads)
                                    THEN [pending |-> [intent |-> TRUE, write |-> w],
                                          before |-> reads[i].before]
                                    ELSE reads[i]
                  /\ UNCHANGED <<queued, dispatch>>
               \/ /\ reads = <<>> /\ dispatching
                  /\ copied' = NoIntent /\ pending' = w
                  /\ UNCHANGED <<dispatch, reads>>
               \/ /\ reads = <<>> /\ ~dispatching
                  /\ pending' = w
                  /\ dispatch' = IF w = NoWrite THEN dispatch ELSE Looping(0)
                  /\ UNCHANGED <<copied, reads>>
      BY <1>0, <1>1, SetOp, Zenon
    <2>2. /\ InUserCode /\ (Preparing => dispatch.at = "condition")
          /\ dispatch.at = "condition" => v # value
      <3>1. InUserCode /\ (dispatch.at = "condition" => v # value)
        BY <1>1 DEF Set
      <3>2. dispatch.at # "commit"
        BY <1>0, <3>1 DEF InUserCode, Placed
      <3> QED
        BY <3>1, <3>2 DEF Preparing
    <2>3. w.n <= writes + 1 /\ (Preparing => w.n = writes + 1)
      BY <1>0, <2>1, <2>2
    <2>4. CASE /\ reads # <<>> /\ reads' \in Seq(Frames) /\ Len(reads') = Len(reads)
               /\ \A i \in DOMAIN reads :
                     reads'[i] = IF i = Len(reads)
                                 THEN [pending |-> [intent |-> TRUE, write |-> w],
                                       before |-> reads[i].before]
                                 ELSE reads[i]
               /\ UNCHANGED <<queued, dispatch>>
      <3>1. DOMAIN reads' = DOMAIN reads
        BY <1>01, <2>4
      <3>2. dispatch'.prepared.n <= writes' /\ pending'.n <= writes' /\ copied'.write.n <= writes'
        BY <1>0, <1>01, <2>1, <2>4 DEF Newer, queued
      <3>3. ASSUME NEW i \in DOMAIN reads'
            PROVE  /\ reads'[i].pending.write.n <= writes'
                   /\ Preparing /\ reads'[i].pending.intent
                        => reads'[i].pending.write.n > dispatch'.prepared.n
        BY <1>0, <1>01, <1>02, <2>1, <2>3, <2>4, <3>1, <3>3 DEF Newer
      <3> QED
        BY <1>0, <2>4, <3>2, <3>3 DEF Newer, Preparing, queued
    <2>5. CASE /\ reads = <<>> /\ dispatching
               /\ copied' = NoIntent /\ pending' = w
               /\ UNCHANGED <<dispatch, reads>>
      <3>1. \A i \in DOMAIN reads' : FALSE
        BY <2>5
      <3> QED
        BY <1>0, <1>01, <2>1, <2>3, <2>5, <3>1 DEF Newer, Preparing
    <2>6. CASE /\ reads = <<>> /\ ~dispatching
               /\ pending' = w
               /\ dispatch' = IF w = NoWrite THEN dispatch ELSE Looping(0)
               /\ UNCHANGED <<copied, reads>>
      <3>1. \A i \in DOMAIN reads' : FALSE
        BY <2>6
      <3>2. dispatch'.at \notin {"condition", "commit"} /\ dispatch'.prepared.n <= writes
        BY <1>0, <1>01, <2>6, LoopIs DEF dispatching, Newer
      <3> QED
        <4>1. dispatch'.prepared.n \in Nat
          BY <1>0, <1>01, <2>6, LoopIs
        <4>2. dispatch'.prepared.n <= writes' /\ pending'.n <= writes' /\ copied'.write.n <= writes'
          BY <1>0, <1>01, <2>1, <2>3, <2>6, <3>2, <4>1 DEF Newer
        <4> QED
          BY <3>1, <3>2, <4>2 DEF Newer, Preparing
    <2> QED
      BY <2>1, <2>4, <2>5, <2>6
  <1>2. CASE Observe
    BY <1>a, <1>2 DEF Observe, history
  <1>3. ASSUME NEW id \in Ids, Unsubscribe(id)
        PROVE  Newer'
    BY <1>a, <1>3 DEF Unsubscribe
  <1>4. CASE DestroyOwner
    <2>1. /\ pending' = NoWrite /\ copied' = NoIntent
          /\ UNCHANGED <<dispatch, reads, writes>> /\ dispatch.at # "commit"
      BY <1>0, <1>4 DEF DestroyOwner, Invalidate, InUserCode, Placed
    <2> QED
      BY <1>0, <2>1 DEF Newer, Preparing
  <1>5. CASE ReadBegins
    <2>1. /\ UNCHANGED <<queued, dispatch, history>>
          /\ DOMAIN reads' = 1 .. Len(reads) + 1
          /\ reads'[Len(reads) + 1] = [pending |-> NoIntent, before |-> latest]
          /\ \A i \in 1 .. Len(reads) : reads'[i] = reads[i]
      BY <1>0, <1>5, ReadBeginsOp
    <2>2. \A i \in DOMAIN reads' : i = Len(reads) + 1 \/ i \in DOMAIN reads
      BY <1>01, <2>1
    <2>3. ASSUME NEW i \in DOMAIN reads'
          PROVE  /\ reads'[i].pending.write.n <= writes
                 /\ Preparing /\ reads'[i].pending.intent
                      => reads'[i].pending.write.n > dispatch.prepared.n
      BY <1>0, <1>01, <2>1, <2>2, <2>3 DEF Newer
    <2> QED
      BY <1>0, <2>1, <2>3 DEF Newer, Preparing, queued, history
  <1>6. CASE ReadReturns
    <2> DEFINE n == Len(reads)
               done == reads[n].pending
    <2>1. /\ n \in Nat \ {0} /\ DOMAIN reads' = 1 .. n - 1
          /\ UNCHANGED <<pending, history>>
      BY <1>0, <1>6, ReadReturnsOp
    <2>2. \/ /\ done.intent
             /\ UNCHANGED <<copied, dispatch>>
             /\ \A i \in 1 .. n - 1 : reads'[i] = IF i = n - 1
                                                  THEN [pending |-> done, before |-> reads[i].before]
                                                  ELSE reads[i]
          \/ /\ done.intent /\ n = 1 /\ copied' = done
             /\ dispatch' = IF dispatching THEN dispatch ELSE Looping(0)
          \/ /\ UNCHANGED <<copied, dispatch>>
             /\ \A i \in 1 .. n - 1 : reads'[i] = reads[i]
      BY <1>0, <1>6, ReadReturnsOp
    <2>3. /\ done.write.n <= writes
          /\ Preparing /\ done.intent => done.write.n > dispatch.prepared.n
      BY <1>0, <1>01, <2>1 DEF Newer
    <2>4. \A i \in DOMAIN reads' : i \in DOMAIN reads
      BY <1>01, <2>1
    <2> HIDE DEF n, done
    <2>5. ASSUME NEW i \in DOMAIN reads'
          PROVE  /\ reads'[i].pending.write.n <= writes
                 /\ Preparing /\ reads'[i].pending.intent
                      => reads'[i].pending.write.n > dispatch.prepared.n
      <3>1. i \in 1 .. n - 1 /\ i \in DOMAIN reads
        BY <2>1, <2>4, <2>5
      <3>2. n # 1
        BY <2>1, <3>1
      <3> QED
        <4>1. (done.intent /\ reads'[i].pending = done) \/ reads'[i].pending = reads[i].pending
          <5>1. CASE /\ done.intent
                     /\ \A k \in 1 .. n - 1 :
                           reads'[k] = IF k = n - 1
                                       THEN [pending |-> done, before |-> reads[k].before]
                                       ELSE reads[k]
            <6>1. CASE i = n - 1
              <7>1. reads'[i] = [pending |-> done, before |-> reads[i].before]
                BY <3>1, <5>1, <6>1
              <7>2. reads'[i].pending = done
                BY <7>1
              <7> QED
                BY <5>1, <7>2
            <6>2. CASE i # n - 1
              BY <3>1, <5>1, <6>2
            <6> QED
              BY <6>1, <6>2
          <5>2. CASE \A k \in 1 .. n - 1 : reads'[k] = reads[k]
            BY <3>1, <5>2
          <5> QED
            BY <2>2, <3>2, <5>1, <5>2
        <4> QED
          BY <1>0, <2>3, <3>1, <4>1 DEF Newer
    <2>6. CASE UNCHANGED <<copied, dispatch>>
      BY <1>0, <2>1, <2>5, <2>6 DEF Newer, Preparing, history
    <2>7. CASE /\ copied' = done /\ done.intent
               /\ dispatch' = IF dispatching THEN dispatch ELSE Looping(0)
      <3>1. CASE dispatching
        BY <1>0, <2>1, <2>3, <2>5, <2>7, <3>1 DEF Newer, Preparing, history
      <3>2. CASE ~dispatching
        <4>1. dispatch'.at = "loop" /\ dispatch'.prepared.n = 0
          BY <1>0, <2>7, <3>2, LoopIs
        <4>2. ~Preparing' /\ dispatch'.prepared.n <= writes'
          BY <1>0, <2>1, <4>1 DEF Preparing, history
        <4> QED
          BY <1>0, <2>1, <2>3, <2>5, <2>7, <4>2 DEF Newer, history
      <3> QED
        BY <3>1, <3>2
    <2> QED
      BY <2>2, <2>6, <2>7
  <1>7. CASE ReadThrows
    <2>1. /\ Len(reads) \in Nat \ {0} /\ DOMAIN reads' = 1 .. Len(reads) - 1
          /\ UNCHANGED <<queued, dispatch, writes>>
          /\ \A i \in 1 .. Len(reads) - 1 : reads'[i] = reads[i]
      BY <1>0, <1>7, ReadThrowsOp
    <2>2. \A i \in DOMAIN reads' : i \in DOMAIN reads
      BY <1>01, <2>1
    <2> QED
      BY <1>0, <2>1, <2>2 DEF Newer, Preparing, queued
  <1>8. ASSUME LeaveDispatch, UNCHANGED queued \/ (pending' = NoWrite /\ copied' = NoIntent)
        PROVE  Newer'
    BY <1>0, <1>b, <1>8, LoopIs DEF LeaveDispatch
  <1>9. CASE DispatchEnds
    BY <1>8, <1>9 DEF DispatchEnds
  <1>10. CASE DispatchFails
    BY <1>8, <1>10 DEF DispatchFails
  <1>11. CASE TakeWrite
    <2> DEFINE w == IF copied.intent THEN copied.write ELSE pending
               at == IF w = NoWrite \/ w.v = value THEN "loop"
                     ELSE IF w.conditional THEN "condition" ELSE "commit"
    <2>1. /\ dispatch' = [dispatch EXCEPT !.prepared = w, !.at = at]
          /\ pending' = NoWrite /\ copied' = NoIntent
          /\ UNCHANGED <<reads, history>> /\ reads = <<>>
      BY <1>0, <1>11, AtIs DEF TakeWrite
    <2>2. w.n <= writes
      BY <1>0 DEF Newer
    <2> HIDE DEF w, at
    <2>3. dispatch'.prepared = w
      BY <1>0, <2>1 DEF Dispatch
    <2>4. \A i \in DOMAIN reads' : FALSE
      BY <2>1
    <2> QED
      BY <1>0, <2>1, <2>2, <2>3, <2>4 DEF Newer, history
  <1>12. CASE ConditionReturns
    <2>1. PICK at \in {"loop", "commit"} : dispatch' = [dispatch EXCEPT !.at = at]
      BY <1>12 DEF ConditionReturns
    <2>2. dispatch'.prepared = dispatch.prepared
      BY <1>0, <2>1 DEF Dispatch
    <2>3. UNCHANGED <<queued, reads, writes>> /\ dispatch.at = "condition"
      BY <1>12 DEF ConditionReturns, At
    <2> QED
      BY <1>0, <2>2, <2>3 DEF Newer, Preparing, queued
  <1>13. CASE Commit
    <2>1. /\ dispatch' = [dispatch EXCEPT !.at = "pass", !.index = 1, !.pass_size = Len(listeners)]
          /\ UNCHANGED <<queued, reads, writes>>
      BY <1>13 DEF Commit
    <2>2. dispatch'.at = "pass" /\ dispatch'.prepared = dispatch.prepared
      BY <1>0, <2>1 DEF Dispatch
    <2> QED
      BY <1>0, <1>b, <2>1, <2>2 DEF Newer
  <1>14. CASE RetiredByMove
    <2>1. /\ dispatch' = [dispatch EXCEPT !.at = "loop"] /\ pending' = NoWrite /\ copied' = NoIntent
          /\ UNCHANGED <<reads, writes>>
      BY <1>14 DEF RetiredByMove, Invalidate
    <2>2. dispatch'.at = "loop" /\ dispatch'.prepared = dispatch.prepared
      BY <1>0, <2>1 DEF Dispatch
    <2> QED
      BY <1>0, <1>b, <2>1, <2>2 DEF Newer
  <1>15. CASE WriteFails
    BY <1>10, <1>15 DEF WriteFails
  <1>16. CASE NextCallback
    <2>1. PICK i \in Due :
            /\ dispatch' = [dispatch EXCEPT !.at = "callback", !.index = i + 1]
            /\ UNCHANGED <<queued, reads, writes>>
      BY <1>0, <1>16, NextOp, Zenon
    <2>2. dispatch'.at = "callback" /\ dispatch'.prepared = dispatch.prepared
      BY <1>0, <2>1 DEF Dispatch
    <2> QED
      BY <1>0, <1>b, <2>1, <2>2 DEF Newer
  <1>17. CASE CallbackReturns
    <2>1. /\ dispatch' = [dispatch EXCEPT !.at = "pass"]
          /\ UNCHANGED <<queued, reads, writes>>
      BY <1>17 DEF CallbackReturns, history
    <2>2. dispatch'.at = "pass" /\ dispatch'.prepared = dispatch.prepared
      BY <1>0, <2>1 DEF Dispatch
    <2> QED
      BY <1>0, <1>b, <2>1, <2>2 DEF Newer
  <1>18. CASE CallbackThrows
    BY <1>10, <1>18 DEF CallbackThrows
  <1>19. CASE PassEnds
    <2>1. dispatch' = Looping(0) /\ UNCHANGED <<queued, reads, history>>
      BY <1>0, <1>19 DEF PassEnds, Placed
    <2> QED
      BY <1>0, <1>b, <2>1, LoopIs DEF history
  <1>20. CASE UNCHANGED vars
    BY <1>a, <1>20 DEF vars, history
  <1>21. [Next]_vars
    OBVIOUS
  <1> QED
    BY <1>1, <1>2, <1>3, <1>4, <1>5, <1>6, <1>7, <1>9, <1>11, <1>12, <1>13, <1>14, <1>15, <1>16,
       <1>17, <1>18, <1>19, <1>20, <1>21 DEF Next, UserCall, DispatchStep

\* The latest write is where it was, or where the step put it.
LEMMA LatestStep ==
  ASSUME StateAssumption, ~ConditionsRestore, IInv, WInv, [Next]_vars
  PROVE  Latest'
  <1>0. /\ TypeOK /\ Placed /\ Intents /\ Ordered /\ Turns /\ Newer /\ Latest
        /\ dispatch \in Dispatch
        /\ writes \in Nat /\ NoWrite.n = 0 /\ NoIntent.write = NoWrite /\ ~NoIntent.intent
        /\ MaxWrites \in Nat /\ \A w \in Writes : w.n \in Nat
    BY Basics DEF IInv, WInv, TypeOK, NoWrite, NoIntent
  <1>01. /\ dispatch.prepared \in Writes /\ pending \in Writes /\ copied.write \in Writes
         /\ reads \in Seq(Frames) /\ Len(reads) \in Nat /\ DOMAIN reads = 1 .. Len(reads)
    BY <1>0 DEF TypeOK, Dispatch, Intent
  <1>02. Preparing => /\ dispatch.prepared # NoWrite
                      /\ pending # NoWrite => pending.n > dispatch.prepared.n
                      /\ copied.intent => /\ copied.write.n > dispatch.prepared.n
                                          /\ copied.write # NoWrite
    BY <1>0, <1>01 DEF Newer, Placed
  <1>03. reads = <<>> /\ owner_alive => Queues(latest)
    BY <1>0 DEF Latest
  <1>a. ASSUME UNCHANGED <<value, dispatch, queued, reads, latest, owner_alive>>
        PROVE  Latest'
    BY <1>0, <1>a DEF Latest, Queues, Reads, Means, Preparing, queued
  <1>b. ASSUME reads' = <<>>, owner_alive' => Queues(latest)'
        PROVE  Latest'
    <2>1. \A i \in DOMAIN reads' : FALSE
      BY <1>b
    <2> QED
      BY <1>b, <2>1 DEF Latest
  <1>c. ASSUME ~owner_alive'
        PROVE  Latest'
    BY <1>c DEF Latest
  <1>1. ASSUME NEW v \in Values, NEW conditional \in BOOLEAN, Set(v, conditional)
        PROVE  Latest'
    <2>1. PICK w \in Writes :
            /\ \/ w = NoWrite /\ v = value
               \/ w # NoWrite /\ v # value /\ w.v = v /\ w.n = writes + 1
            /\ writes' = writes + 1 /\ writes' \in 0 .. MaxWrites
            /\ latest' = [n |-> writes', v |-> v] /\ latest' \in LatestWrites
            /\ owner_alive /\ UNCHANGED <<published, registry, owed>>
            /\ \/ /\ reads # <<>>
                  /\ reads' \in Seq(Frames) /\ Len(reads') = Len(reads)
                  /\ \A i \in DOMAIN reads :
                        reads'[i] = IF i = Len(reads)
                                    THEN [pending |-> [intent |-> TRUE, write |-> w],
                                          before |-> reads[i].before]
                                    ELSE reads[i]
                  /\ UNCHANGED <<queued, dispatch>>
               \/ /\ reads = <<>> /\ dispatching
                  /\ copied' = NoIntent /\ pending' = w
                  /\ UNCHANGED <<dispatch, reads>>
               \/ /\ reads = <<>> /\ ~dispatching
                  /\ pending' = w
                  /\ dispatch' = IF w = NoWrite THEN dispatch ELSE Looping(0)
                  /\ UNCHANGED <<copied, reads>>
      BY <1>0, <1>1, SetOp, Zenon
    <2>2. Preparing => v # value
      <3>1. InUserCode /\ (dispatch.at = "condition" => v # value)
        BY <1>0, <1>1 DEF Set
      <3>2. dispatch.at # "commit"
        BY <1>0, <3>1 DEF InUserCode, Placed
      <3> QED
        BY <3>1, <3>2 DEF Preparing
    <2>3. IF w = NoWrite THEN latest'.v = value' ELSE latest' = [n |-> w.n, v |-> w.v]
      BY <2>1 DEF published
    <2>4. CASE /\ reads # <<>> /\ reads' \in Seq(Frames) /\ Len(reads') = Len(reads)
               /\ \A i \in DOMAIN reads :
                     reads'[i] = IF i = Len(reads)
                                 THEN [pending |-> [intent |-> TRUE, write |-> w],
                                       before |-> reads[i].before]
                                 ELSE reads[i]
               /\ UNCHANGED <<queued, dispatch>>
      <3>1. DOMAIN reads' = DOMAIN reads /\ Len(reads) \in DOMAIN reads
        BY <1>01, <2>4
      <3>2. reads'[Len(reads)].pending = [intent |-> TRUE, write |-> w]
        <4>1. reads'[Len(reads)] = [pending |-> [intent |-> TRUE, write |-> w],
                                    before |-> reads[Len(reads)].before]
          BY <2>4, <3>1
        <4> QED
          BY <4>1
      <3>3. Reads(Len(reads), latest)'
        BY <2>3, <2>4, <3>2 DEF Reads, Means
      <3>4. ASSUME NEW i \in DOMAIN reads
            PROVE  reads'[i].before = reads[i].before
        <4>1. CASE i = Len(reads)
          <5>1. reads'[i] = [pending |-> [intent |-> TRUE, write |-> w], before |-> reads[i].before]
            BY <2>4, <4>1
          <5> QED
            BY <5>1
        <4>2. CASE i # Len(reads)
          BY <2>4, <4>2
        <4> QED
          BY <4>1, <4>2
      <3>5. ASSUME NEW i \in DOMAIN reads', i # 1
            PROVE  i - 1 \in DOMAIN reads /\ reads'[i - 1] = reads[i - 1]
        <4>1. i - 1 \in DOMAIN reads /\ i - 1 # Len(reads)
          BY <1>01, <3>1, <3>5
        <4> QED
          BY <2>4, <4>1
      <3>6. ASSUME NEW i \in DOMAIN reads'
            PROVE  IF i = 1 THEN Queues(reads[i].before)' ELSE Reads(i - 1, reads[i].before)'
        <4>1. CASE i = 1
          <5>1. Queues(reads[1].before) /\ reads'[1].before = reads[1].before
            BY <1>0, <2>1, <3>1, <3>4, <3>6, <4>1 DEF Latest
          <5> QED
            BY <2>1, <2>4, <4>1, <5>1 DEF Queues, Means, Preparing, queued, published
        <4>2. CASE i # 1
          <5>1. Reads(i - 1, reads[i].before) /\ reads'[i].before = reads[i].before
            BY <1>0, <2>1, <3>1, <3>4, <3>6, <4>2 DEF Latest
          <5> QED
            BY <2>1, <3>5, <3>6, <4>2, <5>1 DEF Reads, Means, published
        <4> QED
          BY <4>1, <4>2
      <3>7. reads' # <<>> /\ Len(reads') = Len(reads)
        BY <2>4, <3>1
      <3> QED
        BY <3>3, <3>6, <3>7 DEF Latest
    <2>5. CASE /\ reads = <<>> /\ dispatching
               /\ copied' = NoIntent /\ pending' = w
               /\ UNCHANGED <<dispatch, reads>>
      <3>1. Queues(latest)'
        BY <1>0, <2>1, <2>2, <2>3, <2>5 DEF Queues, Means, Preparing, published
      <3> QED
        BY <1>b, <2>5, <3>1
    <2>6. CASE /\ reads = <<>> /\ ~dispatching
               /\ pending' = w
               /\ dispatch' = IF w = NoWrite THEN dispatch ELSE Looping(0)
               /\ UNCHANGED <<copied, reads>>
      <3>1. ~copied'.intent /\ ~Preparing'
        BY <1>0, <2>6, LoopIs DEF Placed, Preparing, dispatching
      <3>2. Queues(latest)'
        BY <2>1, <2>3, <2>6, <3>1 DEF Queues, Means
      <3> QED
        BY <1>b, <2>6, <3>2
    <2> QED
      BY <2>1, <2>4, <2>5, <2>6
  <1>2. CASE Observe
    BY <1>a, <1>2 DEF Observe, published, history
  <1>3. ASSUME NEW id \in Ids, Unsubscribe(id)
        PROVE  Latest'
    BY <1>a, <1>3 DEF Unsubscribe, published
  <1>4. CASE DestroyOwner
    BY <1>c, <1>4 DEF DestroyOwner, Invalidate
  <1>5. CASE ReadBegins
    <2>0. PICK n \in Nat : n = Len(reads)
      BY <1>01
    <2>1. /\ UNCHANGED <<published, registry, queued, dispatch, history>>
          /\ DOMAIN reads = 1 .. n /\ DOMAIN reads' = 1 .. n + 1 /\ Len(reads') = n + 1
          /\ reads'[n + 1] = [pending |-> NoIntent, before |-> latest]
          /\ \A i \in 1 .. n : reads'[i] = reads[i]
      BY <1>0, <1>5, <2>0, ReadBeginsOp
    <2>2. CASE owner_alive
      <3>1. Reads(n + 1, latest)'
        <4>1. ~reads'[n + 1].pending.intent /\ latest' = reads'[n + 1].before
          BY <1>0, <2>1 DEF history
        <4> QED
          BY <4>1 DEF Reads
      <3>2. ASSUME NEW i \in DOMAIN reads'
            PROVE  IF i = 1 THEN Queues(reads[i].before)' ELSE Reads(i - 1, reads[i].before)'
        <4>1. CASE i = 1
          <5>1. Queues(reads'[1].before)
            <6>1. CASE n = 0
              <7>1. reads = <<>> /\ reads'[1].before = latest
                BY <1>01, <2>0, <2>1, <6>1, EmptySeq
              <7> QED
                BY <1>03, <2>2, <7>1
            <6>2. CASE n # 0
              <7>1. 1 \in DOMAIN reads /\ reads'[1] = reads[1]
                BY <2>1, <6>2
              <7> QED
                BY <1>0, <2>2, <7>1 DEF Latest
            <6> QED
              BY <6>1, <6>2
          <5> QED
            BY <2>1, <4>1, <5>1 DEF Queues, Means, Preparing, queued, published
        <4>2. CASE i # 1
          <5>1. i - 1 \in DOMAIN reads /\ reads'[i - 1] = reads[i - 1]
            BY <2>1, <3>2, <4>2
          <5>2. Reads(i - 1, reads'[i].before)
            <6>1. CASE i = n + 1
              <7>1. reads'[i].before = latest /\ i - 1 = Len(reads) /\ reads # <<>>
                BY <2>0, <2>1, <4>2, <5>1, <6>1
              <7> QED
                BY <1>0, <2>2, <7>1 DEF Latest
            <6>2. CASE i # n + 1
              <7>1. i \in DOMAIN reads /\ reads'[i] = reads[i]
                BY <2>1, <3>2, <6>2
              <7> QED
                BY <1>0, <2>2, <4>2, <7>1 DEF Latest
            <6> QED
              BY <6>1, <6>2
          <5> QED
            BY <2>1, <5>1, <5>2 DEF Reads, Means, published
        <4> QED
          BY <4>1, <4>2
      <3>3. reads' # <<>> /\ Len(reads') = n + 1
        BY <2>1
      <3> QED
        BY <3>1, <3>2, <3>3 DEF Latest
    <2>3. CASE ~owner_alive
      BY <1>c, <2>1, <2>3 DEF registry
    <2> QED
      BY <2>2, <2>3

  <1>d. ASSUME reads # <<>>, UNCHANGED <<published, queued, dispatch, owner_alive>>,
               reads' \in Seq(Frames), Len(reads') = Len(reads) - 1,
               \A i \in 1 .. Len(reads) - 1 : reads'[i] = reads[i],
               latest' = reads[Len(reads)].before
        PROVE  Latest'
    <2>0. PICK n \in Nat : n = Len(reads)
      BY <1>01
    <2>1. /\ n \in Nat \ {0} /\ DOMAIN reads = 1 .. n /\ DOMAIN reads' = 1 .. n - 1
          /\ Len(reads') = n - 1
      BY <1>01, <1>d, <2>0, EmptySeq
    <2>2. ASSUME owner_alive
          PROVE  Latest'
      <3>1. ASSUME NEW i \in DOMAIN reads'
            PROVE  IF i = 1 THEN Queues(reads[i].before)' ELSE Reads(i - 1, reads[i].before)'
        <4>1. i \in DOMAIN reads /\ reads'[i] = reads[i] /\ (i # 1 => reads'[i - 1] = reads[i - 1])
          BY <1>d, <2>0, <2>1, <3>1
        <4>2. IF i = 1 THEN Queues(reads[i].before) ELSE Reads(i - 1, reads[i].before)
          BY <1>0, <2>2, <4>1 DEF Latest
        <4>3. CASE i = 1
          BY <1>d, <4>1, <4>2, <4>3 DEF Queues, Means, Preparing, queued, published
        <4>4. CASE i # 1
          BY <1>d, <4>1, <4>2, <4>4 DEF Reads, Means, published
        <4> QED
          BY <4>3, <4>4
      <3>2. CASE n = 1
        <4>1. reads' = <<>> /\ Queues(latest')
          <5>1. reads' = <<>>
            BY <1>d, <2>1, <3>2, EmptySeq
          <5>2. Queues(reads[1].before)
            BY <1>0, <2>1, <2>2, <3>2 DEF Latest
          <5> QED
            BY <1>d, <2>0, <3>2, <5>1, <5>2
        <4>2. Queues(latest)'
          BY <1>d, <4>1 DEF Queues, Means, Preparing, queued, published
        <4> QED
          BY <1>b, <4>1, <4>2
      <3>3. CASE n # 1
        <4>1. /\ n - 1 \in DOMAIN reads' /\ reads' # <<>> /\ reads'[n - 1] = reads[n - 1]
              /\ n \in DOMAIN reads
          BY <1>d, <2>0, <2>1, <3>3
        <4>2. Reads(n - 1, latest')
          BY <1>0, <1>d, <2>0, <2>2, <3>3, <4>1 DEF Latest
        <4>3. Reads(n - 1, latest)'
          BY <1>d, <4>1, <4>2 DEF Reads, Means, published
        <4> QED
          BY <2>1, <3>1, <4>1, <4>3 DEF Latest
      <3> QED
        BY <3>2, <3>3
    <2> QED
      BY <1>c, <1>d, <2>2
  <1>6. CASE ReadReturns
    <2>0. PICK n, done : n = Len(reads) /\ done = reads[n].pending
      OBVIOUS
    <2>1. /\ n \in Nat \ {0} /\ DOMAIN reads = 1 .. n
          /\ UNCHANGED <<published, registry, pending, history>>
          /\ reads' \in Seq(Frames) /\ Len(reads') = n - 1 /\ DOMAIN reads' = 1 .. n - 1
      BY <1>0, <1>6, <2>0, ReadReturnsOp
    <2>2. \/ /\ owner_alive /\ done.intent /\ n > 1
             /\ UNCHANGED <<copied, dispatch>>
             /\ \A i \in 1 .. n - 1 : reads'[i] = IF i = n - 1
                                                  THEN [pending |-> done, before |-> reads[i].before]
                                                  ELSE reads[i]
          \/ owner_alive /\ done.intent /\ n = 1 /\ copied' = done
          \/ /\ ~(owner_alive /\ done.intent)
             /\ UNCHANGED <<copied, dispatch>>
             /\ \A i \in 1 .. n - 1 : reads'[i] = reads[i]
      BY <1>0, <1>6, <2>0, ReadReturnsOp
    <2>3. reads # <<>> /\ (owner_alive => Reads(n, latest))
      BY <1>0, <2>0, <2>1 DEF Latest
    <2>4. ASSUME owner_alive, done.intent
          PROVE  Means(done.write, latest)
      BY <2>0, <2>3, <2>4 DEF Reads
    <2>5. CASE /\ owner_alive /\ done.intent /\ n > 1
               /\ UNCHANGED <<copied, dispatch>>
               /\ \A i \in 1 .. n - 1 : reads'[i] = IF i = n - 1
                                                    THEN [pending |-> done, before |-> reads[i].before]
                                                    ELSE reads[i]
      <3>1. n - 1 \in 1 .. n - 1 /\ reads' # <<>>
        BY <2>1, <2>5
      <3>2. reads'[n - 1] = [pending |-> done, before |-> reads[n - 1].before]
        BY <2>5, <3>1
      <3>3. reads'[n - 1].pending = done
        BY <3>2
      <3>4. Reads(n - 1, latest)'
        BY <2>1, <2>4, <2>5, <3>3 DEF Reads, Means, published, history
      <3>5. ASSUME NEW i \in DOMAIN reads'
            PROVE  IF i = 1 THEN Queues(reads[i].before)' ELSE Reads(i - 1, reads[i].before)'
        <4>1. i \in 1 .. n - 1 /\ i \in DOMAIN reads
          BY <2>1, <3>5
        <4>2. reads'[i].before = reads[i].before
          <5>1. CASE i = n - 1
            BY <3>2, <5>1
          <5>2. CASE i # n - 1
            BY <2>5, <4>1, <5>2
          <5> QED
            BY <5>1, <5>2
        <4>3. IF i = 1 THEN Queues(reads[i].before) ELSE Reads(i - 1, reads[i].before)
          BY <1>0, <2>5, <4>1 DEF Latest
        <4>4. CASE i = 1
          BY <2>1, <2>5, <4>2, <4>3, <4>4 DEF Queues, Means, Preparing, published
        <4>5. CASE i # 1
          <5>1. i - 1 \in 1 .. n - 1 /\ i - 1 # n - 1
            BY <2>1, <4>1, <4>5
          <5>2. reads'[i - 1] = reads[i - 1]
            BY <2>5, <5>1
          <5> QED
            BY <2>1, <2>5, <4>2, <4>3, <4>5, <5>2 DEF Reads, Means, published
        <4> QED
          BY <4>4, <4>5
      <3> QED
        BY <2>1, <3>1, <3>4, <3>5 DEF Latest
    <2>6. CASE owner_alive /\ done.intent /\ n = 1 /\ copied' = done
      <3>1. reads' = <<>>
        BY <2>1, <2>6, EmptySeq
      <3>2. Queues(latest)'
        BY <2>1, <2>4, <2>6 DEF Queues, Means, published, history
      <3> QED
        BY <1>b, <3>1, <3>2
    <2>7. CASE /\ ~(owner_alive /\ done.intent)
               /\ UNCHANGED <<copied, dispatch>>
               /\ \A i \in 1 .. n - 1 : reads'[i] = reads[i]
      <3>1. CASE ~owner_alive
        BY <1>c, <2>1, <3>1 DEF registry
      <3>2. CASE owner_alive
        <4>1. latest' = reads[n].before
          BY <2>0, <2>1, <2>3, <2>7, <3>2 DEF Reads, history
        <4> QED
          BY <1>d, <2>0, <2>1, <2>3, <2>7, <4>1 DEF queued, registry
      <3> QED
        BY <3>1, <3>2
    <2> QED
      BY <2>2, <2>5, <2>6, <2>7
  <1>7. CASE ReadThrows
    <2>1. /\ Len(reads) \in Nat \ {0}
          /\ UNCHANGED <<published, registry, queued, dispatch, owed, writes>>
          /\ latest' = reads[Len(reads)].before
          /\ reads' \in Seq(Frames) /\ Len(reads') = Len(reads) - 1
          /\ \A i \in 1 .. Len(reads) - 1 : reads'[i] = reads[i]
      BY <1>0, <1>7, ReadThrowsOp
    <2>2. reads # <<>>
      BY <2>1, EmptySeq
    <2> QED
      BY <1>d, <2>1, <2>2 DEF registry
  <1>9. CASE DispatchEnds
    <2>1. /\ reads = <<>> /\ dispatch.at = "loop" /\ UNCHANGED <<queued, latest, published, reads>>
          /\ dispatch' = NotDispatching /\ UNCHANGED owner_alive
      BY <1>0, <1>9, AtIs DEF DispatchEnds, LeaveDispatch
    <2>2. ~Preparing /\ ~Preparing'
      BY <2>1, LoopIs DEF Preparing
    <2>3. owner_alive => Queues(latest)'
      BY <1>03, <2>1, <2>2 DEF Queues, Means, queued, published
    <2> QED
      BY <1>b, <2>1, <2>3
  <1>10. ASSUME DispatchFails, reads = <<>>
         PROVE  Latest'
    <2>1. /\ pending' = NoWrite /\ copied' = NoIntent /\ latest' = [n |-> 0, v |-> value]
          /\ dispatch' = NotDispatching /\ UNCHANGED <<published, reads>>
      BY <1>10 DEF DispatchFails, LeaveDispatch
    <2>2. ~Preparing'
      BY <2>1, LoopIs DEF Preparing
    <2>3. Queues(latest)'
      BY <1>0, <2>1, <2>2 DEF Queues, published
    <2> QED
      BY <1>b, <1>10, <2>1, <2>3
  <1>11. CASE TakeWrite
    <2> DEFINE w == IF copied.intent THEN copied.write ELSE pending
               at == IF w = NoWrite \/ w.v = value THEN "loop"
                     ELSE IF w.conditional THEN "condition" ELSE "commit"
    <2>1. /\ dispatch' = [dispatch EXCEPT !.prepared = w, !.at = at]
          /\ pending' = NoWrite /\ copied' = NoIntent
          /\ UNCHANGED <<published, registry, reads, history>> /\ reads = <<>>
          /\ dispatch.at = "loop" /\ owner_alive /\ (pending # NoWrite \/ copied.intent)
      BY <1>0, <1>11, AtIs DEF TakeWrite
    <2>2. Means(w, latest)
      BY <1>03, <2>1 DEF Queues
    <2>3. at = "loop" => w = NoWrite \/ w.v = value
      OBVIOUS
    <2>4. at \in {"loop", "condition", "commit"}
      OBVIOUS
    <2> HIDE DEF w, at
    <2>5. dispatch'.at = at /\ dispatch'.prepared = w
      BY <1>0, <2>1 DEF Dispatch
    <2>6. CASE at = "loop"
      <3>1. latest.v = value
        BY <2>2, <2>3, <2>6 DEF Means
      <3> QED
        BY <1>0, <1>b, <2>1, <2>5, <2>6, <3>1 DEF Queues, Preparing, published, history
    <2>7. CASE at # "loop"
      <3>1. Preparing'
        BY <2>4, <2>5, <2>7 DEF Preparing
      <3> QED
        BY <1>0, <1>b, <2>1, <2>2, <2>5, <3>1 DEF Queues, Means, published, history
    <2> QED
      BY <2>6, <2>7
  <1>12. CASE ConditionReturns
    <2>1. /\ UNCHANGED <<published, registry, queued, reads, owed, writes>> /\ reads = <<>>
          /\ dispatch.at = "condition" /\ Preparing
      BY <1>0, <1>12, AtIs DEF ConditionReturns, Preparing
    <2>2. ASSUME owner_alive, dispatch' = [dispatch EXCEPT !.at = "loop"],
                 latest' = Without(dispatch.prepared)
          PROVE  Latest'
      <3>1. dispatch'.at = "loop"
        BY <1>0, <2>2 DEF Dispatch
      <3>2. Queues(latest) /\ ~Preparing'
        BY <1>03, <2>1, <2>2, <3>1 DEF Preparing
      <3>3. CASE copied.intent
        <4>1. latest.n = copied.write.n /\ copied.write # NoWrite
              /\ latest = [n |-> copied.write.n, v |-> copied.write.v]
          BY <1>02, <2>1, <3>2, <3>3 DEF Queues, Means
        <4>2. latest.n # dispatch.prepared.n
          BY <1>0, <1>01, <1>02, <2>1, <3>3, <4>1
        <4>3. latest' = latest
          BY <2>2, <4>2 DEF Without
        <4> QED
          BY <1>b, <2>1, <3>3, <4>1, <4>3 DEF Queues, Means, queued, published
      <3>4. CASE ~copied.intent /\ pending # NoWrite
        <4>1. latest.n = pending.n /\ latest = [n |-> pending.n, v |-> pending.v]
          BY <2>1, <3>2, <3>4 DEF Queues, Means
        <4>2. latest.n # dispatch.prepared.n
          BY <1>0, <1>01, <1>02, <2>1, <3>4, <4>1
        <4>3. latest' = latest
          BY <2>2, <4>2 DEF Without
        <4> QED
          BY <1>b, <2>1, <3>4, <4>1, <4>3 DEF Queues, Means, queued, published
      <3>5. CASE ~copied.intent /\ pending = NoWrite
        <4>1. latest.n = dispatch.prepared.n
          BY <1>02, <2>1, <3>2, <3>5 DEF Queues, Means
        <4>2. latest' = [n |-> 0, v |-> value]
          BY <2>2, <4>1 DEF Without
        <4> QED
          BY <1>b, <2>1, <3>2, <3>5, <4>2 DEF Queues, queued, published
      <3> QED
        BY <3>3, <3>4, <3>5
    <2>3. ASSUME owner_alive, dispatch' = [dispatch EXCEPT !.at = "commit"], UNCHANGED latest
          PROVE  Latest'
      <3>1. dispatch'.at = "commit" /\ dispatch'.prepared = dispatch.prepared
        BY <1>0, <2>3 DEF Dispatch
      <3>2. Queues(latest) /\ Preparing'
        BY <1>03, <2>1, <2>3, <3>1 DEF Preparing
      <3> QED
        BY <1>b, <2>1, <2>3, <3>1, <3>2 DEF Queues, Means, queued, published
    <2>4. CASE ~owner_alive
      BY <1>c, <2>1, <2>4 DEF registry
    <2> QED
      BY <1>12, <2>2, <2>3, <2>4 DEF ConditionReturns
  <1>13. CASE Commit
    <2>1. /\ dispatch' = [dispatch EXCEPT !.at = "pass", !.index = 1, !.pass_size = Len(listeners)]
          /\ UNCHANGED <<registry, queued, reads, latest, writes>> /\ reads = <<>>
          /\ value' = dispatch.prepared.v /\ Preparing /\ owner_alive
      BY <1>0, <1>13, AtIs DEF Commit, Preparing, Placed
    <2>2. dispatch'.at = "pass"
      BY <1>0, <2>1 DEF Dispatch
    <2>3. Queues(latest) /\ ~Preparing'
      BY <1>03, <2>1, <2>2 DEF Preparing
    <2> QED
      BY <1>02, <1>b, <2>1, <2>3 DEF Queues, Means, queued
  <1>14. CASE RetiredByMove
    BY <1>c, <1>14 DEF RetiredByMove, Invalidate
  <1>15. CASE WriteFails
    BY <1>0, <1>10, <1>15, AtIs DEF WriteFails
  <1>e. ASSUME UNCHANGED <<published, queued, reads, latest, owner_alive>>, ~Preparing, ~Preparing'
        PROVE  Latest'
    BY <1>0, <1>e DEF Latest, Queues, Reads, Means, queued, published
  <1>16. CASE NextCallback
    <2>1. PICK i \in Due :
            /\ dispatch' = [dispatch EXCEPT !.at = "callback", !.index = i + 1]
            /\ UNCHANGED <<published, registry, queued, reads, latest, writes>>
            /\ dispatch.at = "pass"
      BY <1>0, <1>16, NextOp, Zenon
    <2>2. dispatch'.at = "callback"
      BY <1>0, <2>1 DEF Dispatch
    <2> QED
      BY <1>e, <2>1, <2>2 DEF Preparing, registry
  <1>17. CASE CallbackReturns
    <2>1. /\ dispatch' = [dispatch EXCEPT !.at = "pass"] /\ dispatch.at = "callback"
          /\ UNCHANGED <<published, registry, queued, reads, history>>
      BY <1>17 DEF CallbackReturns, At
    <2>2. dispatch'.at = "pass"
      BY <1>0, <2>1 DEF Dispatch
    <2> QED
      BY <1>e, <2>1, <2>2 DEF Preparing, registry, history
  <1>18. CASE CallbackThrows
    BY <1>0, <1>10, <1>18, AtIs DEF CallbackThrows
  <1>19. CASE PassEnds
    <2>1. /\ dispatch' = Looping(0) /\ UNCHANGED <<published, registry, queued, reads, history>>
          /\ dispatch.at = "pass"
      BY <1>0, <1>19 DEF PassEnds, Placed, At
    <2> QED
      BY <1>e, <2>1, LoopIs DEF Preparing, registry, history
  <1>20. CASE UNCHANGED vars
    BY <1>a, <1>20 DEF vars, published, registry, history
  <1>21. [Next]_vars
    OBVIOUS
  <1> QED
    BY <1>1, <1>2, <1>3, <1>4, <1>5, <1>6, <1>7, <1>9, <1>11, <1>12, <1>13, <1>14, <1>15, <1>16,
       <1>17, <1>18, <1>19, <1>20, <1>21 DEF Next, UserCall, DispatchStep

-----------------------------------------------------------------------------
(***************************************************************************)
(* Theorems.                                                                *)
(***************************************************************************)
LEMMA Starts ==
  ASSUME StateAssumption, Init
  PROVE  IInv /\ WInv
  <1>1. /\ value = InitialValue /\ revision = 0
        /\ listeners = <<>> /\ next_listener_id = 1
        /\ cleanup_needed = FALSE /\ owner_alive = TRUE
        /\ pending = NoWrite /\ copied = NoIntent
        /\ dispatch = NotDispatching
        /\ reads = <<>> /\ owed = {}
        /\ latest = [n |-> 0, v |-> InitialValue] /\ writes = 0
    BY DEF Init
  <1>2. InitialValue \in Values /\ MaxListeners \in Nat /\ MaxWrites \in Nat /\ RevisionMax \in Nat
    BY DEF StateAssumption
  <1>3. /\ NoWrite \in Writes /\ NoIntent \in Intent /\ NotDispatching \in Dispatch
        /\ NoWrite.n = 0 /\ NoIntent.write = NoWrite /\ ~NoIntent.intent
    BY Basics DEF NoWrite, NoIntent
  <1>4. /\ \A i \in DOMAIN listeners : FALSE
        /\ \A i \in DOMAIN reads : FALSE
        /\ Len(listeners) = 0 /\ Len(reads) = 0
    BY <1>1
  <1>5. latest \in LatestWrites
    BY <1>1, <1>2 DEF LatestWrites
  <1>6. TypeOK
    <2>1. <<>> \in Seq(Slots) /\ <<>> \in Seq(Frames)
      OBVIOUS
    <2>2. 1 \in 1 .. MaxListeners + 1 /\ 0 \in 0 .. RevisionMax /\ 0 \in 0 .. MaxWrites
      BY <1>2
    <2> QED
      BY <1>1, <1>2, <1>3, <1>5, <2>1, <2>2 DEF TypeOK
  <1>7. /\ dispatch.at = "idle" /\ dispatch.depth = 0 /\ dispatch.pass_size = 0
        /\ dispatch.prepared = NoWrite
    BY <1>1, LoopIs
  <1>8. Placed
    BY <1>1, <1>7 DEF Placed, Preparing, dispatching
  <1>9. Intents
    BY <1>1, <1>4 DEF Intents
  <1>10. Ordered
    BY <1>1, <1>4 DEF Ordered
  <1>11. Turns
    BY <1>1, <1>4, <1>7 DEF Turns
  <1>12. Latest
    BY <1>1, <1>3, <1>4, <1>7 DEF Latest, Queues, Means, Preparing
  <1>13. Newer
    BY <1>1, <1>3, <1>4, <1>7 DEF Newer, Preparing
  <1> QED
    BY <1>6, <1>8, <1>9, <1>10, <1>11, <1>12, <1>13 DEF IInv, WInv

\* The State as its code leaves it.
LEMMA Behaves ==
  ASSUME StateAssumption
  PROVE  Spec => []IInv
  <1>1. Init => IInv
    BY Starts
  <1>2. IInv /\ [Next]_vars => IInv'
    BY TypeStep, PlacedStep, IntentsStep, OrderedStep, TurnsStep DEF IInv
  <1> QED
    BY <1>1, <1>2, PTL DEF Spec

\* Every variable has its type, whatever user code does in the middle of an
\* operation.
THEOREM StateTyped ==
  ASSUME StateAssumption
  PROVE  Spec => []TypeOK
  BY Behaves, PTL DEF IInv

\* No write is lost: when everything has returned the State has the value that
\* was written last and was neither refused by its condition nor discarded by a
\* failure, wherever it was written from.
THEOREM LatestWriteAlwaysWins ==
  ASSUME StateAssumption, ~ConditionsRestore
  PROVE  Spec => []LatestWriteWins
  <1>1. Init => IInv /\ WInv
    BY Starts
  <1>2. (IInv /\ WInv) /\ [Next]_vars => (IInv /\ WInv)'
    BY TypeStep, PlacedStep, IntentsStep, OrderedStep, TurnsStep, LatestStep, NewerStep
       DEF IInv, WInv
  <1>3. IInv /\ WInv => LatestWriteWins
    <2> SUFFICES ASSUME IInv, WInv, AtRest, owner_alive
                 PROVE  value = latest.v
      BY DEF LatestWriteWins
    <2>1. Queues(latest) /\ pending = NoWrite /\ ~copied.intent /\ ~Preparing
      BY DEF IInv, WInv, AtRest, Latest, Placed, NoIntent, Preparing, dispatching
    <2> QED
      BY <2>1 DEF Queues
  <1> QED
    BY <1>1, <1>2, <1>3, PTL DEF Spec

\* The slots a pass walks over stay where they are.
THEOREM PassAlwaysInBounds ==
  ASSUME StateAssumption
  PROVE  Spec => []PassInBounds
  <1>1. IInv => PassInBounds
    BY DEF IInv, Turns, PassInBounds
  <1> QED
    BY <1>1, Behaves, PTL

\* However a dispatch ends, it leaves nothing behind.
THEOREM AlwaysRestsClean ==
  ASSUME StateAssumption
  PROVE  Spec => []RestsClean
  <1>1. IInv => RestsClean
    BY DEF IInv, Placed, Ordered, RestsClean
  <1> QED
    BY <1>1, Behaves, PTL

\* Nobody is left out of a pass.
THEOREM NobodyIsLeftOut ==
  ASSUME StateAssumption
  PROVE  Spec => []NobodyLeftOut
  <1>1. IInv => NobodyLeftOut
    BY DEF IInv, Turns, NobodyLeftOut
  <1> QED
    BY <1>1, Behaves, PTL

\* What is lent does not change: nothing is published under an observer or a
\* reader.
THEOREM BorrowIsStable ==
  ASSUME StateAssumption
  PROVE  Spec => StableBorrow
  <1> DEFINE Stable == published' # published => reads = <<>> /\ dispatch.at # "callback"
  <1>1. ASSUME IInv, [Next]_vars
        PROVE  [Stable]_vars
    <2>1. TypeOK /\ Placed
      BY <1>1 DEF IInv
    <2>2. CASE UserCall
      <3>1. UNCHANGED published
        BY <2>2 DEF UserCall, Set, Observe, Unsubscribe, DestroyOwner, Invalidate, ReadBegins,
                    ReadReturns, ReadThrows
      <3> QED
        BY <3>1
    <2>3. CASE Commit
      BY <2>1, <2>3, AtIs DEF Commit
    <2>4. CASE DispatchStep /\ ~Commit
      <3>1. UNCHANGED published
        BY <2>4 DEF DispatchStep, DispatchEnds, TakeWrite, ConditionReturns, RetiredByMove,
                    Invalidate, WriteFails, DispatchFails, LeaveDispatch, NextCallback,
                    CallbackReturns, CallbackThrows, PassEnds
      <3> QED
        BY <3>1
    <2>5. CASE UNCHANGED vars
      BY <2>5
    <2> QED
      BY <1>1, <2>2, <2>3, <2>4, <2>5 DEF Next
  <1> QED
    BY <1>1, Behaves, PTL DEF Spec, StableBorrow

\* Who is being told.
Telling == IF dispatch.at = "callback" THEN listeners[dispatch.index - 1].id ELSE 0

\* The steps of the contract.
LEMMA ContractStep ==
  ASSUME StateAssumption, IInv, [Next]_vars
  PROVE  [Contract!Next]_(Contract!contract)
  <1>0. /\ TypeOK /\ Placed /\ Intents /\ Ordered /\ Turns /\ dispatch \in Dispatch
        /\ listeners \in Seq(Slots) /\ Len(listeners) \in Nat
        /\ DOMAIN listeners = 1 .. Len(listeners)
    BY DEF IInv, TypeOK
  <1>a. dispatch.at = "callback" => dispatch.index - 1 \in DOMAIN listeners
    <2>1. dispatch.pass_size \in Nat
      BY <1>0, Basics DEF Dispatch
    <2> QED
      BY <1>0, <2>1 DEF Turns
  <1>b. ASSUME UNCHANGED <<value, revision, owner_alive, owed>>, ActiveIds' = ActiveIds,
               Telling' = Telling
        PROVE  UNCHANGED Contract!contract
    BY <1>b DEF Contract!contract, Telling
  <1>c. ASSUME UNCHANGED <<published, registry, owed>>,
               \/ UNCHANGED dispatch
               \/ dispatch.at # "callback" /\ dispatch'.at # "callback"
        PROVE  UNCHANGED Contract!contract
    <2>1. ActiveIds' = ActiveIds
      BY <1>c DEF ActiveIds, registry
    <2>2. Telling' = Telling
      BY <1>c DEF Telling, registry
    <2> QED
      BY <1>b, <1>c, <2>1, <2>2 DEF published, registry
  <1>d. ASSUME LeaveDispatch, dispatch.at # "callback", UNCHANGED owed
        PROVE  UNCHANGED Contract!contract
    <2>1. /\ ActiveIds' = ActiveIds /\ UNCHANGED <<published, owner_alive>>
          /\ dispatch' = NotDispatching
      BY <1>0, <1>d, LeaveOp
    <2>2. Telling' = Telling
      BY <1>d, <2>1, LoopIs DEF Telling
    <2> QED
      BY <1>b, <1>d, <2>1, <2>2 DEF published
  <1>e. ASSUME DispatchFails
        PROVE  Contract!Abandon
    <2>1. /\ ActiveIds' = ActiveIds /\ UNCHANGED <<published, owner_alive>>
          /\ dispatch' = NotDispatching /\ owed' = {}
      BY <1>0, <1>e, LeaveOp DEF DispatchFails
    <2>2. dispatch'.at # "callback"
      BY <2>1, LoopIs
    <2> QED
      BY <2>1, <2>2 DEF Contract!Abandon, published
  <1>f. ASSUME Invalidate, dispatching' <=> dispatching,
               dispatch'.at = "callback" => dispatch.at = "callback",
               dispatch.at = "callback" => UNCHANGED dispatch
        PROVE  Contract!Retire
    <2>1. /\ owner_alive' = FALSE /\ owed' = {} /\ UNCHANGED published /\ ActiveIds' = {}
          /\ dispatching => \A i \in DOMAIN listeners : listeners'[i].id = listeners[i].id
      BY <1>0, <1>f, InvalidateOp
    <2>2. Telling' = Telling
      BY <1>a, <1>f, <2>1 DEF Telling, dispatching
    <2> QED
      BY <2>1, <2>2 DEF Contract!Retire, published, Telling
  <1>1. ASSUME NEW v \in Values, NEW conditional \in BOOLEAN, Set(v, conditional)
        PROVE  UNCHANGED Contract!contract
    <2>1. PICK w \in Writes :
            /\ UNCHANGED <<published, registry, owed>>
            /\ \/ UNCHANGED dispatch
               \/ ~dispatching /\ dispatch' = IF w = NoWrite THEN dispatch ELSE Looping(0)
      BY <1>0, <1>1, SetOp, Zenon
    <2> QED
      BY <1>c, <2>1, LoopIs DEF dispatching
  <1>2. CASE Observe
    <2>1. /\ next_listener_id \in Ids /\ next_listener_id \notin ActiveIds
          /\ ActiveIds' = ActiveIds \cup {next_listener_id}
          /\ \A i \in DOMAIN listeners : listeners'[i] = listeners[i]
          /\ UNCHANGED <<published, owner_alive, dispatch, owed>> /\ owner_alive
      BY <1>0, <1>2, ObserveOp DEF Observe, history
    <2>2. Telling' = Telling
      BY <1>a, <2>1 DEF Telling
    <2>3. Contract!Join(next_listener_id)
      BY <2>1, <2>2 DEF Contract!Join, published, Telling
    <2> QED
      BY <2>1, <2>3 DEF Contract!Next
  <1>3. ASSUME NEW id \in Ids, Unsubscribe(id)
        PROVE  Contract!Leave(id)
    <2>1. /\ ActiveIds' = ActiveIds \ {id}
          /\ dispatching => \A i \in DOMAIN listeners : listeners'[i].id = listeners[i].id
          /\ UNCHANGED <<published, owner_alive, dispatch>> /\ owed' = owed \ {id}
      BY <1>0, <1>3, UnsubscribeOp DEF Unsubscribe
    <2>2. Telling' = Telling
      BY <1>a, <2>1 DEF Telling, dispatching
    <2> QED
      BY <2>1, <2>2 DEF Contract!Leave, published, Telling
  <1>4. CASE DestroyOwner
    BY <1>f, <1>4 DEF DestroyOwner, dispatching, Contract!Next
  <1>5. CASE ReadBegins
    BY <1>c, <1>5 DEF ReadBegins, history
  <1>6. CASE ReadReturns
    <2>1. UNCHANGED <<published, registry, owed>>
      BY <1>6 DEF ReadReturns, history
    <2>2. UNCHANGED dispatch \/ (~dispatching /\ dispatch' = Looping(0))
      BY <1>0, <1>6, ReadReturnsOp
    <2> QED
      BY <1>c, <2>1, <2>2, LoopIs DEF dispatching
  <1>7. CASE ReadThrows
    BY <1>c, <1>7 DEF ReadThrows
  <1>8. CASE DispatchEnds
    BY <1>d, <1>8 DEF DispatchEnds, At
  <1>9. CASE TakeWrite
    <2> DEFINE w == IF copied.intent THEN copied.write ELSE pending
               at == IF w = NoWrite \/ w.v = value THEN "loop"
                     ELSE IF w.conditional THEN "condition" ELSE "commit"
    <2>1. /\ dispatch' = [dispatch EXCEPT !.prepared = w, !.at = at]
          /\ UNCHANGED <<published, registry, owed>> /\ dispatch.at = "loop"
      BY <1>9 DEF TakeWrite, At, history
    <2>2. at # "callback"
      OBVIOUS
    <2> HIDE DEF w, at
    <2>3. dispatch'.at = at
      BY <1>0, <2>1 DEF Dispatch
    <2> QED
      BY <1>c, <2>1, <2>2, <2>3
  <1>10. CASE ConditionReturns
    <2>1. PICK at \in {"loop", "commit"} : dispatch' = [dispatch EXCEPT !.at = at]
      BY <1>10 DEF ConditionReturns
    <2>2. dispatch'.at = at
      BY <1>0, <2>1 DEF Dispatch
    <2>3. UNCHANGED <<published, registry, owed>> /\ dispatch.at = "condition"
      BY <1>10 DEF ConditionReturns, At
    <2> QED
      BY <1>c, <2>1, <2>2, <2>3
  <1>11. CASE Commit
    <2>1. /\ dispatch' = [dispatch EXCEPT !.at = "pass", !.index = 1, !.pass_size = Len(listeners)]
          /\ owed' = ActiveIds /\ UNCHANGED registry /\ dispatch.at = "commit"
          /\ value' = dispatch.prepared.v /\ revision' = revision + 1
      BY <1>11 DEF Commit, At
    <2>2. dispatch'.at = "pass"
      BY <1>0, <2>1 DEF Dispatch
    <2>3. dispatch.prepared \in Writes /\ dispatch.prepared.v # value /\ owner_alive /\ owed = {}
      BY <1>0, <2>1 DEF Dispatch, Placed, Preparing, Turns
    <2>4. value' \in Values \ {value}
      BY <2>1, <2>3, Basics
    <2>5. ActiveIds' = ActiveIds
      BY <2>1 DEF ActiveIds, registry
    <2>6. Contract!Publish
      BY <2>1, <2>2, <2>3, <2>4, <2>5 DEF Contract!Publish, registry
    <2> QED
      BY <2>6 DEF Contract!Next
  <1>12. CASE RetiredByMove
    <2>1. Invalidate /\ dispatch.at = "commit" /\ dispatch'.at = "loop"
      BY <1>0, <1>12 DEF RetiredByMove, At, Dispatch
    <2>2. Contract!Retire
      BY <1>f, <2>1 DEF dispatching
    <2> QED
      BY <2>2 DEF Contract!Next
  <1>13. CASE WriteFails
    BY <1>e, <1>13 DEF WriteFails, Contract!Next
  <1>14. CASE NextCallback
    <2>1. PICK i \in Due :
            /\ dispatch' = [dispatch EXCEPT !.at = "callback", !.index = i + 1]
            /\ owed' = owed \ {listeners[i].id}
            /\ UNCHANGED <<published, registry>>
            /\ dispatch.at = "pass" /\ owner_alive
            /\ i \in DOMAIN listeners
      BY <1>0, <1>14, NextOp, Zenon
    <2>2. dispatch'.at = "callback" /\ dispatch'.index = i + 1
      BY <1>0, <2>1 DEF Dispatch
    <2>3. listeners[i].id \in owed
      BY <1>0, <2>1 DEF Turns
    <2>4. listeners[i].id \in Ids
      <3>1. listeners[i] \in Slots
        BY <1>0, <2>1
      <3> QED
        BY <3>1 DEF Slots
    <2>5. dispatch'.index - 1 = i /\ listeners' = listeners
      BY <1>0, <2>1, <2>2 DEF registry
    <2>6. ActiveIds' = ActiveIds
      BY <2>5 DEF ActiveIds
    <2>7. Contract!Tell(listeners[i].id)
      BY <2>1, <2>2, <2>3, <2>5, <2>6 DEF Contract!Tell, published, registry
    <2> QED
      BY <2>4, <2>7 DEF Contract!Next
  <1>15. CASE CallbackReturns
    <2>1. dispatch'.at = "pass" /\ UNCHANGED <<published, registry, owed>>
      BY <1>0, <1>15 DEF CallbackReturns, Dispatch, history
    <2>2. ActiveIds' = ActiveIds
      BY <2>1 DEF ActiveIds, registry
    <2>3. Contract!Told
      BY <2>1, <2>2 DEF Contract!Told, published, registry
    <2> QED
      BY <2>3 DEF Contract!Next
  <1>16. CASE CallbackThrows
    BY <1>e, <1>16 DEF CallbackThrows, Contract!Next
  <1>17. CASE PassEnds
    <2>1. /\ dispatch' = Looping(0) /\ UNCHANGED <<published, registry, owed>>
          /\ dispatch.at = "pass"
      BY <1>0, <1>17 DEF PassEnds, Placed, At, history
    <2> QED
      BY <1>c, <2>1, LoopIs
  <1>18. CASE UNCHANGED vars
    BY <1>c, <1>18 DEF vars, published, registry, history
  <1>19. ASSUME NEW id \in Ids, Unsubscribe(id)
         PROVE  Contract!Next
    BY <1>3, <1>19 DEF Contract!Next
  <1>20. [Next]_vars
    OBVIOUS
  <1> QED
    BY <1>1, <1>2, <1>4, <1>5, <1>6, <1>7, <1>8, <1>9, <1>10, <1>11, <1>12, <1>13, <1>14, <1>15,
       <1>16, <1>17, <1>18, <1>19, <1>20 DEF Next, UserCall, DispatchStep

\* Every observer is told of every value once, unless it leaves, a pass fails or
\* the State ends, and those that join later wait for the next value: the State
\* implements ObserverContract.
THEOREM StateImplementsContract ==
  ASSUME StateAssumption
  PROVE  Spec => ImplementsObserverContract
  <1>1. Init => Contract!Init
    <2> SUFFICES ASSUME Init
                 PROVE  Contract!Init
      OBVIOUS
    <2>1. /\ value = InitialValue /\ revision = 0 /\ owner_alive = TRUE /\ owed = {}
          /\ listeners = <<>> /\ dispatch = NotDispatching /\ InitialValue \in Values
      BY DEF Init, StateAssumption
    <2>2. ActiveIds = {} /\ dispatch.at # "callback"
      BY <2>1, ActiveIs, LoopIs
    <2> QED
      BY <2>1, <2>2 DEF Contract!Init
  <1>2. IInv /\ [Next]_vars => [Contract!Next]_(Contract!contract)
    BY ContractStep
  <1> QED
    BY <1>1, <1>2, Behaves, PTL DEF Spec, ImplementsObserverContract, Contract!Spec
=============================================================================
