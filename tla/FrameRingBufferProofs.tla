----------------------- MODULE FrameRingBufferProofs -----------------------
(***************************************************************************)
(* Proofs about FrameRingBuffer for every capacity and every number of     *)
(* frames, under the thread model the header states: one producer thread   *)
(* and one consumer thread.                                                *)
(***************************************************************************)
EXTENDS FrameRingBuffer, SequenceTheorems, TLAPS

\* The header's thread model.
SingleProducer == \E p : Producers = {p}
SingleConsumer == \E c : Consumers = {c}

-----------------------------------------------------------------------------
(* The inductive invariant, one named part per idea.                       *)

\* The distance between the indices is the number of undelivered frames.
DepthCounts == \A p \in Producers : accepted[p] - delivered[p] = Depth

\* The occupied slots hold the undelivered frames in order.
ContentsInOrder ==
  \A p \in Producers : \A i \in 0 .. Depth - 1 :
    slot[SlotAfter(read_index, i)] = <<p, delivered[p] + 1 + i>>

\* What the producer knows at each point of a call: the index it loaded is
\* still the write index, and the room it saw can only have grown.
ProducerKnows ==
  \A p \in Producers :
    /\ pc[p] \in {"pushCheck", "pushCopy", "pushCopying", "pushStore"}
         => lidx[p] = write_index /\ accepted[p] < MaxFrames
    /\ pc[p] \in {"pushCopy", "pushCopying", "pushStore"} => Depth < Capacity
    /\ pc[p] = "pushStore" => slot[lidx[p]] = <<p, accepted[p] + 1>>
    /\ pc[p] = "emptyCheck" => Depth <= SizeOf(write_index, lidx[p])

\* What the consumer knows: the index it loaded is still the read index, and
\* the frames it saw are still there.
ConsumerKnows ==
  \A p \in Producers, c \in Consumers :
    /\ pc[c] \in {"popCheck", "popCopy", "popCopying", "popStore", "peekCheck", "peekUse"}
         => lidx[c] = read_index
    /\ pc[c] \in {"popCopy", "popCopying", "popStore", "peekUse"} => Depth > 0
    /\ pc[c] \in {"popCopying", "popStore"} => frame[c] = <<p, delivered[p] + 1>>
    /\ pc[c] = "sizeRead" => SizeOf(lidx[c], read_index) <= Depth

IndInv == TypeOK /\ DepthCounts /\ ContentsInOrder /\ ProducerKnows /\ ConsumerKnows

-----------------------------------------------------------------------------
(* Arithmetic of the ring.                                                 *)

\* The modular increment, without the modulus.
LEMMA NextIndexValue ==
  ASSUME NEW i \in Slots
  PROVE  NextIndex(i) = IF i = Capacity THEN 0 ELSE i + 1
<1>1. CASE i = Capacity
  <2>1. (Capacity + 1) % (Capacity + 1) = 0
    BY CapacityAssumption
  <2>2. QED BY <1>1, <2>1, CapacityAssumption DEF NextIndex, SlotCount, Slots
<1>2. CASE i # Capacity
  <2>1. i + 1 \in 0 .. Capacity
    BY <1>2, CapacityAssumption DEF Slots
  <2>2. \A m \in 0 .. Capacity : m % (Capacity + 1) = m
    BY CapacityAssumption
  <2>3. QED BY <1>2, <2>1, <2>2 DEF NextIndex, SlotCount
<1>3. QED BY <1>1, <1>2

\* Size() of two valid indices counts 0 to Capacity frames; it is 0 exactly
\* when IsEmpty holds and Capacity exactly when Push finds the ring full.
LEMMA SizeBounds ==
  ASSUME NEW w \in Slots, NEW r \in Slots
  PROVE  /\ SizeOf(w, r) \in 0 .. Capacity
         /\ SizeOf(w, r) = 0 <=> w = r
         /\ SizeOf(w, r) = Capacity <=> NextIndex(w) = r
BY NextIndexValue, CapacityAssumption DEF SizeOf, SlotCount, Slots

\* Advancing the write index of a ring with room adds one frame.
LEMMA SizeAfterPush ==
  ASSUME NEW w \in Slots, NEW r \in Slots, SizeOf(w, r) < Capacity
  PROVE  /\ NextIndex(w) \in Slots
         /\ SizeOf(NextIndex(w), r) = SizeOf(w, r) + 1
BY NextIndexValue, CapacityAssumption DEF SizeOf, SlotCount, Slots

\* Advancing the read index of a ring that is not empty removes one frame.
LEMMA SizeAfterPop ==
  ASSUME NEW w \in Slots, NEW r \in Slots, SizeOf(w, r) > 0
  PROVE  /\ NextIndex(r) \in Slots
         /\ SizeOf(w, NextIndex(r)) = SizeOf(w, r) - 1
BY NextIndexValue, CapacityAssumption DEF SizeOf, SlotCount, Slots

\* The occupied slots are the ones from the read index up to, and without,
\* the write index.
LEMMA OccupiedSlots ==
  ASSUME NEW w \in Slots, NEW r \in Slots
  PROVE  /\ SlotAfter(r, 0) = r
         /\ SlotAfter(r, SizeOf(w, r)) = w
         /\ \A i \in 0 .. SizeOf(w, r) - 1 :
               SlotAfter(r, i) \in Slots /\ SlotAfter(r, i) # w
         /\ \A i \in 0 .. Capacity - 1 :
               SlotAfter(NextIndex(r), i) = SlotAfter(r, i + 1)
BY NextIndexValue, CapacityAssumption DEF SlotAfter, SizeOf, SlotCount, Slots

-----------------------------------------------------------------------------
(* Every step keeps the invariant.                                         *)

\* An empty ring with both threads idle satisfies the invariant.
LEMMA InitIndInv == Init => IndInv
BY CapacityAssumption, BoundAssumption
   DEF Init, IndInv, TypeOK, DepthCounts, ContentsInOrder, ProducerKnows, ConsumerKnows,
       Depth, SizeOf, Slots, Cells, Threads, PushPoints, PopPoints

\* Every step of Push, Pop, Peek, Size, IsEmpty and Clear preserves it.
LEMMA StepIndInv ==
  ASSUME SingleProducer, SingleConsumer, IndInv, [Next]_vars
  PROVE  IndInv'
<1>1. PICK P : Producers = {P}
  BY DEF SingleProducer
<1>2. PICK C : Consumers = {C}
  BY DEF SingleConsumer
<1>3. P # C /\ P \in Threads /\ C \in Threads
  BY <1>1, <1>2, ThreadAssumption DEF Threads
<1> USE <1>1, <1>2, <1>3, CapacityAssumption, BoundAssumption
        DEF IndInv, TypeOK, DepthCounts, ContentsInOrder, ProducerKnows, ConsumerKnows,
            Depth, Cells, Frames, PushPoints, PopPoints, Goto
<1>4. CASE PushLoad(P)
  BY <1>4 DEF PushLoad
<1>5. CASE PushCheck(P)
  BY <1>5, SizeBounds DEF PushCheck
<1>6. CASE PushBeginCopy(P)
  BY <1>6, OccupiedSlots, SizeBounds DEF PushBeginCopy
<1>7. CASE PushEndCopy(P)
  BY <1>7, OccupiedSlots, SizeBounds DEF PushEndCopy
<1>8. CASE PushStore(P)
  <2>1. /\ lidx[P] = write_index /\ Depth < Capacity /\ accepted[P] < MaxFrames
        /\ slot[write_index] = <<P, accepted[P] + 1>>
        /\ write_index' = NextIndex(write_index)
    BY <1>8 DEF PushStore
  <2>2. NextIndex(write_index) \in Slots /\ Depth' = Depth + 1
    BY <1>8, <2>1, SizeAfterPush DEF PushStore
  <2>3. TypeOK' /\ DepthCounts'
    BY <1>8, <2>1, <2>2 DEF PushStore
  <2>4. ContentsInOrder'
    <3>1. SlotAfter(read_index, Depth) = write_index /\ Depth \in 0 .. Capacity
      BY OccupiedSlots, SizeBounds
    <3>2. slot[SlotAfter(read_index, Depth)] = <<P, delivered[P] + 1 + Depth>>
      BY <2>1, <3>1
    <3>3. QED BY <1>8, <2>2, <3>1, <3>2 DEF PushStore
  <2>5. ProducerKnows'
    BY <1>8 DEF PushStore
  <2>6. ConsumerKnows'
    BY <1>8, <2>2, SizeBounds DEF PushStore
  <2>7. QED BY <2>3, <2>4, <2>5, <2>6
<1>9. CASE IsEmptyLoad(P)
  BY <1>9 DEF IsEmptyLoad
<1>10. CASE IsEmptyReturn(P)
  BY <1>10 DEF IsEmptyReturn
<1>11. CASE PopLoad(C)
  BY <1>11 DEF PopLoad
<1>12. CASE PopCheck(C)
  BY <1>12, SizeBounds DEF PopCheck
<1>13. CASE PopBeginCopy(C)
  BY <1>13, OccupiedSlots, SizeBounds DEF PopBeginCopy
<1>14. CASE PopEndCopy(C)
  <2>1. lidx[C] = read_index /\ Depth > 0 /\ frame[C] = <<P, delivered[P] + 1>>
    BY <1>14 DEF PopEndCopy
  <2>2. slot[read_index] = <<P, delivered[P] + 1>>
    <3>1. SlotAfter(read_index, 0) = read_index /\ Depth \in 0 .. Capacity
      BY OccupiedSlots, SizeBounds
    <3>2. slot[SlotAfter(read_index, 0)] = <<P, delivered[P] + 1 + 0>>
      BY <2>1, <3>1
    <3>3. QED BY <3>1, <3>2
  <2>3. frame' = frame
    BY <1>14, <2>1, <2>2 DEF PopEndCopy
  <2>4. QED BY <1>14, <2>1, <2>3 DEF PopEndCopy
<1>15. CASE PopStore(C)
  <2>1. /\ lidx[C] = read_index /\ Depth > 0 /\ frame[C] = <<P, delivered[P] + 1>>
        /\ Depth \in 0 .. Capacity
        /\ read_index' = NextIndex(read_index)
    BY <1>15, SizeBounds DEF PopStore
  <2>2. NextIndex(read_index) \in Slots /\ Depth' = Depth - 1
    BY <1>15, <2>1, SizeAfterPop DEF PopStore
  <2>3. frame[C] \in Frames
    BY <2>1
  <2>4. delivered' = [delivered EXCEPT ![P] = delivered[P] + 1]
    BY <1>15, <2>1, <2>3 DEF PopStore
  <2>5. TypeOK' /\ DepthCounts'
    BY <1>15, <2>1, <2>2, <2>4 DEF PopStore
  <2>6. ContentsInOrder'
    <3>1. \A i \in 0 .. Capacity - 1 :
            SlotAfter(NextIndex(read_index), i) = SlotAfter(read_index, i + 1)
      BY OccupiedSlots
    <3>2. \A i \in 0 .. Depth - 2 :
            slot[SlotAfter(read_index, i + 1)] = <<P, delivered[P] + 1 + (i + 1)>>
      BY <2>1
    <3>3. QED BY <1>15, <2>1, <2>2, <2>4, <3>1, <3>2 DEF PopStore
  <2>7. ProducerKnows'
    <3>1. write_index' = write_index /\ lidx' = lidx /\ slot' = slot /\ accepted' = accepted
          /\ pc'[P] = pc[P]
      BY <1>15 DEF PopStore
    <3>2. SizeOf(write_index, lidx[P])' = SizeOf(write_index, lidx[P])
      BY <3>1 DEF SizeOf
    <3>3. QED BY <2>1, <2>2, <3>1, <3>2, SizeBounds
  <2>8. ConsumerKnows'
    BY <1>15 DEF PopStore
  <2>9. QED BY <2>5, <2>6, <2>7, <2>8
<1>16. CASE PeekLoad(C)
  BY <1>16 DEF PeekLoad
<1>17. CASE PeekCheck(C)
  BY <1>17, SizeBounds DEF PeekCheck
<1>18. CASE PeekUse(C)
  BY <1>18 DEF PeekUse
<1>19. CASE SizeLoad(C)
  BY <1>19 DEF SizeLoad
<1>20. CASE SizeReturn(C)
  BY <1>20 DEF SizeReturn
<1>21. CASE Clear
  <2>1. Depth' = 0 /\ 0 \in Slots
    BY <1>21 DEF Clear, ClearIndices, SizeOf, Slots
  <2>2. pc[P] = "idle" /\ pc[C] = "idle"
    BY <1>21 DEF Clear
  <2>3. QED BY <1>21, <2>1, <2>2 DEF Clear, ClearIndices
<1>22. CASE UNCHANGED vars
  BY <1>22 DEF vars
<1>23. QED
  BY <1>4, <1>5, <1>6, <1>7, <1>8, <1>9, <1>10, <1>11, <1>12, <1>13, <1>14, <1>15, <1>16,
     <1>17, <1>18, <1>19, <1>20, <1>21, <1>22
     DEF Next, Push, IsEmpty, Pop, Peek, Size

\* Under the header's thread model the invariant holds in every state.
THEOREM IndInvHolds ==
  ASSUME SingleProducer, SingleConsumer
  PROVE  Spec => []IndInv
<1>1. Init => IndInv
  BY InitIndInv
<1>2. IndInv /\ [Next]_vars => IndInv'
  BY StepIndInv
<1>3. QED BY <1>1, <1>2, PTL DEF Spec

-----------------------------------------------------------------------------
(* What the users of the ring rely on.                                     *)

\* The invariant implies every safety property of the run.
LEMMA IndInvImplies ==
  ASSUME SingleProducer, SingleConsumer, IndInv
  PROVE  /\ TypeOK /\ PopReturnsNext /\ PeekStaysValid /\ NoSlotRace
         /\ NothingLost /\ ConsumerSizeIsSafe /\ ProducerEmptyIsExact
<1>1. PICK P : Producers = {P}
  BY DEF SingleProducer
<1>2. PICK C : Consumers = {C}
  BY DEF SingleConsumer
<1>3. /\ write_index \in Slots /\ read_index \in Slots
      /\ Depth \in 0 .. Capacity
      /\ SlotAfter(read_index, 0) = read_index
  BY SizeBounds, OccupiedSlots DEF IndInv, TypeOK, Depth
<1>4. TypeOK
  BY DEF IndInv
<1>5. PopReturnsNext
  BY <1>1 DEF IndInv, ConsumerKnows, PopReturnsNext, IsNextFrame
<1>6. PeekStaysValid
  <2>1. SUFFICES ASSUME pc[C] = "peekUse"
                 PROVE  slot[lidx[C]] = <<P, delivered[P] + 1>>
    BY <1>1, <1>2 DEF PeekStaysValid, IsNextFrame
  <2>2. lidx[C] = read_index /\ Depth > 0
    BY <1>1, <1>2, <2>1 DEF IndInv, ConsumerKnows
  <2>3. slot[SlotAfter(read_index, 0)] = <<P, delivered[P] + 1 + 0>>
    BY <1>1, <1>3, <2>2 DEF IndInv, ContentsInOrder
  <2>4. delivered[P] + 1 + 0 = delivered[P] + 1
    BY <1>1, BoundAssumption DEF IndInv, TypeOK
  <2>5. QED BY <1>3, <2>2, <2>3, <2>4
<1>7. NoSlotRace
  <2>1. SUFFICES ASSUME pc[P] \in {"pushCopy", "pushCopying", "pushStore"},
                        pc[C] \in {"popCopy", "popCopying", "peekUse"}
                 PROVE  lidx[P] # lidx[C]
    BY <1>1, <1>2 DEF NoSlotRace
  <2>2. lidx[P] = write_index
    BY <1>1, <2>1 DEF IndInv, ProducerKnows
  <2>3. lidx[C] = read_index /\ Depth > 0
    BY <1>1, <1>2, <2>1 DEF IndInv, ConsumerKnows
  <2>4. QED BY <1>3, <2>2, <2>3, SizeBounds DEF Depth
<1>8. NothingLost
  <2> DEFINE Held == {slot[SlotAfter(read_index, i)] : i \in 0 .. Depth - 1}
             Owed == {<<P, k>> : k \in delivered[P] + 1 .. accepted[P]}
  <2>1. accepted[P] = delivered[P] + Depth /\ delivered[P] \in Nat /\ accepted[P] \in Nat
    BY <1>1, <1>3, BoundAssumption DEF IndInv, TypeOK, DepthCounts
  <2>2. \A i \in 0 .. Depth - 1 :
          slot[SlotAfter(read_index, i)] = <<P, delivered[P] + 1 + i>>
    BY <1>1 DEF IndInv, ContentsInOrder
  <2>3. ASSUME NEW i \in 0 .. Depth - 1
        PROVE  slot[SlotAfter(read_index, i)] \in Owed
    <3>1. delivered[P] + 1 + i \in delivered[P] + 1 .. accepted[P]
      BY <1>3, <2>1
    <3>2. QED BY <2>2, <3>1
  <2>4. ASSUME NEW k \in delivered[P] + 1 .. accepted[P]
        PROVE  <<P, k>> \in Held
    <3>1. k - delivered[P] - 1 \in 0 .. Depth - 1
          /\ k = delivered[P] + 1 + (k - delivered[P] - 1)
      BY <1>3, <2>1
    <3>2. QED BY <2>2, <3>1
  <2>5. UNION {{<<p, k>> : k \in delivered[p] + 1 .. accepted[p]} : p \in Producers} = Owed
    BY <1>1
  <2>6. QED BY <2>3, <2>4, <2>5 DEF NothingLost
<1>9. ConsumerSizeIsSafe
  BY <1>1 DEF IndInv, ConsumerKnows, ConsumerSizeIsSafe, SizeResult
<1>10. ProducerEmptyIsExact
  BY <1>1, <1>3, SizeBounds
     DEF IndInv, TypeOK, ProducerKnows, ProducerEmptyIsExact, IsEmptyResult, Depth, Threads
<1>11. QED BY <1>4, <1>5, <1>6, <1>7, <1>8, <1>9, <1>10

\* With one producer and one consumer thread, every call stays inside its
\* type: indices never leave the ring whatever the interleaving.
THEOREM TypeCorrect ==
  ASSUME SingleProducer, SingleConsumer
  PROVE  Spec => []TypeOK
BY IndInvHolds, IndInvImplies, PTL

\* Pop() delivers each accepted frame once, in order and untorn.
THEOREM PopInOrder ==
  ASSUME SingleProducer, SingleConsumer
  PROVE  Spec => []PopReturnsNext
BY IndInvHolds, IndInvImplies, PTL

\* The pointer Peek() returns stays valid until the consumer pops, although
\* the header only promises it until the next Push().
THEOREM PeekValid ==
  ASSUME SingleProducer, SingleConsumer
  PROVE  Spec => []PeekStaysValid
BY IndInvHolds, IndInvImplies, PTL

\* Push() and Pop() never touch one slot at the same time.
THEOREM DataRaceFree ==
  ASSUME SingleProducer, SingleConsumer
  PROVE  Spec => []NoSlotRace
BY IndInvHolds, IndInvImplies, PTL

\* The ring holds exactly the frames accepted and not delivered.
THEOREM NoFrameLost ==
  ASSUME SingleProducer, SingleConsumer
  PROVE  Spec => []NothingLost
BY IndInvHolds, IndInvImplies, PTL

\* Size() from the consumer and IsEmpty() from the producer are safe to act on.
THEOREM ObserversSafe ==
  ASSUME SingleProducer, SingleConsumer
  PROVE  Spec => []ObserversAreSafe
<1>1. ConsumerSizeIsSafe /\ ProducerEmptyIsExact => ObserversAreSafe
  BY DEF ObserversAreSafe
<1> QED
  BY <1>1, IndInvHolds, IndInvImplies, PTL

-----------------------------------------------------------------------------
(* The ring implements the abstract queue.                                 *)

\* The n frames of producer p that follow frame d.
Following(p, d, n) == [i \in 1 .. n |-> <<p, d + i>>]

\* The mapped queue is the frames accepted and not delivered: what the slots outside it
\* hold, and where the ring begins, is not visible.
ContentsFollow ==
  \A p : Producers = {p} =>
    \E d, n \in Nat :
      /\ delivered[p] = d /\ accepted[p] = d + n
      /\ Contents = Following(p, d, n) /\ n = Depth

\* The ghost sequence of undelivered frames is determined by what was delivered and the depth.
LEMMA ContentsAre == IndInv => ContentsFollow
<1> SUFFICES ASSUME IndInv, NEW p, Producers = {p}
             PROVE  \E d, n \in Nat :
                      /\ delivered[p] = d /\ accepted[p] = d + n
                      /\ Contents = Following(p, d, n) /\ n = Depth
  BY DEF ContentsFollow
<1>1. /\ Depth \in 0 .. Capacity /\ accepted[p] - delivered[p] = Depth
      /\ delivered[p] \in Nat /\ accepted[p] \in Nat
  BY SizeBounds, BoundAssumption DEF IndInv, TypeOK, DepthCounts, Depth
<1> HIDE DEF Depth
<1>2. ASSUME NEW i \in 1 .. Depth
      PROVE  slot[SlotAfter(read_index, i - 1)] = <<p, delivered[p] + i>>
  <2>1. i - 1 \in 0 .. Depth - 1 /\ delivered[p] + 1 + (i - 1) = delivered[p] + i
    BY <1>1, CapacityAssumption
  <2>2. slot[SlotAfter(read_index, i - 1)] = <<p, delivered[p] + 1 + (i - 1)>>
    BY <2>1 DEF IndInv, ContentsInOrder
  <2> QED
    BY <2>1, <2>2
<1>3. accepted[p] = delivered[p] + Depth
  BY <1>1, CapacityAssumption
<1>4. Contents = Following(p, delivered[p], Depth)
  BY <1>2 DEF Contents, Following
<1> QED
  BY <1>1, <1>3, <1>4, CapacityAssumption

\* One more accepted frame extends what follows at the end.
LEMMA FollowingAppend ==
  ASSUME NEW p, NEW d \in Nat, NEW n \in Nat
  PROVE  /\ Len(Following(p, d, n)) = n
         /\ Following(p, d, n + 1) = Append(Following(p, d, n), <<p, d + n + 1>>)
<1>1. DOMAIN Following(p, d, n) = 1 .. n
  BY DEF Following
<1>2. Len(Following(p, d, n)) = n
  BY <1>1 DEF Following
<1>3. Following(p, d, n) \in Seq({p} \X Nat)
  BY DEF Following
<1>4. Append(Following(p, d, n), <<p, d + n + 1>>) =
        [i \in 1 .. n + 1 |-> IF i = n + 1 THEN <<p, d + n + 1>> ELSE Following(p, d, n)[i]]
  BY <1>2, <1>3
<1>5. ASSUME NEW i \in 1 .. n + 1
      PROVE  (IF i = n + 1 THEN <<p, d + n + 1>> ELSE Following(p, d, n)[i]) = <<p, d + i>>
  <2>1. CASE i = n + 1
    <3>1. d + n + 1 = d + i
      BY <2>1
    <3> QED
      BY <2>1, <3>1
  <2>2. CASE i # n + 1
    BY <2>2 DEF Following
  <2> QED
    BY <2>1, <2>2
<1>6. Append(Following(p, d, n), <<p, d + n + 1>>) = [i \in 1 .. n + 1 |-> <<p, d + i>>]
  BY <1>4, <1>5
<1> QED
  BY <1>2, <1>6 DEF Following

\* One more delivered frame takes what follows off at the front.
LEMMA FollowingTail ==
  ASSUME NEW p, NEW d \in Nat, NEW n \in Nat \ {0}
  PROVE  /\ Following(p, d, n) # << >>
         /\ Head(Following(p, d, n)) = <<p, d + 1>>
         /\ Tail(Following(p, d, n)) = Following(p, d + 1, n - 1)
<1> DEFINE q == Following(p, d, n)
<1>1. q \in Seq({p} \X Nat) /\ Len(q) = n /\ \A i \in 1 .. n : q[i] = <<p, d + i>>
  BY DEF Following
<1> HIDE DEF q
<1>2. q # << >> /\ Head(q) = <<p, d + 1>>
  BY <1>1
<1>3. /\ Tail(q) \in Seq({p} \X Nat) /\ Len(Tail(q)) = n - 1
      /\ \A i \in 1 .. n - 1 : Tail(q)[i] = q[i + 1]
  BY <1>1, <1>2, HeadTailProperties
<1> DEFINE r == Following(p, d + 1, n - 1)
<1>4. r \in Seq({p} \X Nat) /\ Len(r) = n - 1 /\ \A i \in 1 .. n - 1 : r[i] = <<p, (d + 1) + i>>
  BY DEF Following
<1> HIDE DEF r
<1>5. ASSUME NEW i \in 1 .. n - 1 PROVE Tail(q)[i] = r[i]
  <2>1. i + 1 \in 1 .. n /\ d + (i + 1) = (d + 1) + i
    OBVIOUS
  <2> QED
    BY <1>1, <1>3, <1>4, <2>1
<1>6. Tail(q) = r
  BY <1>3, <1>4, <1>5, SeqEqual
<1> QED
  BY <1>2, <1>6 DEF q, r

\* An empty ring is an empty queue.
LEMMA InitMaps == ASSUME Init PROVE Queue!Init
<1>1. Depth = 0
  BY DEF Init, Depth, SizeOf
<1>2. 1 .. Depth = {}
  BY <1>1
<1>3. Contents = << >>
  BY <1>2 DEF Contents
<1> QED
  BY <1>3 DEF Init, Queue!Init

\* Every step of the ring is a step of the queue or changes nothing of it: the store of
\* write_index_ puts, the store of read_index_ takes, Clear drops all.
LEMMA StepMaps ==
  ASSUME SingleProducer, SingleConsumer, IndInv, ContentsFollow, ContentsFollow', [Next]_vars
  PROVE  [Queue!Next]_Queue!qvars
<1>1. PICK P : Producers = {P}
  BY DEF SingleProducer
<1>2. PICK C : Consumers = {C}
  BY DEF SingleConsumer
<1>3. PICK d, n \in Nat : /\ delivered[P] = d /\ accepted[P] = d + n
                         /\ Contents = Following(P, d, n) /\ n = Depth
  BY <1>1 DEF ContentsFollow
<1>4. PICK d2, n2 \in Nat : /\ delivered'[P] = d2 /\ accepted'[P] = d2 + n2
                           /\ Contents' = Following(P, d2, n2)
  BY <1>1 DEF ContentsFollow
<1>5. accepted \in [{P} -> Nat] /\ delivered \in [{P} -> Nat]
  BY <1>1, BoundAssumption DEF IndInv, TypeOK
<1> HIDE DEF Depth, Contents
<1>6. CASE PushStore(P)
  <2>1. /\ accepted' = [accepted EXCEPT ![P] = @ + 1] /\ delivered' = delivered
        /\ n < Capacity
    BY <1>1, <1>3, <1>6 DEF PushStore, Goto, IndInv, ProducerKnows
  <2>2. d2 = d /\ n2 = n + 1
    BY <1>3, <1>4, <1>5, <2>1
  <2>3. Len(Contents) < Capacity
    BY <1>3, <2>1, FollowingAppend
  <2>4. Contents' = Append(Contents, <<P, accepted[P] + 1>>)
    <3>1. Following(P, d, n + 1) = Append(Following(P, d, n), <<P, d + n + 1>>)
      BY FollowingAppend
    <3>2. Contents' = Following(P, d, n + 1)
      BY <1>4, <2>2
    <3> QED
      BY <1>3, <3>1, <3>2
  <2>5. Queue!Put(P)
    BY <2>1, <2>3, <2>4 DEF Queue!Put
  <2> QED
    BY <1>1, <2>5 DEF Queue!Next
<1>7. CASE PopStore(C)
  <2>1. /\ frame[C] = <<P, d + 1>> /\ n > 0 /\ accepted' = accepted
        /\ delivered' = IF frame[C] \in Frames
                        THEN [delivered EXCEPT ![frame[C][1]] = frame[C][2]] ELSE delivered
    BY <1>1, <1>2, <1>3, <1>7 DEF PopStore, Goto, IndInv, ConsumerKnows
  <2>2. frame[C] \in Frames
    <3>1. d + n <= MaxFrames
      BY <1>1, <1>3, BoundAssumption DEF IndInv, TypeOK
    <3>2. d + 1 \in 1 .. MaxFrames
      BY <2>1, <3>1, BoundAssumption
    <3> QED
      BY <1>1, <2>1, <3>2 DEF Frames
  <2>3. delivered' = [delivered EXCEPT ![P] = d + 1]
    BY <2>1, <2>2
  <2>4. d2 = d + 1 /\ n2 = n - 1
    BY <1>3, <1>4, <1>5, <2>1, <2>3
  <2>5. Contents # << >> /\ Head(Contents) = <<P, d + 1>> /\ Tail(Contents) = Contents'
    <3>1. n \in Nat \ {0}
      BY <2>1
    <3>2. /\ Following(P, d, n) # << >> /\ Head(Following(P, d, n)) = <<P, d + 1>>
          /\ Tail(Following(P, d, n)) = Following(P, d + 1, n - 1)
      BY <3>1, FollowingTail
    <3>3. Contents' = Following(P, d + 1, n - 1)
      BY <1>4, <2>4
    <3> QED
      BY <1>3, <3>2, <3>3
  <2>6. Head(Contents)[1] = P /\ Head(Contents)[2] = d + 1
    BY <2>5
  <2>7. Queue!Take
    <3>1. delivered' = [delivered EXCEPT ![Head(Contents)[1]] = Head(Contents)[2]]
      BY <2>3, <2>6
    <3> QED
      BY <2>1, <2>5, <3>1 DEF Queue!Take
  <2> QED
    BY <2>7 DEF Queue!Next
<1>8. CASE Clear
  <2>1. delivered' = accepted /\ accepted' = accepted
    BY <1>8 DEF Clear, ClearIndices
  <2>2. n2 = 0
    BY <1>3, <1>4, <2>1
  <2>3. Contents' = << >>
    <3>1. 1 .. n2 = {}
      BY <2>2
    <3> QED
      BY <1>4, <3>1 DEF Following
  <2>4. Queue!DropAll
    BY <2>1, <2>3 DEF Queue!DropAll
  <2> QED
    BY <2>4 DEF Queue!Next
<1>9. CASE UNCHANGED <<accepted, delivered>>
  <2>1. d2 = d /\ n2 = n
    BY <1>3, <1>4, <1>9
  <2>2. Contents' = Contents
    BY <1>3, <1>4, <1>9, <2>1
  <2> QED
    BY <1>9, <2>2 DEF Queue!qvars
<1>10. PushStore(P) \/ PopStore(C) \/ Clear \/ UNCHANGED <<accepted, delivered>>
  BY <1>1, <1>2
     DEF Next, vars, Push, PushLoad, PushCheck, PushBeginCopy, PushEndCopy, IsEmpty, IsEmptyLoad,
         IsEmptyReturn, Pop, PopLoad, PopCheck, PopBeginCopy, PopEndCopy, Peek, PeekLoad,
         PeekCheck, PeekUse, Size, SizeLoad, SizeReturn
<1> QED
  BY <1>6, <1>7, <1>8, <1>9, <1>10

\* Under the header's thread model the lock-free ring is indistinguishable from a queue
\* whose operations are instantaneous.
THEOREM RingImplementsQueue ==
  ASSUME SingleProducer, SingleConsumer
  PROVE  Spec => ImplementsQueue
<1>1. Init => Queue!Init
  BY InitMaps
<1>2. IndInv /\ ContentsFollow /\ ContentsFollow' /\ [Next]_vars => [Queue!Next]_Queue!qvars
  BY StepMaps
<1> QED
  BY <1>1, <1>2, ContentsAre, IndInvHolds, PTL DEF Spec, ImplementsQueue, Queue!Spec
=============================================================================
