-------------------------- MODULE MetricsExporterProofs --------------------------
(***************************************************************************)
(* Proofs about MetricsExporter for any size of the queue, any number of    *)
(* submissions and of starts.  They hold for one submitting thread, which   *)
(* is what EventQueue is made for: run metrics_writers shows that two lose  *)
(* events.                                                                  *)
(***************************************************************************)
EXTENDS MetricsExporter, FiniteSetTheorems, SequenceTheorems, WellFoundedInduction, TLAPS

\* The thread model of EventQueue.
SingleSubmitter == \E s : Submitters = {s}

Tables == [channel: Cells, version: Cells, deprecated: BOOLEAN, recorded: Nat]

Typed ==
  /\ running \in BOOLEAN /\ stop_requested \in BOOLEAN
  /\ head \in QueueSlot /\ tail \in QueueSlot /\ buffer \in [QueueSlot -> Cells]
  /\ queue_overflow_total \in Nat /\ submitted_events \in Nat /\ processed_events \in Nat
  /\ metrics \in Tables
  /\ worker \in WorkerPoints /\ event \in Cells
  /\ control \in {"idle", "starting", "spawning", "stopping", "joining"}
  /\ pc \in [Submitters -> SubmitPoints] /\ ev \in [Submitters -> Cells]
  /\ loaded \in [Submitters -> Nat]
  /\ \A s \in Submitters :
       pc[s] \in {"direct", "push", "check", "copy", "store"} => ev[s] \in Events
  /\ log \in Seq(Events) /\ queued \in Seq(Events)
  /\ popped \in 0 .. Len(queued) /\ owed \in 0 .. Len(queued)
  /\ overtaken \in BOOLEAN

\* The number of queued events, and the slot n places after slot i.
DepthOf(t, h) == IF t >= h THEN t - h ELSE t - h + QueueSlots
Depth == DepthOf(tail, head)
SlotAfter(i, n) == IF i + n < QueueSlots THEN i + n ELSE i + n - QueueSlots

\* The occupied slots hold what was pushed and not popped, in order; the worker's hand
\* holds what it popped last.
Fifo ==
  /\ Len(queued) - popped = Depth
  /\ \A i \in 0 .. Depth - 1 : buffer[SlotAfter(head, i)] = queued[popped + i + 1]
  /\ worker = "apply" => popped >= 1 /\ event = queued[popped]

\* What the submitter knows within a Push: the index it read is still tail_, and the
\* room it found can only have grown.
PusherKnows ==
  \A s \in Submitters :
    /\ pc[s] \in {"check", "copy", "store"} => loaded[s] = tail
    /\ pc[s] \in {"copy", "store"} => Depth < QueueSlots - 1
    /\ pc[s] = "store" => buffer[tail] = ev[s]

\* Each counter is behind by the event that is being submitted or processed.
Counted ==
  /\ \A s \in Submitters :
       submitted_events + (IF pc[s] = "count" THEN 1 ELSE 0) = Len(queued)
  /\ processed_events + (IF worker \in {"apply", "count"} THEN 1 ELSE 0) = popped

WaiterKnows ==
  \A s \in Submitters :
    /\ pc[s] = "waitCompare" => loaded[s] <= processed_events
    /\ pc[s] = "waitEmpty" => processed_events = Len(queued)

\* The worker lives from Start to the join in Stop; it leaves when it is told, and
\* only with the queue empty.
WorkerLives ==
  /\ control = "idle" => (running <=> worker # "none")
  /\ control \in {"starting", "spawning"} => running /\ worker = "none"
  /\ control \in {"stopping", "joining"} => ~running /\ worker # "none"
  /\ control = "spawning" => ~stop_requested
  /\ worker # "none" => (stop_requested <=> control = "joining")
  /\ worker \in {"testEmpty", "exited"} => control = "joining"
  /\ worker \in {"none", "exited"} => popped >= owed

\* Accepted and not in the tables.
InFlight == Len(queued) - popped + (IF worker = "apply" THEN 1 ELSE 0)

\* The tables say what all the accepted events but those in flight say, and these are
\* the last that were accepted.
TablesFollow ==
  ~overtaken =>
    /\ InFlight <= Len(log)
    /\ metrics = Expected(SubSeq(log, 1, Len(log) - InFlight))
    /\ \A j \in 0 .. InFlight - 1 : log[Len(log) - j] = queued[Len(queued) - j]

IndInv ==
  /\ Typed
  /\ Fifo
  /\ PusherKnows
  /\ Counted
  /\ WaiterKnows
  /\ WorkerLives
  /\ TablesFollow

USE QueueAssumption DEF QueueSlot

-----------------------------------------------------------------------------
(* Arithmetic of the queue.                                                *)

\* The modular increment, without the modulus.
LEMMA NextSlotValue ==
  ASSUME NEW i \in QueueSlot
  PROVE  NextSlot(i) = IF i = QueueSlots - 1 THEN 0 ELSE i + 1
<1>1. CASE i = QueueSlots - 1
  <2>1. QueueSlots % QueueSlots = 0
    OBVIOUS
  <2> QED
    BY <1>1, <2>1 DEF NextSlot
<1>2. CASE i # QueueSlots - 1
  <2>1. i + 1 \in 0 .. QueueSlots - 1
    BY <1>2
  <2>2. \A m \in 0 .. QueueSlots - 1 : m % QueueSlots = m
    OBVIOUS
  <2> QED
    BY <1>2, <2>1, <2>2 DEF NextSlot
<1> QED
  BY <1>1, <1>2

\* The remainder, for the arguments it is taken of here.
LEMMA Remainder ==
  ASSUME NEW x \in -(QueueSlots - 1) .. 2 * QueueSlots - 1
  PROVE  x % QueueSlots = IF x < 0 THEN x + QueueSlots
                          ELSE IF x < QueueSlots THEN x ELSE x - QueueSlots
<1>1. CASE x \in 0 .. QueueSlots - 1
  BY <1>1
<1>2. CASE x \in QueueSlots .. 2 * QueueSlots - 1
  BY <1>2
<1>3. CASE x \in -(QueueSlots - 1) .. -1
  BY <1>3
<1> QED
  BY <1>1, <1>2, <1>3

\* The modular depth of two indices is in range, zero exactly when they meet and largest
\* exactly when the next push would meet the head.
LEMMA DepthBounds ==
  ASSUME NEW t \in QueueSlot, NEW h \in QueueSlot
  PROVE  /\ DepthOf(t, h) \in 0 .. QueueSlots - 1
         /\ (t - h) % QueueSlots = DepthOf(t, h)
         /\ DepthOf(t, h) = 0 <=> h = t
         /\ DepthOf(t, h) = QueueSlots - 1 <=> NextSlot(t) = h
<1>1. (t - h) % QueueSlots = DepthOf(t, h)
  BY Remainder DEF DepthOf
<1> QED
  BY <1>1, NextSlotValue DEF DepthOf

\* A queue with room takes one more.
LEMMA DepthAfterPush ==
  ASSUME NEW t \in QueueSlot, NEW h \in QueueSlot, DepthOf(t, h) < QueueSlots - 1
  PROVE  /\ NextSlot(t) \in QueueSlot
         /\ DepthOf(NextSlot(t), h) = DepthOf(t, h) + 1
BY NextSlotValue DEF DepthOf

\* A queue that is not empty gives up its oldest.
LEMMA DepthAfterPop ==
  ASSUME NEW t \in QueueSlot, NEW h \in QueueSlot, h # t
  PROVE  /\ NextSlot(h) \in QueueSlot
         /\ DepthOf(t, NextSlot(h)) = DepthOf(t, h) - 1
BY NextSlotValue DEF DepthOf

\* The occupied slots are the ones from head up to, and without, tail.
LEMMA OccupiedSlots ==
  ASSUME NEW t \in QueueSlot, NEW h \in QueueSlot
  PROVE  /\ SlotAfter(h, 0) = h
         /\ SlotAfter(h, DepthOf(t, h)) = t
         /\ \A i \in 0 .. DepthOf(t, h) - 1 : SlotAfter(h, i) \in QueueSlot /\ SlotAfter(h, i) # t
         /\ \A i \in 0 .. QueueSlots - 2 : SlotAfter(NextSlot(h), i) = SlotAfter(h, i + 1)
BY NextSlotValue DEF SlotAfter, DepthOf

\* Pending, without the modulus.
LEMMA PendingIs ==
  ASSUME Typed
  PROVE  Pending = [i \in 1 .. Depth |-> buffer[SlotAfter(head, i - 1)]]
<1>1. head \in QueueSlot /\ tail \in QueueSlot
  BY DEF Typed
<1>2. (tail - head) % QueueSlots = Depth /\ Depth \in 0 .. QueueSlots - 1
  BY <1>1, DepthBounds DEF Depth
<1>3. ASSUME NEW i \in 1 .. Depth
      PROVE  (head + i - 1) % QueueSlots = SlotAfter(head, i - 1)
  <2>1. head + i - 1 \in -(QueueSlots - 1) .. 2 * QueueSlots - 1 /\ head + i - 1 >= 0
    BY <1>1, <1>2
  <2> QED
    BY <1>1, <2>1, Remainder DEF SlotAfter
<1> QED
  BY <1>2, <1>3 DEF Pending

\* With nothing pending the indices meet.
LEMMA EmptyPending ==
  ASSUME Typed, Pending = << >>
  PROVE  Depth = 0
<1>1. Pending = [i \in 1 .. Depth |-> buffer[SlotAfter(head, i - 1)]]
  BY PendingIs
<1>2. DOMAIN Pending = 1 .. Depth
  BY <1>1
<1>3. 1 .. Depth = {}
  BY <1>2
<1>4. Depth \in 0 .. QueueSlots - 1
  BY DepthBounds DEF Depth, Typed
<1> HIDE DEF Depth
<1> QED
  BY <1>3, <1>4

-----------------------------------------------------------------------------
(* What the events say.                                                    *)

\* A nonempty set of positions has a largest one.
LEMMA HasLargest ==
  ASSUME NEW n \in Nat, NEW S \in SUBSET (1 .. n), S # {}
  PROVE  \E x \in S : \A y \in S : y <= x
<1> DEFINE T == {n - x : x \in S}
<1>1. T \subseteq Nat /\ T # {}
  <2>1. ASSUME NEW y \in T PROVE y \in Nat
    <3>1. PICK x \in S : y = n - x
      OBVIOUS
    <3>2. x \in 1 .. n
      OBVIOUS
    <3> QED
      BY <3>1, <3>2
  <2>2. PICK x \in S : TRUE
    OBVIOUS
  <2>3. n - x \in T
    OBVIOUS
  <2> QED
    BY <2>1, <2>3
<1> DEFINE R == OpToRel(<, Nat)
<1>2. IsWellFoundedOn(R, Nat)
  BY NatLessThanWellFounded
<1>3. \A a, b \in Nat : a < b => <<a, b>> \in R
  BY DEF OpToRel
<1> HIDE DEF T, R
<1>4. PICK k \in T : \A y \in T : <<y, k>> \notin R
  BY <1>1, <1>2, WFMin
<1>5. \A y \in T : ~(y < k)
  BY <1>1, <1>3, <1>4
<1>6. PICK x \in S : k = n - x
  BY <1>4 DEF T
<1>7. \A y \in S : y <= x
  <2> SUFFICES ASSUME NEW y \in S PROVE y <= x
    OBVIOUS
  <2>1. n - y \in T
    BY DEF T
  <2>2. ~(n - y < n - x) /\ x \in Int /\ y \in Int
    BY <1>5, <1>6, <2>1
  <2> QED
    BY <2>2
<1> QED
  BY <1>7

\* The place of the last event of some kinds, when one more is appended.
LEMMA MaxIsLast ==
  ASSUME NEW S \in SUBSET Int, NEW x \in S, \A y \in S : y <= x
  PROVE  Max(S) = x
<1>1. \A y \in S : (\A z \in S : y >= z) => y = x
  BY \A y \in S : y \in Int
<1>2. \A y \in S : x >= y
  OBVIOUS
<1> QED
  BY <1>1, <1>2 DEF Max

\* One more event is the last of its kinds, or leaves the last one as it was.
LEMMA LastOfAppend ==
  ASSUME NEW s \in Seq(Events), NEW e \in Events, NEW kinds
  PROVE  LastOf(Append(s, e), kinds) = IF e.kind \in kinds THEN e ELSE LastOf(s, kinds)
<1> DEFINE t == Append(s, e)
           at == {i \in DOMAIN s : s[i].kind \in kinds}
           bt == {i \in DOMAIN t : t[i].kind \in kinds}
<1>1. /\ Len(t) = Len(s) + 1 /\ Len(s) \in Nat
      /\ \A i \in 1 .. Len(s) : t[i] = s[i]
      /\ t[Len(s) + 1] = e
      /\ DOMAIN s = 1 .. Len(s) /\ DOMAIN t = 1 .. Len(s) + 1
  OBVIOUS
<1> HIDE DEF t
<1>2. CASE e.kind \in kinds
  <2>1. Len(s) + 1 \in bt /\ bt \subseteq 1 .. Len(s) + 1
    BY <1>1, <1>2
  <2>2. Max(bt) = Len(s) + 1
    <3>1. bt \in SUBSET Int /\ \A y \in bt : y <= Len(s) + 1
      BY <1>1, <2>1
    <3> HIDE DEF bt
    <3> QED
      BY <2>1, <3>1, MaxIsLast
  <2>3. LastOf(t, kinds) = e
    BY <1>1, <2>1, <2>2 DEF LastOf
  <2> QED
    BY <1>2, <2>3 DEF t
<1>3. CASE e.kind \notin kinds
  <2>1. bt = at
    BY <1>1, <1>3
  <2>2. at \subseteq 1 .. Len(s)
    BY <1>1
  <2>3. CASE at = {}
    BY <1>3, <2>1, <2>3 DEF LastOf, t
  <2>4. CASE at # {}
    <3>1. Max(at) \in at
      <4>1. PICK x \in at : \A y \in at : y <= x
        BY <1>1, <2>2, <2>4, HasLargest
      <4>2. at \in SUBSET Int
        BY <1>1, <2>2
      <4> HIDE DEF at
      <4> QED
        BY <4>1, <4>2, MaxIsLast
    <3> QED
      BY <1>1, <1>3, <2>1, <2>2, <2>4, <3>1 DEF LastOf, t
  <2> QED
    BY <2>3, <2>4
<1> QED
  BY <1>2, <1>3

\* One more event raises the number of records by one exactly if it is one.
LEMMA RecordsAppend ==
  ASSUME NEW s \in Seq(Events), NEW e \in Events
  PROVE  Cardinality({i \in DOMAIN Append(s, e) : Append(s, e)[i].kind = "record"})
           = Cardinality({i \in DOMAIN s : s[i].kind = "record"})
             + (IF e.kind = "record" THEN 1 ELSE 0)
<1> DEFINE t == Append(s, e)
           at == {i \in DOMAIN s : s[i].kind = "record"}
           bt == {i \in DOMAIN t : t[i].kind = "record"}
<1>1. /\ Len(t) = Len(s) + 1 /\ Len(s) \in Nat
      /\ \A i \in 1 .. Len(s) : t[i] = s[i]
      /\ t[Len(s) + 1] = e
      /\ DOMAIN s = 1 .. Len(s) /\ DOMAIN t = 1 .. Len(s) + 1
  OBVIOUS
<1>2. IsFiniteSet(at) /\ Cardinality(at) \in Nat
  <2>1. IsFiniteSet(1 .. Len(s)) /\ at \subseteq 1 .. Len(s)
    BY <1>1, FS_Interval
  <2> QED
    BY <2>1, FS_Subset, FS_CardinalityType
<1> HIDE DEF t
<1>3. CASE e.kind = "record"
  <2>1. bt = at \cup {Len(s) + 1} /\ Len(s) + 1 \notin at
    BY <1>1, <1>3
  <2>2. Cardinality(bt) = Cardinality(at) + 1
    BY <1>2, <2>1, FS_AddElement
  <2> QED
    BY <1>3, <2>2 DEF t
<1>4. CASE e.kind # "record"
  <2>1. bt = at
    BY <1>1, <1>4
  <2>2. Cardinality(bt) = Cardinality(at) + 0
    <3> HIDE DEF at, bt
    <3> QED
      BY <1>2, <2>1
  <2> QED
    BY <1>4, <2>2 DEF t
<1> QED
  BY <1>3, <1>4

\* One more event changes what the events say as ProcessEvent changes the tables.
LEMMA ExpectedAppend ==
  ASSUME NEW s \in Seq(Events), NEW e \in Events, Expected(s) \in Tables
  PROVE  Expected(Append(s, e)) = ProcessEvent(Expected(s), e)
<1> DEFINE m == Expected(s)
           t == Append(s, e)
<1>1. ASSUME NEW kinds
      PROVE  LastOf(t, kinds) = IF e.kind \in kinds THEN e ELSE LastOf(s, kinds)
  BY LastOfAppend
<1>2. LastOf(t, {"update", "remove"}) =
        IF e.kind \in {"update", "remove"} THEN e ELSE LastOf(s, {"update", "remove"})
  BY <1>1
<1>3. LastOf(t, {"register"}) = IF e.kind \in {"register"} THEN e ELSE LastOf(s, {"register"})
  BY <1>1
<1>4. LastOf(t, {"register", "deprecate"}) =
        IF e.kind \in {"register", "deprecate"} THEN e ELSE LastOf(s, {"register", "deprecate"})
  BY <1>1
<1> DEFINE n == Cardinality({i \in DOMAIN s : s[i].kind = "record"})
           k == Cardinality({i \in DOMAIN t : t[i].kind = "record"})
<1>5. k = n + (IF e.kind = "record" THEN 1 ELSE 0)
  BY RecordsAppend
<1> HIDE DEF t, n, k
<1> DEFINE last == LastOf(s, {"update", "remove"})
           version == LastOf(s, {"register"})
           flag == LastOf(s, {"register", "deprecate"})
<1>6. /\ m.channel = (IF last.kind = "update" THEN last ELSE NoEvent)
      /\ m.version = version
      /\ m.deprecated = (flag.kind = "deprecate")
      /\ m.recorded = n
  BY DEF Expected, n
<1>7. Expected(t) =
        [channel    |-> IF LastOf(t, {"update", "remove"}).kind = "update"
                        THEN LastOf(t, {"update", "remove"}) ELSE NoEvent,
         version    |-> LastOf(t, {"register"}),
         deprecated |-> LastOf(t, {"register", "deprecate"}).kind = "deprecate",
         recorded   |-> k]
  BY DEF Expected, k
<1> DEFINE channel == LastOf(t, {"update", "remove"})
           version2 == LastOf(t, {"register"})
           flag2 == LastOf(t, {"register", "deprecate"})
<1>8. ASSUME NEW c, NEW v, NEW d, NEW r,
             c = (IF channel.kind = "update" THEN channel ELSE NoEvent), v = version2,
             d = (flag2.kind = "deprecate"), r = k
      PROVE  Expected(t) = [channel |-> c, version |-> v, deprecated |-> d, recorded |-> r]
  BY <1>7, <1>8
<1>9. m \in Tables /\ e.kind \in Kinds
  BY DEF Events
<1> HIDE DEF m, last, version, flag, channel, version2, flag2
<1>10. /\ channel = IF e.kind \in {"update", "remove"} THEN e ELSE last
       /\ version2 = IF e.kind \in {"register"} THEN e ELSE version
       /\ flag2 = IF e.kind \in {"register", "deprecate"} THEN e ELSE flag
  BY <1>2, <1>3, <1>4 DEF last, version, flag, channel, version2, flag2
<1>11. CASE e.kind = "update"
  <2>1. e = (IF channel.kind = "update" THEN channel ELSE NoEvent)
    BY <1>6, <1>10, <1>11
  <2>2. m.version = version2
    BY <1>6, <1>10, <1>11
  <2>3. m.deprecated = (flag2.kind = "deprecate")
    BY <1>6, <1>10, <1>11
  <2>4. m.recorded = k
    BY <1>5, <1>6, <1>9, <1>11 DEF Tables
  <2>5. Expected(t) = [channel |-> e, version |-> m.version, deprecated |-> m.deprecated,
                       recorded |-> m.recorded]
    BY <1>8, <2>1, <2>2, <2>3, <2>4
  <2>6. ProcessEvent(m, e) = [channel |-> e, version |-> m.version, deprecated |-> m.deprecated,
                              recorded |-> m.recorded]
    BY <1>9, <1>11 DEF ProcessEvent, Tables
  <2>7. Expected(t) = ProcessEvent(m, e)
    BY <2>5, <2>6
  <2> QED
    BY <2>7 DEF m, t
<1>12. CASE e.kind = "remove"
  <2>1. NoEvent = (IF channel.kind = "update" THEN channel ELSE NoEvent)
    BY <1>6, <1>10, <1>12
  <2>2. m.version = version2
    BY <1>6, <1>10, <1>12
  <2>3. m.deprecated = (flag2.kind = "deprecate")
    BY <1>6, <1>10, <1>12
  <2>4. m.recorded = k
    BY <1>5, <1>6, <1>9, <1>12 DEF Tables
  <2>5. Expected(t) = [channel |-> NoEvent, version |-> m.version, deprecated |-> m.deprecated,
                       recorded |-> m.recorded]
    BY <1>8, <2>1, <2>2, <2>3, <2>4
  <2>6. ProcessEvent(m, e) = [channel |-> NoEvent, version |-> m.version, deprecated |-> m.deprecated,
                              recorded |-> m.recorded]
    BY <1>9, <1>12 DEF ProcessEvent, Tables
  <2>7. Expected(t) = ProcessEvent(m, e)
    BY <2>5, <2>6
  <2> QED
    BY <2>7 DEF m, t
<1>13. CASE e.kind = "register"
  <2>1. m.channel = (IF channel.kind = "update" THEN channel ELSE NoEvent)
    BY <1>6, <1>10, <1>13
  <2>2. e = version2
    BY <1>6, <1>10, <1>13
  <2>3. FALSE = (flag2.kind = "deprecate")
    BY <1>6, <1>10, <1>13
  <2>4. m.recorded = k
    BY <1>5, <1>6, <1>9, <1>13 DEF Tables
  <2>5. Expected(t) = [channel |-> m.channel, version |-> e, deprecated |-> FALSE,
                       recorded |-> m.recorded]
    BY <1>8, <2>1, <2>2, <2>3, <2>4
  <2>6. ProcessEvent(m, e) = [channel |-> m.channel, version |-> e, deprecated |-> FALSE,
                              recorded |-> m.recorded]
    BY <1>9, <1>13 DEF ProcessEvent, Tables
  <2>7. Expected(t) = ProcessEvent(m, e)
    BY <2>5, <2>6
  <2> QED
    BY <2>7 DEF m, t
<1>14. CASE e.kind = "deprecate"
  <2>0. PICK flag3 : flag3 = TRUE
    OBVIOUS
  <2>1. m.channel = (IF channel.kind = "update" THEN channel ELSE NoEvent)
    BY <1>6, <1>10, <1>14
  <2>2. m.version = version2
    BY <1>6, <1>10, <1>14
  <2>3. flag3 = (flag2.kind = "deprecate")
    BY <1>6, <1>10, <1>14, <2>0
  <2>4. m.recorded = k
    BY <1>5, <1>6, <1>9, <1>14 DEF Tables
  <2>5. Expected(t) = [channel |-> m.channel, version |-> m.version, deprecated |-> flag3,
                       recorded |-> m.recorded]
    BY <1>8, <2>1, <2>2, <2>3, <2>4
  <2>6. ProcessEvent(m, e) = [channel |-> m.channel, version |-> m.version, deprecated |-> flag3,
                              recorded |-> m.recorded]
    BY <1>9, <1>14, <2>0 DEF ProcessEvent, Tables
  <2>7. Expected(t) = ProcessEvent(m, e)
    BY <2>5, <2>6
  <2> QED
    BY <2>7 DEF m, t
<1>15. CASE e.kind = "record"
  <2>1. m.channel = (IF channel.kind = "update" THEN channel ELSE NoEvent)
    BY <1>6, <1>10, <1>15
  <2>2. m.version = version2
    BY <1>6, <1>10, <1>15
  <2>3. m.deprecated = (flag2.kind = "deprecate")
    BY <1>6, <1>10, <1>15
  <2>4. m.recorded + 1 = k
    BY <1>5, <1>6, <1>9, <1>15 DEF Tables
  <2>5. Expected(t) = [channel |-> m.channel, version |-> m.version, deprecated |-> m.deprecated,
                       recorded |-> m.recorded + 1]
    BY <1>8, <2>1, <2>2, <2>3, <2>4
  <2>6. ProcessEvent(m, e) = [channel |-> m.channel, version |-> m.version, deprecated |-> m.deprecated,
                              recorded |-> m.recorded + 1]
    <3>1. ProcessEvent(m, e) = [m EXCEPT !.recorded = m.recorded + 1]
      BY <1>15 DEF ProcessEvent
    <3> QED
      BY <1>9, <3>1 DEF Tables
  <2>7. Expected(t) = ProcessEvent(m, e)
    BY <2>5, <2>6
  <2> QED
    BY <2>7 DEF m, t
<1> QED
  BY <1>9, <1>11, <1>12, <1>13, <1>14, <1>15 DEF Kinds

\* Without events the tables are those of a new exporter.
LEMMA ExpectedEmpty == Expected(<< >>) = NoMetrics
<1>1. DOMAIN << >> = {}
  OBVIOUS
<1>2. \A kinds : LastOf(<< >>, kinds) = NoEvent
  BY <1>1 DEF LastOf
<1>3. {i \in DOMAIN << >> : << >>[i].kind = "record"} = {}
  BY <1>1
<1>4. Cardinality({i \in DOMAIN << >> : << >>[i].kind = "record"}) = 0
  BY <1>3, FS_EmptySet
<1>5. NoEvent.kind = "none"
  BY DEF NoEvent
<1> QED
  BY <1>2, <1>4, <1>5 DEF Expected, NoMetrics

\* The tables stay tables.
LEMMA ProcessEventTyped ==
  ASSUME NEW m \in Tables, NEW e \in Events
  PROVE  ProcessEvent(m, e) \in Tables
<1>1. e.kind \in Kinds /\ e \in Cells
  BY DEF Events, Cells
<1>2. NoEvent \in Cells
  BY DEF Cells
<1>3. m.recorded + 1 \in Nat
  BY DEF Tables
<1>4. CASE e.kind \in {"update", "remove"}
  BY <1>1, <1>2, <1>4 DEF ProcessEvent, Tables
<1>5. CASE e.kind = "register"
  BY <1>1, <1>5 DEF ProcessEvent, Tables
<1>6. CASE e.kind = "deprecate"
  BY <1>6 DEF ProcessEvent, Tables
<1>7. CASE e.kind = "record"
  BY <1>3, <1>7 DEF ProcessEvent, Tables
<1> QED
  BY <1>1, <1>4, <1>5, <1>6, <1>7 DEF Kinds

-----------------------------------------------------------------------------
(* The submitter.  Its steps leave the worker and the control alone.       *)

\* What an invariant part depends on, in groups of variables.
QueueKept == UNCHANGED <<head, tail, buffer, queued, popped>>
WorkerKept == UNCHANGED <<worker, event, running, stop_requested, control, starts, owed>>
TablesKept == UNCHANGED <<metrics, log, overtaken>>

\* The conjuncts about the queue, the worker and the tables survive a step that touches none.
LEMMA OthersKept ==
  ASSUME IndInv, QueueKept, WorkerKept, TablesKept
  PROVE  Fifo' /\ WorkerLives' /\ TablesFollow'
BY DEF IndInv, Fifo, Depth, WorkerLives, TablesFollow, InFlight, QueueKept, WorkerKept, TablesKept

\* Types survive a step of the submitter or of a waiter that keeps queue, worker and tables.
LEMMA TypedKept ==
  ASSUME IndInv, QueueKept, WorkerKept, TablesKept,
         queue_overflow_total' \in Nat, submitted_events' \in Nat, processed_events' \in Nat,
         pc' \in [Submitters -> SubmitPoints], ev' \in [Submitters -> Cells],
         loaded' \in [Submitters -> Nat],
         \A s \in Submitters :
           pc'[s] \in {"direct", "push", "check", "copy", "store"} => ev'[s] \in Events
  PROVE  Typed'
BY DEF IndInv, Typed, QueueKept, WorkerKept, TablesKept

\* Submit preserves the invariant.
LEMMA SubmitInv ==
  ASSUME IndInv, NEW s, Submitters = {s}, NEW kind \in Kinds, Submit(s, kind)
  PROVE  IndInv'
<1> DEFINE e == [by |-> s, n |-> ev[s].n + 1, kind |-> kind,
                 path |-> IF running THEN "queue" ELSE "direct"]
           to == IF running THEN "push" ELSE "direct"
<1>0. /\ QueueKept /\ WorkerKept /\ TablesKept /\ UNCHANGED <<countVars, loaded>>
      /\ pc[s] = "idle" /\ pc' = [pc EXCEPT ![s] = to]
      /\ ev[s].n < Len(Script) /\ ev' = [ev EXCEPT ![s] = e]
  BY DEF Submit, Goto, QueueKept, WorkerKept, TablesKept, queueVars, workerVars, controlVars,
         historyVars
<1>1. /\ pc \in [Submitters -> SubmitPoints] /\ ev \in [Submitters -> Cells]
      /\ loaded \in [Submitters -> Nat]
  BY DEF IndInv, Typed
<1>2. e \in Events
  <2>1. ev[s].n \in 0 .. Len(Script) /\ Len(Script) \in Nat
    BY <1>1, ScriptAssumption DEF Cells, Events, NoEvent
  <2>2. ev[s].n + 1 \in 1 .. Len(Script)
    BY <1>0, <2>1
  <2> QED
    BY <2>2 DEF Events
<1> HIDE DEF e
<1>3. /\ pc'[s] = to /\ ev'[s] = e /\ to \in {"push", "direct"}
      /\ pc' \in [Submitters -> SubmitPoints] /\ ev' \in [Submitters -> Cells]
  BY <1>0, <1>1, <1>2 DEF SubmitPoints, Cells
<1>4. Typed'
  BY <1>0, <1>1, <1>2, <1>3, TypedKept DEF countVars, IndInv, Typed
<1>5. PusherKnows' /\ Counted' /\ WaiterKnows'
  BY <1>0, <1>3
     DEF IndInv, PusherKnows, Counted, WaiterKnows, countVars, QueueKept, WorkerKept, Depth
<1> QED
  BY <1>0, <1>4, <1>5, OthersKept DEF IndInv

\* PushLoad preserves the invariant.
LEMMA PushLoadInv ==
  ASSUME IndInv, NEW s, Submitters = {s}, PushLoad(s)
  PROVE  IndInv'
<1>0. /\ QueueKept /\ WorkerKept /\ TablesKept /\ UNCHANGED <<countVars, ev>>
      /\ pc[s] = "push" /\ pc' = [pc EXCEPT ![s] = "check"]
      /\ loaded' = [loaded EXCEPT ![s] = tail]
  BY DEF PushLoad, Goto, QueueKept, WorkerKept, TablesKept, queueVars, workerVars, controlVars,
         historyVars
<1>1. /\ pc \in [Submitters -> SubmitPoints] /\ ev \in [Submitters -> Cells] /\ ev[s] \in Events
      /\ loaded \in [Submitters -> Nat] /\ tail \in Nat
  BY <1>0 DEF IndInv, Typed
<1>2. /\ pc'[s] = "check" /\ loaded'[s] = tail
      /\ pc' \in [Submitters -> SubmitPoints] /\ loaded' \in [Submitters -> Nat]
  BY <1>0, <1>1 DEF SubmitPoints
<1>3. Typed'
  BY <1>0, <1>1, <1>2, TypedKept DEF countVars, IndInv, Typed
<1>4. PusherKnows' /\ Counted' /\ WaiterKnows'
  BY <1>0, <1>2
     DEF IndInv, PusherKnows, Counted, WaiterKnows, countVars, QueueKept, WorkerKept, Depth
<1> QED
  BY <1>0, <1>3, <1>4, OthersKept DEF IndInv

\* PushCheck preserves the invariant.
LEMMA PushCheckInv ==
  ASSUME IndInv, NEW s, Submitters = {s}, PushCheck(s)
  PROVE  IndInv'
<1>0. /\ QueueKept /\ WorkerKept /\ TablesKept
      /\ UNCHANGED <<ev, submitted_events, processed_events>>
      /\ pc[s] = "check"
      /\ \/ /\ pc' = [pc EXCEPT ![s] = "idle"] /\ loaded' = [loaded EXCEPT ![s] = 0]
            /\ queue_overflow_total' = queue_overflow_total + 1
         \/ /\ NextSlot(loaded[s]) # head /\ pc' = [pc EXCEPT ![s] = "copy"]
            /\ UNCHANGED <<loaded, queue_overflow_total>>
  BY DEF PushCheck, Goto, QueueKept, WorkerKept, TablesKept, queueVars, workerVars, controlVars,
         historyVars
<1>1. /\ pc \in [Submitters -> SubmitPoints] /\ ev \in [Submitters -> Cells] /\ ev[s] \in Events
      /\ loaded \in [Submitters -> Nat] /\ tail \in QueueSlot /\ head \in QueueSlot
      /\ queue_overflow_total \in Nat /\ loaded[s] = tail
  BY <1>0 DEF IndInv, Typed, PusherKnows
<1>2. CASE pc' = [pc EXCEPT ![s] = "idle"] /\ loaded' = [loaded EXCEPT ![s] = 0]
           /\ queue_overflow_total' = queue_overflow_total + 1
  <2>1. /\ pc'[s] = "idle" /\ pc' \in [Submitters -> SubmitPoints]
        /\ loaded' \in [Submitters -> Nat] /\ queue_overflow_total' \in Nat
    BY <1>1, <1>2 DEF SubmitPoints
  <2>2. Typed'
    BY <1>0, <1>1, <2>1, TypedKept DEF IndInv, Typed
  <2>3. PusherKnows' /\ Counted' /\ WaiterKnows'
    BY <1>0, <2>1 DEF IndInv, PusherKnows, Counted, WaiterKnows, QueueKept, WorkerKept
  <2> QED
    BY <1>0, <2>2, <2>3, OthersKept DEF IndInv
<1>3. CASE NextSlot(loaded[s]) # head /\ pc' = [pc EXCEPT ![s] = "copy"]
           /\ UNCHANGED <<loaded, queue_overflow_total>>
  <2>1. /\ pc'[s] = "copy" /\ pc' \in [Submitters -> SubmitPoints]
        /\ loaded' = loaded /\ queue_overflow_total' \in Nat
    BY <1>1, <1>3 DEF SubmitPoints
  <2>2. Depth < QueueSlots - 1
    BY <1>1, <1>3, DepthBounds DEF Depth
  <2>3. Typed'
    BY <1>0, <1>1, <2>1, TypedKept DEF IndInv, Typed
  <2>4. PusherKnows' /\ Counted' /\ WaiterKnows'
    BY <1>0, <1>1, <2>1, <2>2
       DEF IndInv, PusherKnows, Counted, WaiterKnows, QueueKept, WorkerKept, Depth
  <2> QED
    BY <1>0, <2>3, <2>4, OthersKept DEF IndInv
<1> QED
  BY <1>0, <1>2, <1>3

\* The copy goes to the slot at tail_, which is not occupied.
LEMMA PushCopyInv ==
  ASSUME IndInv, NEW s, Submitters = {s}, PushCopy(s)
  PROVE  IndInv'
<1>0. /\ WorkerKept /\ TablesKept
      /\ UNCHANGED <<ev, loaded, countVars, head, tail, queued, popped>>
      /\ pc[s] = "copy" /\ pc' = [pc EXCEPT ![s] = "store"]
      /\ buffer' = [buffer EXCEPT ![loaded[s]] = ev[s]]
  BY DEF PushCopy, Goto, WorkerKept, TablesKept, workerVars, controlVars, historyVars
<1>1. /\ pc \in [Submitters -> SubmitPoints] /\ ev[s] \in Events /\ ev[s] \in Cells
      /\ tail \in QueueSlot /\ head \in QueueSlot /\ loaded[s] = tail
      /\ buffer \in [QueueSlot -> Cells] /\ Depth < QueueSlots - 1
  BY <1>0 DEF IndInv, Typed, PusherKnows, Cells
<1>2. /\ pc'[s] = "store" /\ pc' \in [Submitters -> SubmitPoints]
      /\ buffer' \in [QueueSlot -> Cells] /\ buffer'[tail] = ev[s]
      /\ \A i \in QueueSlot \ {tail} : buffer'[i] = buffer[i]
  BY <1>0, <1>1 DEF SubmitPoints
<1>3. Typed'
  BY <1>0, <1>1, <1>2 DEF IndInv, Typed, WorkerKept, TablesKept, countVars
<1>4. Fifo'
  <2>1. Depth' = Depth
    BY <1>0 DEF Depth
  <2>2. \A i \in 0 .. Depth - 1 : buffer'[SlotAfter(head, i)] = buffer[SlotAfter(head, i)]
    BY <1>1, <1>2, OccupiedSlots DEF Depth
  <2> QED
    BY <1>0, <2>1, <2>2 DEF IndInv, Fifo, WorkerKept
<1>5. PusherKnows' /\ Counted' /\ WaiterKnows'
  BY <1>0, <1>1, <1>2
     DEF IndInv, PusherKnows, Counted, WaiterKnows, countVars, WorkerKept, Depth
<1>6. WorkerLives' /\ TablesFollow'
  BY <1>0 DEF IndInv, WorkerLives, TablesFollow, InFlight, WorkerKept, TablesKept
<1> QED
  BY <1>3, <1>4, <1>5, <1>6 DEF IndInv

-----------------------------------------------------------------------------
(* Prefixes of the log.                                                    *)

\* Indices and length of a sequence after an append.
LEMMA Appended ==
  ASSUME NEW s \in Seq(Events), NEW e \in Events
  PROVE  /\ Append(s, e) \in Seq(Events) /\ Len(s) \in Nat
         /\ Len(Append(s, e)) = Len(s) + 1
         /\ Append(s, e)[Len(s) + 1] = e
         /\ \A i \in 1 .. Len(s) : Append(s, e)[i] = s[i]
OBVIOUS

\* Indices and length of a prefix.
LEMMA PrefixIs ==
  ASSUME NEW s \in Seq(Events), NEW m \in 0 .. Len(s)
  PROVE  /\ SubSeq(s, 1, m) \in Seq(Events) /\ Len(SubSeq(s, 1, m)) = m
         /\ \A i \in 1 .. m : SubSeq(s, 1, m)[i] = s[i]
<1>1. Len(s) \in Nat /\ \A i \in 1 .. m : s[i] \in Events
  OBVIOUS
<1>2. SubSeq(s, 1, m) = [i \in 1 .. m |-> s[i]]
  BY <1>1
<1> QED
  BY <1>1, <1>2

\* A prefix stays when the log grows.
LEMMA PrefixOfAppend ==
  ASSUME NEW s \in Seq(Events), NEW e \in Events, NEW m \in 0 .. Len(s)
  PROVE  SubSeq(Append(s, e), 1, m) = SubSeq(s, 1, m)
<1> DEFINE t == Append(s, e)
           a == SubSeq(t, 1, m)
           b == SubSeq(s, 1, m)
<1>1. /\ t \in Seq(Events) /\ Len(t) = Len(s) + 1 /\ Len(s) \in Nat
      /\ \A i \in 1 .. Len(s) : t[i] = s[i]
  BY Appended
<1>2. m \in 0 .. Len(t)
  BY <1>1
<1>3. /\ a \in Seq(Events) /\ Len(a) = m /\ \A i \in 1 .. m : a[i] = t[i]
      /\ b \in Seq(Events) /\ Len(b) = m /\ \A i \in 1 .. m : b[i] = s[i]
  BY <1>1, <1>2, PrefixIs
<1> HIDE DEF t, a, b
<1>4. \A i \in 1 .. Len(a) : a[i] = b[i]
  BY <1>1, <1>3
<1>5. a = b
  BY <1>3, <1>4, SeqEqual
<1> QED
  BY <1>5 DEF a, b, t

\* A prefix one longer has one more event.
LEMMA PrefixExtends ==
  ASSUME NEW s \in Seq(Events), NEW m \in 0 .. Len(s) - 1
  PROVE  SubSeq(s, 1, m + 1) = Append(SubSeq(s, 1, m), s[m + 1])
<1> DEFINE a == SubSeq(s, 1, m + 1)
           b == SubSeq(s, 1, m)
           c == Append(b, s[m + 1])
<1>1. Len(s) \in Nat /\ m + 1 \in 1 .. Len(s) /\ m \in 0 .. Len(s) /\ m + 1 \in 0 .. Len(s)
  OBVIOUS
<1>2. s[m + 1] \in Events
  BY <1>1
<1>3. /\ a \in Seq(Events) /\ Len(a) = m + 1 /\ \A i \in 1 .. m + 1 : a[i] = s[i]
      /\ b \in Seq(Events) /\ Len(b) = m /\ \A i \in 1 .. m : b[i] = s[i]
  BY <1>1, PrefixIs
<1> HIDE DEF a, b
<1>4. /\ c \in Seq(Events) /\ Len(c) = m + 1 /\ c[m + 1] = s[m + 1]
      /\ \A i \in 1 .. m : c[i] = b[i]
  BY <1>2, <1>3, Appended
<1> HIDE DEF c
<1>5. \A i \in 1 .. Len(a) : a[i] = c[i]
  <2> SUFFICES ASSUME NEW i \in 1 .. m + 1 PROVE a[i] = c[i]
    BY <1>3
  <2>1. CASE i = m + 1
    BY <1>3, <1>4, <2>1
  <2>2. CASE i # m + 1
    <3>1. i \in 1 .. m
      BY <2>2
    <3> QED
      BY <1>3, <1>4, <3>1
  <2> QED
    BY <2>1, <2>2
<1>6. a = c
  BY <1>3, <1>4, <1>5, SeqEqual
<1> QED
  BY <1>6 DEF a, b, c

-----------------------------------------------------------------------------
(* The submitter's steps that accept an event, and its waits.              *)

\* The store publishes the copied slot, and the event is the last of all the accepted.
LEMMA PushStoreInv ==
  ASSUME IndInv, NEW s, Submitters = {s}, PushStore(s)
  PROVE  IndInv'
<1> DEFINE e == ev[s]
<1>0. /\ WorkerKept /\ UNCHANGED <<ev, countVars, head, buffer, popped, metrics, overtaken>>
      /\ pc[s] = "store" /\ pc' = [pc EXCEPT ![s] = "count"]
      /\ tail' = NextSlot(loaded[s]) /\ loaded' = [loaded EXCEPT ![s] = 0]
      /\ log' = Append(log, e) /\ queued' = Append(queued, e)
  BY DEF PushStore, Goto, WorkerKept, workerVars, controlVars
<1>1. /\ pc \in [Submitters -> SubmitPoints] /\ loaded \in [Submitters -> Nat] /\ e \in Events
      /\ tail \in QueueSlot /\ head \in QueueSlot /\ loaded[s] = tail
      /\ Depth < QueueSlots - 1 /\ buffer[tail] = e
      /\ log \in Seq(Events) /\ queued \in Seq(Events)
      /\ popped \in 0 .. Len(queued) /\ owed \in 0 .. Len(queued)
  BY <1>0 DEF IndInv, Typed, PusherKnows
<1>2. /\ pc'[s] = "count" /\ pc' \in [Submitters -> SubmitPoints]
      /\ loaded' \in [Submitters -> Nat]
  BY <1>0, <1>1 DEF SubmitPoints
<1>3. tail' \in QueueSlot /\ Depth' = Depth + 1 /\ Depth \in 0 .. QueueSlots - 1
  BY <1>0, <1>1, DepthAfterPush, DepthBounds DEF Depth
<1>4. /\ queued' \in Seq(Events) /\ Len(queued) \in Nat /\ Len(queued') = Len(queued) + 1
      /\ queued'[Len(queued) + 1] = e /\ \A i \in 1 .. Len(queued) : queued'[i] = queued[i]
  BY <1>0, <1>1, Appended
<1>5. /\ log' \in Seq(Events) /\ Len(log) \in Nat /\ Len(log') = Len(log) + 1
      /\ log'[Len(log) + 1] = e /\ \A i \in 1 .. Len(log) : log'[i] = log[i]
  BY <1>0, <1>1, Appended
<1> HIDE DEF e
<1>6. Typed'
  <2>1. popped' \in 0 .. Len(queued') /\ owed' \in 0 .. Len(queued')
    BY <1>0, <1>1, <1>4 DEF WorkerKept
  <2> QED
    BY <1>0, <1>2, <1>3, <1>4, <1>5, <2>1 DEF IndInv, Typed, WorkerKept, countVars
<1>7. Fifo'
  <2>1. Len(queued) - popped = Depth
    BY DEF IndInv, Fifo
  <2>2. ASSUME NEW i \in 0 .. Depth PROVE buffer[SlotAfter(head, i)] = queued'[popped + i + 1]
    <3>1. CASE i = Depth
      <4>1. SlotAfter(head, i) = tail
        BY <1>1, <3>1, OccupiedSlots DEF Depth
      <4>2. popped + i + 1 = Len(queued) + 1
        BY <1>1, <1>3, <1>4, <2>1, <3>1
      <4> QED
        BY <1>1, <1>4, <4>1, <4>2
    <3>2. CASE i # Depth
      <4>1. i \in 0 .. Depth - 1
        BY <1>3, <3>2
      <4>2. popped + i + 1 \in 1 .. Len(queued)
        BY <1>1, <1>3, <1>4, <2>1, <4>1
      <4> QED
        BY <1>4, <4>1, <4>2 DEF IndInv, Fifo
    <3> QED
      BY <3>1, <3>2
  <2>3. worker = "apply" => popped >= 1 /\ event = queued'[popped]
    BY <1>1, <1>4 DEF IndInv, Fifo
  <2>4. Len(queued') - popped = Depth'
    <3>1. Depth' = (Len(queued) - popped) + 1
      BY <1>3, <2>1
    <3>2. \A n, p \in Nat : (n - p) + 1 = (n + 1) - p
      OBVIOUS
    <3>3. Len(queued) \in Nat /\ popped \in Nat
      BY <1>1, <1>4
    <3> QED
      BY <1>4, <3>1, <3>2, <3>3
  <2>5. /\ Depth' - 1 = Depth /\ head' = head /\ buffer' = buffer /\ popped' = popped
        /\ worker' = worker /\ event' = event
    BY <1>0, <1>3 DEF WorkerKept
  <2>6. \A i \in 0 .. Depth' - 1 : buffer'[SlotAfter(head', i)] = queued'[popped' + i + 1]
    <3> HIDE DEF Depth, SlotAfter
    <3> QED
      BY <2>2, <2>5
  <2> HIDE DEF Depth, SlotAfter
  <2> QED
    BY <2>3, <2>4, <2>5, <2>6 DEF Fifo
<1>8. PusherKnows' /\ Counted' /\ WaiterKnows'
  <2>1. submitted_events' + 1 = Len(queued')
    BY <1>0, <1>4 DEF IndInv, Typed, Counted, countVars
  <2> QED
    BY <1>0, <1>2, <1>4, <2>1
       DEF IndInv, PusherKnows, Counted, WaiterKnows, countVars, WorkerKept
<1>9. WorkerLives'
  BY <1>0 DEF IndInv, WorkerLives, WorkerKept
<1>10. TablesFollow'
  <2>1. SUFFICES ASSUME ~overtaken
                 PROVE  /\ InFlight' <= Len(log')
                        /\ metrics' = Expected(SubSeq(log', 1, Len(log') - InFlight'))
                        /\ \A j \in 0 .. InFlight' - 1 : log'[Len(log') - j] = queued'[Len(queued') - j]
    BY <1>0 DEF TablesFollow
  <2>2. /\ InFlight <= Len(log) /\ metrics = Expected(SubSeq(log, 1, Len(log) - InFlight))
        /\ \A j \in 0 .. InFlight - 1 : log[Len(log) - j] = queued[Len(queued) - j]
    BY <2>1 DEF IndInv, TablesFollow
  <2>3. InFlight \in 0 .. Len(queued) /\ InFlight' = InFlight + 1
    BY <1>0, <1>1, <1>4 DEF InFlight, WorkerKept, IndInv, Fifo
  <2> HIDE DEF InFlight
  <2>4. Len(log') - InFlight' = Len(log) - InFlight /\ Len(log) - InFlight \in 0 .. Len(log)
    BY <1>5, <2>2, <2>3
  <2>5. SubSeq(log', 1, Len(log) - InFlight) = SubSeq(log, 1, Len(log) - InFlight)
    BY <1>0, <1>1, <2>4, PrefixOfAppend DEF e
  <2>6. ASSUME NEW j \in 0 .. InFlight PROVE log'[Len(log') - j] = queued'[Len(queued') - j]
    <3>1. CASE j = 0
      BY <1>4, <1>5, <3>1
    <3>2. CASE j # 0
      <4>1. /\ j - 1 \in 0 .. InFlight - 1
            /\ Len(log') - j = Len(log) - (j - 1) /\ Len(queued') - j = Len(queued) - (j - 1)
        BY <1>4, <1>5, <2>3, <3>2
      <4>2. Len(log) - (j - 1) \in 1 .. Len(log) /\ Len(queued) - (j - 1) \in 1 .. Len(queued)
        BY <1>4, <1>5, <2>2, <2>3, <4>1
      <4> QED
        BY <1>4, <1>5, <2>2, <4>1, <4>2
    <3> QED
      BY <3>1, <3>2
  <2>7. InFlight' - 1 = InFlight /\ InFlight' <= Len(log')
    BY <1>5, <2>2, <2>3
  <2> QED
    BY <1>0, <2>2, <2>4, <2>5, <2>6, <2>7
<1> QED
  BY <1>6, <1>7, <1>8, <1>9, <1>10 DEF IndInv

\* CountSubmitted preserves the invariant.
LEMMA CountSubmittedInv ==
  ASSUME IndInv, NEW s, Submitters = {s}, CountSubmitted(s)
  PROVE  IndInv'
<1>0. /\ QueueKept /\ WorkerKept /\ TablesKept
      /\ UNCHANGED <<ev, loaded, queue_overflow_total, processed_events>>
      /\ pc[s] = "count" /\ pc' = [pc EXCEPT ![s] = "idle"]
      /\ submitted_events' = submitted_events + 1
  BY DEF CountSubmitted, Goto, QueueKept, WorkerKept, TablesKept, queueVars, workerVars,
         controlVars, historyVars
<1>1. /\ pc \in [Submitters -> SubmitPoints] /\ submitted_events \in Nat
      /\ submitted_events + 1 = Len(queued)
  BY <1>0 DEF IndInv, Typed, Counted
<1>2. pc'[s] = "idle" /\ pc' \in [Submitters -> SubmitPoints] /\ submitted_events' \in Nat
  BY <1>0, <1>1 DEF SubmitPoints
<1>3. Typed'
  BY <1>0, <1>2, TypedKept DEF IndInv, Typed
<1>4. PusherKnows' /\ Counted' /\ WaiterKnows'
  <2>1. submitted_events' + 0 = Len(queued')
    BY <1>0, <1>1 DEF QueueKept
  <2> QED
    BY <1>0, <1>2, <2>1 DEF IndInv, PusherKnows, Counted, WaiterKnows, QueueKept, WorkerKept
<1> QED
  BY <1>0, <1>3, <1>4, OthersKept DEF IndInv

\* A direct write that passes no event finds the tables up to date.
LEMMA SubmitDirectInv ==
  ASSUME IndInv, NEW s, Submitters = {s}, SubmitDirect(s)
  PROVE  IndInv'
<1> DEFINE e == ev[s]
<1>0. /\ QueueKept /\ WorkerKept /\ UNCHANGED <<ev, loaded, countVars>>
      /\ pc[s] = "direct" /\ pc' = [pc EXCEPT ![s] = "idle"]
      /\ metrics' = ProcessEvent(metrics, e) /\ log' = Append(log, e)
      /\ overtaken' = (overtaken \/ Pending # << >> \/ worker = "apply")
  BY DEF SubmitDirect, Goto, QueueKept, WorkerKept, queueVars, workerVars, controlVars
<1>1. /\ pc \in [Submitters -> SubmitPoints] /\ e \in Events /\ metrics \in Tables
      /\ log \in Seq(Events) /\ overtaken \in BOOLEAN
      /\ head \in QueueSlot /\ tail \in QueueSlot
  BY <1>0 DEF IndInv, Typed
<1>2. pc'[s] = "idle" /\ pc' \in [Submitters -> SubmitPoints] /\ overtaken' \in BOOLEAN
  BY <1>0, <1>1 DEF SubmitPoints
<1>3. metrics' \in Tables
  BY <1>0, <1>1, ProcessEventTyped
<1>4. log' \in Seq(Events) /\ Len(log) \in Nat /\ Len(log') = Len(log) + 1
  BY <1>0, <1>1, Appended
<1> HIDE DEF e
<1>5. Typed'
  BY <1>0, <1>2, <1>3, <1>4 DEF IndInv, Typed, QueueKept, WorkerKept, countVars
<1>6. Fifo' /\ WorkerLives'
  BY <1>0 DEF IndInv, Fifo, Depth, WorkerLives, QueueKept, WorkerKept
<1>7. PusherKnows' /\ Counted' /\ WaiterKnows'
  BY <1>0, <1>2 DEF IndInv, PusherKnows, Counted, WaiterKnows, QueueKept, WorkerKept, countVars
<1>8. TablesFollow'
  <2>1. SUFFICES ASSUME ~overtaken'
                 PROVE  /\ InFlight' <= Len(log')
                        /\ metrics' = Expected(SubSeq(log', 1, Len(log') - InFlight'))
                        /\ \A j \in 0 .. InFlight' - 1 : log'[Len(log') - j] = queued'[Len(queued') - j]
    BY DEF TablesFollow
  <2>2. ~overtaken /\ Pending = << >> /\ worker # "apply"
    BY <1>0, <1>1, <2>1
  <2>3. Depth = 0
    BY <2>2, EmptyPending DEF IndInv
  <2>4. InFlight = 0 /\ InFlight' = 0
    BY <1>0, <2>2, <2>3 DEF IndInv, Fifo, InFlight, QueueKept, WorkerKept
  <2>5. metrics = Expected(log)
    <3>1. metrics = Expected(SubSeq(log, 1, Len(log) - InFlight))
      BY <2>2 DEF IndInv, TablesFollow
    <3>2. SubSeq(log, 1, Len(log)) = log /\ Len(log) - InFlight = Len(log)
      BY <1>1, <1>4, <2>4, SubSeqFull
    <3> QED
      BY <3>1, <3>2
  <2>6. metrics' = Expected(log')
    BY <1>0, <1>1, <2>5, ExpectedAppend DEF e
  <2>7. SubSeq(log', 1, Len(log')) = log' /\ Len(log') - InFlight' = Len(log')
    BY <1>4, <2>4, SubSeqFull
  <2>8. InFlight' <= Len(log')
    BY <1>4, <2>4
  <2>9. 0 .. InFlight' - 1 = {}
    BY <2>4
  <2>10. metrics' = Expected(SubSeq(log', 1, Len(log') - InFlight'))
    BY <2>6, <2>7
  <2> QED
    BY <2>8, <2>9, <2>10
<1> QED
  BY <1>5, <1>6, <1>7, <1>8 DEF IndInv

\* WaitUntilDrained preserves the invariant.
LEMMA WaitUntilDrainedInv ==
  ASSUME IndInv, NEW s, Submitters = {s}, WaitUntilDrained(s)
  PROVE  IndInv'
<1>0. /\ QueueKept /\ WorkerKept /\ TablesKept /\ UNCHANGED <<ev, loaded, countVars>>
      /\ pc[s] = "idle" /\ pc' = [pc EXCEPT ![s] = "waitLoad"]
  BY DEF WaitUntilDrained, Goto, QueueKept, WorkerKept, TablesKept, queueVars, workerVars,
         controlVars, historyVars
<1>1. pc \in [Submitters -> SubmitPoints]
  BY DEF IndInv, Typed
<1>2. pc'[s] = "waitLoad" /\ pc' \in [Submitters -> SubmitPoints]
  BY <1>0, <1>1 DEF SubmitPoints
<1>3. Typed'
  BY <1>0, <1>2, TypedKept DEF IndInv, Typed, countVars
<1>4. PusherKnows' /\ Counted' /\ WaiterKnows'
  BY <1>0, <1>2 DEF IndInv, PusherKnows, Counted, WaiterKnows, QueueKept, WorkerKept, countVars
<1> QED
  BY <1>0, <1>3, <1>4, OthersKept DEF IndInv

\* WaitLoad preserves the invariant.
LEMMA WaitLoadInv ==
  ASSUME IndInv, NEW s, Submitters = {s}, WaitLoad(s)
  PROVE  IndInv'
<1>0. /\ QueueKept /\ WorkerKept /\ TablesKept /\ UNCHANGED <<ev, countVars>>
      /\ pc[s] = "waitLoad" /\ pc' = [pc EXCEPT ![s] = "waitCompare"]
      /\ loaded' = [loaded EXCEPT ![s] = processed_events]
  BY DEF WaitLoad, Goto, QueueKept, WorkerKept, TablesKept, queueVars, workerVars,
         controlVars, historyVars
<1>1. /\ pc \in [Submitters -> SubmitPoints] /\ loaded \in [Submitters -> Nat]
      /\ processed_events \in Nat
  BY DEF IndInv, Typed
<1>2. /\ pc'[s] = "waitCompare" /\ pc' \in [Submitters -> SubmitPoints]
      /\ loaded'[s] = processed_events /\ loaded' \in [Submitters -> Nat]
  BY <1>0, <1>1 DEF SubmitPoints
<1>3. Typed'
  BY <1>0, <1>2, TypedKept DEF IndInv, Typed, countVars
<1>4. PusherKnows' /\ Counted' /\ WaiterKnows'
  BY <1>0, <1>1, <1>2
     DEF IndInv, PusherKnows, Counted, WaiterKnows, QueueKept, WorkerKept, countVars
<1> QED
  BY <1>0, <1>3, <1>4, OthersKept DEF IndInv

\* The caller waits with all its submissions counted, and what has been processed is
\* never more than what was queued: the comparison can only succeed with the two equal.
LEMMA WaitCompareInv ==
  ASSUME IndInv, NEW s, Submitters = {s}, WaitCompare(s)
  PROVE  IndInv'
<1>0. /\ QueueKept /\ WorkerKept /\ TablesKept /\ UNCHANGED <<ev, countVars>>
      /\ pc[s] = "waitCompare" /\ loaded' = [loaded EXCEPT ![s] = 0]
      /\ \/ loaded[s] >= submitted_events /\ pc' = [pc EXCEPT ![s] = "waitEmpty"]
         \/ pc' = [pc EXCEPT ![s] = "waitLoad"]
         \/ pc' = [pc EXCEPT ![s] = "idle"]
  BY DEF WaitCompare, Goto, QueueKept, WorkerKept, TablesKept, queueVars, workerVars,
         controlVars, historyVars
<1>1. /\ pc \in [Submitters -> SubmitPoints] /\ loaded \in [Submitters -> Nat]
      /\ loaded[s] \in Nat /\ processed_events \in Nat /\ submitted_events \in Nat
      /\ popped \in 0 .. Len(queued) /\ Len(queued) \in Nat
  BY DEF IndInv, Typed
<1>2. /\ pc' \in [Submitters -> SubmitPoints] /\ loaded' \in [Submitters -> Nat]
      /\ pc'[s] \in {"waitEmpty", "waitLoad", "idle"}
      /\ pc'[s] = "waitEmpty" => loaded[s] >= submitted_events
  BY <1>0, <1>1 DEF SubmitPoints
<1>3. Typed'
  BY <1>0, <1>2, TypedKept DEF IndInv, Typed, countVars
<1>4. PusherKnows' /\ Counted'
  BY <1>0, <1>2 DEF IndInv, PusherKnows, Counted, QueueKept, WorkerKept, countVars
<1>5. WaiterKnows'
  <2>1. submitted_events + 0 = Len(queued)
    BY <1>0 DEF IndInv, Counted
  <2>2. processed_events <= popped
    BY <1>1 DEF IndInv, Counted
  <2>3. loaded[s] <= processed_events
    BY <1>0 DEF IndInv, WaiterKnows
  <2>4. pc'[s] = "waitEmpty" => processed_events = Len(queued)
    BY <1>1, <1>2, <2>1, <2>2, <2>3
  <2> QED
    BY <1>0, <1>2, <2>4 DEF WaiterKnows, QueueKept, countVars
<1> QED
  BY <1>0, <1>3, <1>4, <1>5, OthersKept DEF IndInv

\* WaitEmpty preserves the invariant.
LEMMA WaitEmptyInv ==
  ASSUME IndInv, NEW s, Submitters = {s}, WaitEmpty(s)
  PROVE  IndInv'
<1>0. /\ QueueKept /\ WorkerKept /\ TablesKept /\ UNCHANGED <<ev, loaded, countVars>>
      /\ pc[s] = "waitEmpty"
      /\ \/ pc' = [pc EXCEPT ![s] = "waitLoad"]
         \/ pc' = [pc EXCEPT ![s] = "idle"]
  BY DEF WaitEmpty, Goto, QueueKept, WorkerKept, TablesKept, queueVars, workerVars,
         controlVars, historyVars
<1>1. pc \in [Submitters -> SubmitPoints]
  BY DEF IndInv, Typed
<1>2. pc'[s] \in {"waitLoad", "idle"} /\ pc' \in [Submitters -> SubmitPoints]
  BY <1>0, <1>1 DEF SubmitPoints
<1>3. Typed'
  BY <1>0, <1>2, TypedKept DEF IndInv, Typed, countVars
<1>4. PusherKnows' /\ Counted' /\ WaiterKnows'
  BY <1>0, <1>2 DEF IndInv, PusherKnows, Counted, WaiterKnows, QueueKept, WorkerKept, countVars
<1> QED
  BY <1>0, <1>3, <1>4, OthersKept DEF IndInv

\* Call preserves the invariant.
LEMMA CallInv ==
  ASSUME IndInv, NEW s, Submitters = {s}, Call(s) \/ InCall(s)
  PROVE  IndInv'
<1>1. CASE \E kind \in Kinds : Submit(s, kind)
  BY <1>1, SubmitInv
<1>2. CASE WaitUntilDrained(s)
  BY <1>2, WaitUntilDrainedInv
<1>3. CASE InCall(s)
  BY <1>3, SubmitDirectInv, PushLoadInv, PushCheckInv, PushCopyInv, PushStoreInv,
     CountSubmittedInv, WaitLoadInv, WaitCompareInv, WaitEmptyInv DEF InCall
<1>4. CASE Call(s)
  <2>1. Call(s) => (\E kind \in Kinds : Submit(s, kind)) \/ WaitUntilDrained(s)
    BY DEF Call, SubmitChannelMetrics, SubmitChannelRemoval, RegisterMetricDescriptor,
           DeprecateMetricDescriptor, RecordDeliveryStatus, Kinds
  <2> QED
    BY <1>1, <1>2, <1>4, <2>1
<1> QED
  BY <1>3, <1>4

-----------------------------------------------------------------------------
(* The worker.  Its steps leave the submitter and the control alone.       *)

SubmitterKept == UNCHANGED <<pc, ev, loaded, tail, buffer, log, queued, overtaken,
                             queue_overflow_total, submitted_events>>
ControlKept == UNCHANGED <<running, stop_requested, control, starts, owed>>

\* A step of the worker that neither pops, applies nor counts.
LEMMA WorkerMoves ==
  ASSUME IndInv, SubmitterKept, ControlKept, UNCHANGED <<head, popped, event, metrics>>,
         UNCHANGED processed_events,
         worker \notin {"apply", "count"}, worker' \in WorkerPoints \ {"apply", "count"}
  PROVE  /\ Typed' /\ Fifo' /\ PusherKnows' /\ Counted' /\ WaiterKnows' /\ TablesFollow'
<1>1. Typed'
  BY DEF IndInv, Typed, SubmitterKept, ControlKept
<1>2. Fifo'
  BY DEF IndInv, Fifo, Depth, SubmitterKept
<1>3. PusherKnows' /\ Counted' /\ WaiterKnows'
  BY DEF IndInv, PusherKnows, Counted, WaiterKnows, Depth, SubmitterKept
<1>4. TablesFollow'
  <2>1. InFlight' = InFlight
    BY DEF InFlight, SubmitterKept
  <2> QED
    BY <2>1 DEF IndInv, TablesFollow, SubmitterKept
<1> QED
  BY <1>1, <1>2, <1>3, <1>4

\* TestStop preserves the invariant.
LEMMA TestStopInv ==
  ASSUME IndInv, TestStop
  PROVE  IndInv'
<1>1. /\ SubmitterKept /\ ControlKept /\ UNCHANGED <<head, popped, event, metrics>>
      /\ UNCHANGED processed_events
      /\ worker = "test" /\ worker' = IF stop_requested THEN "testEmpty" ELSE "pop"
  BY DEF TestStop, WorkerGoto, SubmitterKept, ControlKept, queueVars, countVars, controlVars,
         submitVars, historyVars
<1>2. worker' \in WorkerPoints \ {"apply", "count"}
  BY <1>1 DEF WorkerPoints
<1>3. WorkerLives'
  BY <1>1 DEF IndInv, WorkerLives, ControlKept
<1> QED
  BY <1>1, <1>2, <1>3, WorkerMoves DEF IndInv

\* The worker leaves with the queue empty: all that is owed has been popped.
LEMMA TestEmptyInv ==
  ASSUME IndInv, TestEmpty
  PROVE  IndInv'
<1>1. /\ SubmitterKept /\ ControlKept /\ UNCHANGED <<head, popped, event, metrics>>
      /\ UNCHANGED processed_events
      /\ worker = "testEmpty" /\ worker' = IF head = tail THEN "exited" ELSE "pop"
  BY DEF TestEmpty, WorkerGoto, SubmitterKept, ControlKept, queueVars, countVars, controlVars,
         submitVars, historyVars
<1>2. worker' \in WorkerPoints \ {"apply", "count"}
  BY <1>1 DEF WorkerPoints
<1>3. head = tail => popped >= owed
  <2>1. /\ head \in QueueSlot /\ tail \in QueueSlot /\ Len(queued) \in Nat
        /\ popped \in 0 .. Len(queued) /\ owed \in 0 .. Len(queued)
    BY DEF IndInv, Typed
  <2>2. head = tail => Depth = 0
    BY <2>1, DepthBounds DEF Depth
  <2> QED
    BY <2>1, <2>2 DEF IndInv, Fifo
<1>4. WorkerLives'
  BY <1>1, <1>3 DEF IndInv, WorkerLives, ControlKept
<1> QED
  BY <1>1, <1>2, <1>4, WorkerMoves DEF IndInv

\* The oldest event goes from the queue into the worker's hand.
LEMMA PopEventInv ==
  ASSUME IndInv, PopEvent
  PROVE  IndInv'
<1>1. CASE head = tail
  <2>1. /\ SubmitterKept /\ ControlKept /\ UNCHANGED <<head, popped, event, metrics>>
        /\ UNCHANGED processed_events
        /\ worker = "pop" /\ worker' = "test"
    BY <1>1 DEF PopEvent, WorkerGoto, SubmitterKept, ControlKept, queueVars, countVars,
                controlVars, submitVars
  <2>2. worker' \in WorkerPoints \ {"apply", "count"}
    BY <2>1 DEF WorkerPoints
  <2>3. WorkerLives'
    BY <2>1 DEF IndInv, WorkerLives, ControlKept
  <2> QED
    BY <2>1, <2>2, <2>3, WorkerMoves DEF IndInv
<1>2. CASE head # tail
  <2>1. /\ SubmitterKept /\ ControlKept /\ UNCHANGED metrics
        /\ UNCHANGED processed_events
        /\ worker = "pop" /\ worker' = "apply"
        /\ event' = buffer[head] /\ head' = NextSlot(head) /\ popped' = popped + 1
    BY <1>2 DEF PopEvent, WorkerGoto, SubmitterKept, ControlKept, countVars,
                controlVars, submitVars
  <2>2. /\ head \in QueueSlot /\ tail \in QueueSlot /\ Len(queued) \in Nat
        /\ popped \in 0 .. Len(queued) /\ buffer \in [QueueSlot -> Cells]
        /\ Len(queued) - popped = Depth
        /\ \A i \in 0 .. Depth - 1 : buffer[SlotAfter(head, i)] = queued[popped + i + 1]
    BY DEF IndInv, Typed, Fifo
  <2>3. /\ head' \in QueueSlot /\ Depth' = Depth - 1 /\ Depth \in 1 .. QueueSlots - 1
    <3>1. tail' = tail /\ DepthOf(tail, NextSlot(head)) = DepthOf(tail, head) - 1
      BY <1>2, <2>1, <2>2, DepthAfterPop DEF SubmitterKept
    <3>2. DepthOf(tail, head) \in 0 .. QueueSlots - 1 /\ DepthOf(tail, head) # 0
      BY <1>2, <2>2, DepthBounds
    <3>3. NextSlot(head) \in QueueSlot
      BY <1>2, <2>2, DepthAfterPop
    <3> QED
      BY <2>1, <3>1, <3>2, <3>3 DEF Depth
  <2>4. /\ SlotAfter(head, 0) = head
        /\ \A i \in 0 .. QueueSlots - 2 : SlotAfter(head', i) = SlotAfter(head, i + 1)
    BY <2>1, <2>2, OccupiedSlots
  <2> HIDE DEF Depth, SlotAfter
  <2>5. Typed'
    <3>1. popped' \in 0 .. Len(queued)
      BY <2>1, <2>2, <2>3
    <3>2. event' \in Cells /\ worker' \in WorkerPoints
      BY <2>1, <2>2 DEF WorkerPoints
    <3> QED
      BY <2>1, <2>3, <3>1, <3>2 DEF IndInv, Typed, SubmitterKept, ControlKept
  <2>6. Fifo'
    <3>1. Len(queued) - popped' = Depth'
      BY <2>1, <2>2, <2>3
    <3>2. ASSUME NEW i \in 0 .. Depth' - 1
          PROVE  buffer[SlotAfter(head', i)] = queued[popped' + i + 1]
      <4>1. i + 1 \in 0 .. Depth - 1 /\ i \in 0 .. QueueSlots - 2
        BY <2>3
      <4>2. popped' + i + 1 = popped + (i + 1) + 1
        BY <2>1, <2>2, <4>1
      <4>3. buffer[SlotAfter(head, i + 1)] = queued[popped + (i + 1) + 1]
        BY <2>2, <4>1
      <4>4. SlotAfter(head', i) = SlotAfter(head, i + 1)
        BY <2>4, <4>1
      <4> QED
        BY <4>2, <4>3, <4>4
    <3>3. event' = queued[popped'] /\ popped' >= 1
      <4>1. 0 \in 0 .. Depth - 1
        BY <2>3
      <4>2. buffer[SlotAfter(head, 0)] = queued[popped + 0 + 1]
        BY <2>2, <4>1
      <4>3. popped + 0 + 1 = popped' /\ popped' >= 1
        BY <2>1, <2>2
      <4> QED
        BY <2>1, <2>4, <4>2, <4>3
    <3>4. buffer' = buffer /\ queued' = queued
      BY <2>1 DEF SubmitterKept
    <3> QED
      BY <3>1, <3>2, <3>3, <3>4 DEF Fifo
  <2>7. PusherKnows'
    <3>1. Depth < QueueSlots - 1 => Depth' < QueueSlots - 1
      BY <2>3
    <3> QED
      BY <2>1, <3>1 DEF IndInv, PusherKnows, SubmitterKept
  <2>8. Counted' /\ WaiterKnows'
    <3>1. processed_events + 0 = popped /\ processed_events \in Nat
      BY <2>1 DEF IndInv, Typed, Counted
    <3>2. processed_events' + 1 = popped'
      BY <2>1, <2>2, <3>1
    <3> QED
      BY <2>1, <3>2 DEF IndInv, Counted, WaiterKnows, SubmitterKept
  <2>9. WorkerLives'
    BY <2>1 DEF IndInv, WorkerLives, ControlKept
  <2>10. TablesFollow'
    <3>1. InFlight' = InFlight
      <4>1. InFlight = Len(queued) - popped + 0
        BY <2>1 DEF InFlight
      <4>2. InFlight' = Len(queued) - popped' + 1
        BY <2>1 DEF InFlight, SubmitterKept
      <4> QED
        BY <2>1, <2>2, <4>1, <4>2
    <3> HIDE DEF InFlight
    <3> QED
      BY <2>1, <3>1 DEF IndInv, TablesFollow, SubmitterKept
  <2> QED
    BY <2>5, <2>6, <2>7, <2>8, <2>9, <2>10 DEF IndInv
<1> QED
  BY <1>1, <1>2

\* The event in the worker's hand is the first of those in flight.
LEMMA ApplyEventInv ==
  ASSUME IndInv, ApplyEvent
  PROVE  IndInv'
<1>1. /\ SubmitterKept /\ ControlKept /\ UNCHANGED <<head, popped, processed_events>>
      /\ worker = "apply" /\ worker' = "count"
      /\ metrics' = ProcessEvent(metrics, event) /\ event' = NoEvent
  BY DEF ApplyEvent, WorkerGoto, SubmitterKept, ControlKept, queueVars, countVars, controlVars,
         submitVars, historyVars
<1>2. /\ Len(queued) \in Nat /\ popped \in 1 .. Len(queued) /\ event = queued[popped]
      /\ log \in Seq(Events) /\ Len(log) \in Nat /\ metrics \in Tables
  BY <1>1 DEF IndInv, Typed, Fifo
<1>3. event \in Events
  BY <1>2 DEF IndInv, Typed
<1>4. Typed'
  <2>1. metrics' \in Tables
    BY <1>1, <1>2, <1>3, ProcessEventTyped
  <2>2. event' \in Cells /\ worker' \in WorkerPoints
    BY <1>1 DEF Cells, WorkerPoints
  <2> QED
    BY <1>1, <2>1, <2>2 DEF IndInv, Typed, SubmitterKept, ControlKept
<1>5. Fifo' /\ PusherKnows' /\ Counted' /\ WaiterKnows'
  BY <1>1 DEF IndInv, Fifo, PusherKnows, Counted, WaiterKnows, Depth, SubmitterKept
<1>6. WorkerLives'
  BY <1>1 DEF IndInv, WorkerLives, ControlKept
<1>7. TablesFollow'
  <2> DEFINE m == Len(log) - InFlight
  <2>1. SUFFICES ASSUME ~overtaken
                 PROVE  /\ InFlight' <= Len(log)
                        /\ metrics' = Expected(SubSeq(log, 1, Len(log) - InFlight'))
                        /\ \A j \in 0 .. InFlight' - 1 : log[Len(log) - j] = queued[Len(queued) - j]
    BY <1>1 DEF TablesFollow, SubmitterKept
  <2>2. /\ InFlight <= Len(log) /\ metrics = Expected(SubSeq(log, 1, m))
        /\ \A j \in 0 .. InFlight - 1 : log[Len(log) - j] = queued[Len(queued) - j]
    BY <2>1 DEF IndInv, TablesFollow
  <2>3. InFlight = Len(queued) - popped + 1 /\ InFlight' = Len(queued) - popped + 0
    BY <1>1 DEF InFlight, SubmitterKept
  <2> HIDE DEF InFlight
  <2>4. InFlight \in 1 .. Len(log) /\ InFlight' = InFlight - 1
    BY <1>2, <2>2, <2>3
  <2>5. m \in 0 .. Len(log) - 1 /\ Len(log) - InFlight' = m + 1 /\ m \in 0 .. Len(log)
    BY <1>2, <2>4
  <2>6. log[m + 1] = event
    <3>1. InFlight' \in 0 .. InFlight - 1
      BY <2>4
    <3>2. log[Len(log) - InFlight'] = queued[Len(queued) - InFlight']
      BY <2>2, <3>1
    <3>3. Len(queued) - InFlight' = popped
      BY <1>2, <2>3
    <3> QED
      BY <1>2, <2>5, <3>2, <3>3
  <2> HIDE DEF m
  <2>7. SubSeq(log, 1, m + 1) = Append(SubSeq(log, 1, m), event)
    BY <1>2, <2>5, <2>6, PrefixExtends
  <2>8. SubSeq(log, 1, m) \in Seq(Events)
    BY <1>2, <2>5, PrefixIs
  <2>9. Expected(SubSeq(log, 1, m + 1)) = metrics'
    BY <1>1, <1>2, <1>3, <2>2, <2>7, <2>8, ExpectedAppend
  <2>10. \A j \in 0 .. InFlight' - 1 : j \in 0 .. InFlight - 1
    BY <2>4
  <2>11. InFlight' <= Len(log)
    BY <1>2, <2>4
  <2> QED
    BY <2>2, <2>5, <2>9, <2>10, <2>11
<1> QED
  BY <1>4, <1>5, <1>6, <1>7 DEF IndInv

\* CountProcessed preserves the invariant.
LEMMA CountProcessedInv ==
  ASSUME IndInv, CountProcessed
  PROVE  IndInv'
<1>1. /\ SubmitterKept /\ ControlKept /\ UNCHANGED <<head, popped, event, metrics>>
      /\ worker = "count" /\ worker' = "test" /\ processed_events' = processed_events + 1
  BY DEF CountProcessed, WorkerGoto, SubmitterKept, ControlKept, queueVars, controlVars,
         submitVars, historyVars
<1>2. /\ processed_events \in Nat /\ processed_events + 1 = popped
      /\ popped \in 0 .. Len(queued) /\ Len(queued) \in Nat
  BY <1>1 DEF IndInv, Typed, Counted
<1>3. Typed'
  <2>1. processed_events' \in Nat /\ worker' \in WorkerPoints
    BY <1>1, <1>2 DEF WorkerPoints
  <2> QED
    BY <1>1, <2>1 DEF IndInv, Typed, SubmitterKept, ControlKept
<1>4. Fifo' /\ PusherKnows'
  BY <1>1 DEF IndInv, Fifo, PusherKnows, Depth, SubmitterKept
<1>5. Counted'
  <2>1. processed_events' + 0 = popped'
    BY <1>1, <1>2
  <2> QED
    BY <1>1, <2>1 DEF IndInv, Counted, SubmitterKept
<1>6. WaiterKnows'
  <2>1. \A s \in Submitters : pc[s] # "waitEmpty"
    BY <1>2 DEF IndInv, WaiterKnows
  <2>2. \A s \in Submitters : pc[s] = "waitCompare" => loaded[s] \in Nat
    BY DEF IndInv, Typed
  <2> QED
    BY <1>1, <1>2, <2>1, <2>2 DEF IndInv, WaiterKnows, SubmitterKept
<1>7. WorkerLives'
  BY <1>1 DEF IndInv, WorkerLives, ControlKept
<1>8. TablesFollow'
  <2>1. InFlight' = InFlight
    BY <1>1 DEF InFlight, SubmitterKept
  <2> QED
    BY <1>1, <2>1 DEF IndInv, TablesFollow, SubmitterKept
<1> QED
  BY <1>3, <1>4, <1>5, <1>6, <1>7, <1>8 DEF IndInv

-----------------------------------------------------------------------------
(* Start and Stop.                                                         *)

ControlPoints == {"idle", "starting", "spawning", "stopping", "joining"}

\* What Start and Stop change is not what the queue and the tables depend on.
LEMMA ControlMoves ==
  ASSUME IndInv, UNCHANGED <<queueVars, countVars, metrics, event, submitVars, historyVars>>,
         running' \in BOOLEAN, stop_requested' \in BOOLEAN, control' \in ControlPoints,
         owed' \in 0 .. Len(queued), worker' \in WorkerPoints,
         worker' = worker \/ (worker \in {"none", "exited"} /\ worker' \in {"none", "test"})
  PROVE  /\ Typed' /\ Fifo' /\ PusherKnows' /\ Counted' /\ WaiterKnows' /\ TablesFollow'
<1>1. Typed'
  BY DEF IndInv, Typed, ControlPoints, queueVars, countVars, submitVars, historyVars
<1>2. /\ worker' = "apply" <=> worker = "apply"
      /\ worker' \in {"apply", "count"} <=> worker \in {"apply", "count"}
  OBVIOUS
<1>3. Fifo'
  BY <1>2 DEF IndInv, Fifo, Depth, queueVars, historyVars
<1>4. PusherKnows' /\ WaiterKnows'
  BY DEF IndInv, PusherKnows, WaiterKnows, Depth, queueVars, countVars, submitVars,
         historyVars
<1>5. Counted'
  BY <1>2 DEF IndInv, Counted, countVars, submitVars, historyVars
<1>6. TablesFollow'
  <2>1. InFlight' = InFlight
    BY <1>2 DEF InFlight, historyVars
  <2> QED
    BY <2>1 DEF IndInv, TablesFollow, historyVars
<1> QED
  BY <1>1, <1>3, <1>4, <1>5, <1>6

\* Start, Stop and the steps of the thread that stops preserve the invariant.
LEMMA ControlInv ==
  ASSUME IndInv, Start \/ Stop \/ Controller
  PROVE  IndInv'
<1>1. /\ running \in BOOLEAN /\ stop_requested \in BOOLEAN /\ control \in ControlPoints
      /\ worker \in WorkerPoints /\ owed \in 0 .. Len(queued)
      /\ Len(queued) \in Nat /\ WorkerLives
  BY DEF IndInv, Typed, ControlPoints
<1>2. CASE Start
  <2>1. WorkerLives'
    BY <1>1, <1>2 DEF Start, ControlGoto, WorkerLives, workerVars, historyVars
  <2>2. /\ UNCHANGED <<queueVars, countVars, metrics, event, submitVars, historyVars>>
        /\ UNCHANGED <<stop_requested, owed, worker>>
        /\ running' = TRUE /\ control' = "starting"
    BY <1>2 DEF Start, ControlGoto, workerVars
  <2> QED
    BY <1>1, <2>1, <2>2, ControlMoves DEF IndInv, ControlPoints
<1>3. CASE Stop
  <2>1. /\ UNCHANGED <<queueVars, countVars, metrics, event, submitVars, historyVars>>
        /\ UNCHANGED <<stop_requested, worker>> /\ owed' = Len(queued)
        /\ running /\ running' = FALSE /\ control = "idle" /\ control' = "stopping"
    BY <1>3 DEF Stop, ControlGoto, workerVars
  <2>2. WorkerLives'
    BY <1>1, <2>1 DEF WorkerLives, historyVars
  <2>3. owed' \in 0 .. Len(queued)
    BY <1>1, <2>1
  <2> QED
    BY <1>1, <2>1, <2>2, <2>3, ControlMoves DEF IndInv, ControlPoints
<1>4. CASE StartReset
  <2>1. /\ UNCHANGED <<queueVars, countVars, metrics, event, submitVars, historyVars>>
        /\ UNCHANGED <<running, owed, worker>>
        /\ stop_requested' = FALSE /\ control = "starting" /\ control' = "spawning"
    BY <1>4 DEF StartReset, ControlGoto, workerVars
  <2>2. WorkerLives'
    BY <1>1, <2>1 DEF WorkerLives, historyVars
  <2> QED
    BY <1>1, <2>1, <2>2, ControlMoves DEF IndInv, ControlPoints
<1>5. CASE StartWorker
  <2>1. /\ UNCHANGED <<queueVars, countVars, metrics, event, submitVars, historyVars>>
        /\ UNCHANGED <<stop_requested, owed>> /\ control = "spawning" /\ control' = "idle"
        /\ \/ running' = FALSE /\ worker' = worker
           \/ worker' = "test" /\ running' = running
    BY <1>5 DEF StartWorker, ControlGoto
  <2>2. running /\ worker = "none" /\ ~stop_requested
    BY <1>1, <2>1 DEF WorkerLives
  <2>3. WorkerLives'
    BY <1>1, <2>1, <2>2 DEF WorkerLives, historyVars
  <2>4. worker' \in WorkerPoints /\ running' \in BOOLEAN
    BY <1>1, <2>1 DEF WorkerPoints
  <2> QED
    BY <1>1, <2>1, <2>2, <2>3, <2>4, ControlMoves DEF IndInv, ControlPoints
<1>6. CASE StopRequest
  <2>1. /\ UNCHANGED <<queueVars, countVars, metrics, event, submitVars, historyVars>>
        /\ UNCHANGED <<running, owed, worker>>
        /\ stop_requested' = TRUE /\ control = "stopping" /\ control' = "joining"
    BY <1>6 DEF StopRequest, ControlGoto, workerVars
  <2>2. WorkerLives'
    BY <1>1, <2>1 DEF WorkerLives, historyVars
  <2> QED
    BY <1>1, <2>1, <2>2, ControlMoves DEF IndInv, ControlPoints
<1>7. CASE StopJoin
  <2>1. /\ UNCHANGED <<queueVars, countVars, metrics, event, submitVars, historyVars>>
        /\ UNCHANGED <<running, stop_requested, owed>>
        /\ worker \in {"none", "exited"} /\ worker' = "none"
        /\ control = "joining" /\ control' = "idle"
    BY <1>7 DEF StopJoin, ControlGoto
  <2>2. WorkerLives'
    BY <1>1, <2>1 DEF WorkerLives, historyVars
  <2> QED
    BY <1>1, <2>1, <2>2, ControlMoves DEF IndInv, ControlPoints, WorkerPoints
<1> QED
  BY <1>2, <1>3, <1>4, <1>5, <1>6, <1>7 DEF Controller

-----------------------------------------------------------------------------
(* The invariant holds.                                                    *)

\* The invariant holds initially.
LEMMA InitInv == ASSUME Init PROVE IndInv
<1>1. /\ 0 \in QueueSlot /\ DepthOf(0, 0) = 0
  BY DEF DepthOf
<1>2. /\ << >> \in Seq(Events) /\ Len(<< >>) = 0
  OBVIOUS
<1>3. Typed
  <2>1. NoEvent \in Cells /\ NoMetrics \in Tables
    BY DEF Cells, Tables, NoMetrics
  <2> QED
    BY <1>1, <1>2, <2>1 DEF Init, Typed, WorkerPoints, SubmitPoints
<1>4. Fifo
  BY <1>1, <1>2 DEF Init, Fifo, Depth
<1>5. PusherKnows /\ Counted /\ WaiterKnows /\ WorkerLives
  BY <1>2 DEF Init, PusherKnows, Counted, WaiterKnows, WorkerLives
<1>6. TablesFollow
  <2>1. InFlight = 0 /\ metrics = NoMetrics /\ Len(log) = 0 /\ log = << >>
    BY <1>2 DEF Init, InFlight
  <2>2. SubSeq(log, 1, Len(log) - InFlight) = << >>
    <3>1. SubSeq(log, 1, Len(log)) = log
      BY <1>2, <2>1, SubSeqFull
    <3>2. Len(log) - InFlight = Len(log)
      BY <2>1
    <3> QED
      BY <2>1, <3>1, <3>2
  <2>3. metrics = Expected(SubSeq(log, 1, Len(log) - InFlight))
    BY <2>1, <2>2, ExpectedEmpty
  <2>4. 0 .. InFlight - 1 = {} /\ InFlight <= Len(log)
    BY <2>1
  <2> HIDE DEF InFlight
  <2> QED
    BY <2>3, <2>4 DEF TablesFollow
<1> QED
  BY <1>3, <1>4, <1>5, <1>6 DEF IndInv

\* A stuttering step preserves the invariant.
LEMMA StutterInv ==
  ASSUME IndInv, UNCHANGED vars
  PROVE  IndInv'
<1>1. UNCHANGED <<queueVars, countVars, metrics, event, submitVars, historyVars>>
  BY DEF vars, workerVars
<1>2. UNCHANGED <<running, stop_requested, control, owed, worker>>
  BY DEF vars, workerVars, controlVars
<1>3. /\ running \in BOOLEAN /\ stop_requested \in BOOLEAN /\ control \in ControlPoints
      /\ worker \in WorkerPoints /\ owed \in 0 .. Len(queued) /\ WorkerLives
  BY DEF IndInv, Typed, ControlPoints
<1>4. WorkerLives'
  BY <1>1, <1>2, <1>3 DEF WorkerLives, historyVars
<1> QED
  BY <1>1, <1>2, <1>3, <1>4, ControlMoves DEF IndInv

\* Every step preserves the invariant.
LEMMA StepInv ==
  ASSUME SingleSubmitter, IndInv, [Next]_vars
  PROVE  IndInv'
<1>1. PICK s : Submitters = {s}
  BY DEF SingleSubmitter
<1>2. CASE Call(s) \/ InCall(s)
  BY <1>1, <1>2, CallInv
<1>3. CASE WorkerLoop
  BY <1>3, TestStopInv, TestEmptyInv, PopEventInv, ApplyEventInv, CountProcessedInv
     DEF WorkerLoop
<1>4. CASE Start \/ Stop \/ Controller
  BY <1>4, ControlInv
<1>5. CASE UNCHANGED vars
  BY <1>5, StutterInv
<1> QED
  BY <1>1, <1>2, <1>3, <1>4, <1>5 DEF Next

\* The inductive invariant: what the queue holds, what each thread knows within its
\* call, and what the tables say of the events not in flight.
THEOREM IndInvHolds ==
  ASSUME SingleSubmitter
  PROVE  Spec => []IndInv
<1>1. Init => IndInv
  BY InitInv
<1>2. IndInv /\ [Next]_vars => IndInv'
  BY StepInv
<1> QED
  BY <1>1, <1>2, PTL DEF Spec

-----------------------------------------------------------------------------
(* What the exporter promises.                                             *)

\* Indices stay inside the ring, no counter of popped or owed events passes what was
\* queued.
THEOREM TypeCorrect ==
  ASSUME SingleSubmitter
  PROVE  Spec => []TypeOK
<1>1. IndInv => TypeOK
  BY DEF IndInv, Typed, Tables, TypeOK
<1> QED
  BY <1>1, IndInvHolds, PTL

\* The queue holds the accepted events that were not popped, in the order of
\* acceptance, through every stop and start.
THEOREM NoEventLost ==
  ASSUME SingleSubmitter
  PROVE  Spec => []NothingLost
<1>1. ASSUME IndInv PROVE NothingLost
  <2>1. /\ queued \in Seq(Events) /\ Len(queued) \in Nat /\ popped \in 0 .. Len(queued)
        /\ Len(queued) - popped = Depth
        /\ \A i \in 0 .. Depth - 1 : buffer[SlotAfter(head, i)] = queued[popped + i + 1]
    BY <1>1 DEF IndInv, Typed, Fifo
  <2>2. Pending = [i \in 1 .. Depth |-> buffer[SlotAfter(head, i - 1)]]
    BY <1>1, PendingIs DEF IndInv
  <2> HIDE DEF Depth, SlotAfter
  <2>3. ASSUME NEW i \in 1 .. Depth
        PROVE  buffer[SlotAfter(head, i - 1)] = queued[i + (popped + 1) - 1]
    <3>1. Depth \in Int
      BY <2>1
    <3>2. i - 1 \in 0 .. Depth - 1 /\ popped + (i - 1) + 1 = i + (popped + 1) - 1
      BY <2>1, <3>1
    <3> QED
      BY <2>1, <3>2
  <2>4. SubSeq(queued, popped + 1, Len(queued)) =
          [i \in 1 .. (1 + Len(queued) - (popped + 1)) |-> queued[i + (popped + 1) - 1]]
    BY <2>1
  <2>5. 1 + Len(queued) - (popped + 1) = Depth
    BY <2>1
  <2> QED
    BY <2>2, <2>3, <2>4, <2>5 DEF NothingLost
<1> QED
  BY <1>1, IndInvHolds, PTL

\* With nothing in flight, the tables say what all the accepted events say, whichever
\* path each took, unless a direct write has passed a queued event.
THEOREM TablesAgree ==
  ASSUME SingleSubmitter
  PROVE  Spec => []SettledTablesAgree
<1>1. ASSUME IndInv, ~overtaken, Pending = << >>, worker # "apply"
      PROVE  metrics = Expected(log)
  <2>1. Depth = 0
    BY <1>1, EmptyPending DEF IndInv
  <2>2. InFlight = 0
    BY <1>1, <2>1 DEF IndInv, Fifo, InFlight
  <2>3. log \in Seq(Events) /\ Len(log) \in Nat
    BY <1>1 DEF IndInv, Typed
  <2>4. SubSeq(log, 1, Len(log)) = log /\ Len(log) - InFlight = Len(log)
    BY <2>2, <2>3, SubSeqFull
  <2> QED
    BY <1>1, <2>4 DEF IndInv, TablesFollow
<1>2. IndInv => SettledTablesAgree
  BY <1>1 DEF SettledTablesAgree
<1> QED
  BY <1>2, IndInvHolds, PTL

\* Stop() returns with everything popped that was queued when it was called.
THEOREM StopFlushesAll ==
  ASSUME SingleSubmitter
  PROVE  Spec => []StopFlushes
<1>1. IndInv => StopFlushes
  BY DEF IndInv, WorkerLives, StopFlushes
<1> QED
  BY <1>1, IndInvHolds, PTL

\* WaitUntilDrainedForTest answers true only when the worker holds no event: it
\* compares counters of which each is behind by at most the event in hand.
THEOREM DrainedIsApplied ==
  ASSUME SingleSubmitter
  PROVE  Spec => []DrainedMeansApplied
<1>1. ASSUME IndInv, NEW s \in Submitters, pc[s] = "waitEmpty"
      PROVE  worker # "apply"
  <2>1. processed_events = Len(queued)
    BY <1>1 DEF IndInv, WaiterKnows
  <2>2. popped <= Len(queued) /\ Len(queued) \in Nat /\ popped \in Nat
    BY <1>1 DEF IndInv, Typed
  <2>3. worker = "apply" => processed_events + 1 = popped
    BY <1>1 DEF IndInv, Counted
  <2> QED
    BY <2>1, <2>2, <2>3
<1>2. IndInv => DrainedMeansApplied
  BY <1>1 DEF DrainedMeansApplied
<1> QED
  BY <1>2, IndInvHolds, PTL
=============================================================================
