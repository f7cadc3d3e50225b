------------------------- MODULE PlayoutEngineProofs -------------------------
(***************************************************************************)
(* Proofs about PlayoutEngine for any number of RPC threads and channels    *)
(* and every ring capacity.                                                 *)
(***************************************************************************)
EXTENDS PlayoutEngine, TLAPS

-----------------------------------------------------------------------------
(* The inductive invariant, one named part per idea.                       *)

StartPlaces == {"poll", "publish", "unwindRenderer", "unwindLive"}
OtherPlaces == {"stopRenderer", "stopLive", "stopPreview", "switchLive", "replacePreview"}

\* The caller that holds channels_mutex_ is the one inside a handler.
MutexHolder ==
  \A r \in Callers : pc[r] \in StartPlaces \cup OtherPlaces <=> mutex = r

\* StartChannel works on a channel that is built and not yet registered, the
\* other handlers on a registered one.
HandlerChannel ==
  \A r \in Callers :
    /\ pc[r] \in StartPlaces => chan[r] \in ring /\ chan[r] \notin registered
    /\ pc[r] \in OtherPlaces => chan[r] \in registered

\* running_ is set before the decode thread exists and not cleared while it
\* does; the late frame came from an iteration that began before the request.
ProducerSound(p) ==
  /\ p.running \/ p.thread = "none"
  /\ p.late = 0 \/ (p.late = 1 /\ p.teardown /\ p.thread # "push")
ProducersSound == \A ch \in Channels, s \in Slots : ProducerSound(producer[ch][s])

\* A preview exists in registered channels only.
PreviewIsRegistered ==
  \A ch \in Channels \ registered : Joined(producer[ch]["preview"].thread)

\* What a handler has joined stays joined while it holds the mutex.
JoinedStays ==
  \A r \in Callers :
    /\ pc[r] \in {"unwindLive", "stopLive", "stopPreview"}
         => Joined(renderer[chan[r]].thread)
    /\ pc[r] = "stopPreview" => Joined(producer[chan[r]]["live"].thread)

IndInv == /\ TypeOK /\ MutexHolder /\ HandlerChannel /\ ProducersSound
          /\ PreviewIsRegistered /\ JoinedStays
          /\ NoThreadOutlivesRing /\ NoOrphanChannel

\* The destructor runs with the mutex held, so no handler runs beside it.
DestroyerHolds == engine = "destroying" => mutex = Main

EngineInv == IndInv /\ DestroyerHolds

-----------------------------------------------------------------------------
(* Initial states.                                                         *)

\* Before the first RPC no channel, ring or thread exists.
LEMMA InitEngineInv == Init => EngineInv
<1> SUFFICES ASSUME Init PROVE EngineInv
  OBVIOUS
<1> USE DEF Init, NoProducer, NoRenderer, Joined, Slots
<1>1. TypeOK
  BY EngineAssumption DEF TypeOK, ProducerType, RendererType, Places
<1>2. MutexHolder /\ HandlerChannel /\ JoinedStays
  BY EngineAssumption DEF MutexHolder, HandlerChannel, JoinedStays, StartPlaces, OtherPlaces
<1>3. ProducersSound /\ PreviewIsRegistered
  BY DEF ProducersSound, ProducerSound, PreviewIsRegistered
<1>4. NoThreadOutlivesRing /\ NoOrphanChannel
  BY DEF NoThreadOutlivesRing, NoOrphanChannel
<1>5. DestroyerHolds
  BY DEF DestroyerHolds
<1>6. QED BY <1>1, <1>2, <1>3, <1>4, <1>5 DEF EngineInv, IndInv

-----------------------------------------------------------------------------
(* Decode thread.                                                          *)

\* The parts of the invariant that read only what the decode and render threads
\* leave alone.
CallersSound == MutexHolder /\ HandlerChannel /\ NoOrphanChannel

\* A thread's step leaves the callers' part of the invariant alone.
LEMMA CallersUntouched ==
  ASSUME CallersSound, UNCHANGED <<mutex, callerVars, registered, ring>>
  PROVE  CallersSound'
BY DEF CallersSound, callerVars, MutexHolder, HandlerChannel, NoOrphanChannel

\* An update of one producer, pointwise.
LEMMA ProducerUpdate ==
  ASSUME TypeOK, NEW ch \in Channels, NEW s \in Slots, NEW q \in ProducerType,
         producer' = [producer EXCEPT ![ch][s] = q]
  PROVE  /\ producer' \in [Channels -> [Slots -> ProducerType]]
         /\ producer'[ch][s] = q
         /\ \A c \in Channels, t \in Slots :
              c # ch \/ t # s => producer'[c][t] = producer[c][t]
<1>1. producer \in [Channels -> [Slots -> ProducerType]]
  BY DEF TypeOK
<1>2. QED BY <1>1

\* An update of one renderer, pointwise.
LEMMA RendererUpdate ==
  ASSUME TypeOK, NEW ch \in Channels, NEW q \in RendererType,
         renderer' = [renderer EXCEPT ![ch] = q]
  PROVE  /\ renderer' \in [Channels -> RendererType]
         /\ renderer'[ch] = q
         /\ \A c \in Channels : c # ch => renderer'[c] = renderer[c]
<1>1. renderer \in [Channels -> RendererType]
  BY DEF TypeOK
<1>2. QED BY <1>1

\* The decode thread's step keeps the invariant: it moves one producer whose
\* thread runs, so nothing joined is disturbed.
LEMMA DecodeMoves ==
  ASSUME IndInv, NEW ch \in Channels, NEW s \in Slots, NEW q \in ProducerType,
         ~Joined(producer[ch][s].thread), ProducerSound(q),
         producer' = [producer EXCEPT ![ch][s] = q],
         depth' \in [Channels -> 0 .. Capacity],
         UNCHANGED <<engine, mutex, callerVars, registered, ring, control, renderer>>
  PROVE  IndInv'
<1> USE DEF IndInv
<1>0. /\ producer' \in [Channels -> [Slots -> ProducerType]]
      /\ producer'[ch][s] = q
      /\ \A c \in Channels, t \in Slots :
           c # ch \/ t # s => producer'[c][t] = producer[c][t]
  BY ProducerUpdate
<1>1. TypeOK'
  BY <1>0 DEF TypeOK, callerVars
<1>2. CallersSound'
  BY CallersUntouched DEF CallersSound
<1>3. ProducersSound'
  <2> SUFFICES ASSUME NEW c \in Channels, NEW t \in Slots
               PROVE  ProducerSound(producer'[c][t])
    BY DEF ProducersSound
  <2>1. CASE c = ch /\ t = s
    BY <2>1, <1>0
  <2>2. CASE c # ch \/ t # s
    BY <2>2, <1>0 DEF ProducersSound
  <2>3. QED BY <2>1, <2>2
<1>4. \A c \in Channels, t \in Slots :
        Joined(producer[c][t].thread) => producer'[c][t] = producer[c][t]
  BY <1>0
<1>5. PreviewIsRegistered'
  BY <1>4 DEF PreviewIsRegistered, Slots
<1>6. JoinedStays'
  <2>1. \A r \in Callers : chan[r] \in Channels
    BY DEF TypeOK
  <2>2. QED BY <1>4, <2>1 DEF JoinedStays, callerVars, Slots
<1>7. NoThreadOutlivesRing'
  BY <1>4 DEF NoThreadOutlivesRing
<1>8. QED BY <1>1, <1>2, <1>3, <1>5, <1>6, <1>7 DEF CallersSound

\* The loop's tests: the thread goes on, ends, or asks itself to stop.
LEMMA TestFlagsKeepsInv ==
  ASSUME IndInv, NEW ch \in Channels, NEW s \in Slots, TestFlags(ch, s)
  PROVE  IndInv'
<1> DEFINE p == producer[ch][s]
<1>1. p \in ProducerType /\ p.thread = "top" /\ ProducerSound(p)
  BY DEF IndInv, TypeOK, ProducersSound, TestFlags
<1>2. PICK q \in ProducerType :
        /\ producer' = [producer EXCEPT ![ch][s] = q]
        /\ ProducerSound(q)
  <2>1. CASE p.stop /\ SetThread(ch, s, "exited")
    <3> DEFINE q == [p EXCEPT !.thread = "exited"]
    <3>1. q \in ProducerType /\ ProducerSound(q)
      BY <1>1 DEF ProducerType, ProducerSound
    <3>2. producer' = [producer EXCEPT ![ch][s] = q]
      BY <2>1 DEF SetThread
    <3>3. QED BY <3>1, <3>2
  <2>2. CASE producer' = [producer EXCEPT ![ch][s].stop = TRUE]
    <3> DEFINE q == [p EXCEPT !.stop = TRUE]
    <3>1. q \in ProducerType /\ ProducerSound(q)
      BY <1>1 DEF ProducerType, ProducerSound
    <3>2. producer' = [producer EXCEPT ![ch][s] = q]
      BY <2>2
    <3>3. QED BY <3>1, <3>2
  <2>3. CASE ~p.teardown /\ SetThread(ch, s, "push")
    <3> DEFINE q == [p EXCEPT !.thread = "push"]
    <3>1. q \in ProducerType /\ ProducerSound(q)
      BY <1>1, <2>3 DEF ProducerType, ProducerSound
    <3>2. producer' = [producer EXCEPT ![ch][s] = q]
      BY <2>3 DEF SetThread
    <3>3. QED BY <3>1, <3>2
  <2>4. QED BY <2>1, <2>2, <2>3 DEF TestFlags
<1>3. ~Joined(p.thread)
  BY <1>1 DEF Joined
<1>4. depth' \in [Channels -> 0 .. Capacity]
  BY DEF IndInv, TypeOK, TestFlags
<1>5. QED BY <1>2, <1>3, <1>4, DecodeMoves DEF TestFlags

\* A frame is pushed, or not: a late one is the first, since the request came
\* after this iteration's test.
LEMMA ProduceFrameKeepsInv ==
  ASSUME IndInv, NEW ch \in Channels, NEW s \in Slots, ProduceFrame(ch, s)
  PROVE  IndInv'
<1> DEFINE p == producer[ch][s]
<1>1. p \in ProducerType /\ p.thread = "push" /\ ProducerSound(p)
  BY DEF IndInv, TypeOK, ProducersSound, ProduceFrame
<1>2. p.late = 0 /\ p.running
  BY <1>1 DEF ProducerSound
<1>3. PICK q \in ProducerType :
        /\ producer' = [producer EXCEPT ![ch][s] = q]
        /\ ProducerSound(q)
  <2>1. CASE producer' = [producer EXCEPT ![ch][s] =
               [p EXCEPT !.thread = "top", !.late = @ + (IF p.teardown THEN 1 ELSE 0)]]
    <3> DEFINE n == p.late + (IF p.teardown THEN 1 ELSE 0)
               q == [p EXCEPT !.thread = "top", !.late = n]
    <3>a. n \in {0, 1} /\ (n = 1 => p.teardown)
      BY <1>1, <1>2 DEF ProducerType
    <3> HIDE DEF n
    <3>b. n \in Nat
      BY <3>a
    <3>c. q \in ProducerType
      BY <1>1, <3>b DEF ProducerType
    <3>d. q.running = p.running /\ q.late = n /\ q.teardown = p.teardown /\ q.thread = "top"
      BY <1>1 DEF ProducerType
    <3>1. q \in ProducerType /\ ProducerSound(q)
      BY <1>2, <3>a, <3>c, <3>d DEF ProducerSound
    <3> USE DEF n
    <3>2. QED BY <2>1, <3>1
  <2>2. CASE SetThread(ch, s, "top")
    <3> DEFINE q == [p EXCEPT !.thread = "top"]
    <3>1. q \in ProducerType /\ ProducerSound(q)
      BY <1>1, <1>2 DEF ProducerType, ProducerSound
    <3>2. producer' = [producer EXCEPT ![ch][s] = q]
      BY <2>2 DEF SetThread
    <3>3. QED BY <3>1, <3>2
  <2>3. CASE producer' = [producer EXCEPT ![ch][s].thread = "top", ![ch][s].stop = TRUE]
    <3> DEFINE q == [p EXCEPT !.thread = "top", !.stop = TRUE]
    <3>1. q \in ProducerType /\ ProducerSound(q)
      BY <1>1, <1>2 DEF ProducerType, ProducerSound
    <3>2. producer' = [producer EXCEPT ![ch][s] = q]
      BY <1>1, <2>3 DEF ProducerType, IndInv, TypeOK
    <3>3. QED BY <3>1, <3>2
  <2>4. QED BY <2>1, <2>2, <2>3 DEF ProduceFrame
<1>4. ~Joined(p.thread)
  BY <1>1 DEF Joined
<1>5. depth' \in [Channels -> 0 .. Capacity]
  <2>1. depth \in [Channels -> 0 .. Capacity] /\ Capacity \in Nat
    BY EngineAssumption DEF IndInv, TypeOK
  <2>2. \/ depth' = depth
        \/ depth[ch] < Capacity /\ depth' = [depth EXCEPT ![ch] = @ + 1]
    BY DEF ProduceFrame
  <2>3. QED BY <2>1, <2>2
<1>6. QED BY <1>3, <1>4, <1>5, DecodeMoves DEF ProduceFrame

-----------------------------------------------------------------------------
(* Render thread.                                                          *)

\* The render thread's step keeps the invariant: it moves one renderer whose
\* thread runs, or ends the process.
LEMMA RenderMoves ==
  ASSUME IndInv, NEW ch \in Channels, NEW q \in RendererType,
         ~Joined(renderer[ch].thread),
         renderer' = [renderer EXCEPT ![ch] = q],
         depth' \in [Channels -> 0 .. Capacity],
         engine' \in {engine, "aborted"},
         UNCHANGED <<mutex, callerVars, registered, ring, control, producer>>
  PROVE  IndInv'
<1> USE DEF IndInv
<1>0. /\ renderer' \in [Channels -> RendererType]
      /\ renderer'[ch] = q
      /\ \A c \in Channels : c # ch => renderer'[c] = renderer[c]
  BY RendererUpdate
<1>1. TypeOK'
  BY <1>0 DEF TypeOK, callerVars
<1>2. CallersSound'
  BY CallersUntouched DEF CallersSound
<1>3. \A c \in Channels : Joined(renderer[c].thread) => renderer'[c] = renderer[c]
  BY <1>0
<1>4. ProducersSound' /\ PreviewIsRegistered'
  BY DEF ProducersSound, PreviewIsRegistered
<1>5. JoinedStays'
  <2>1. \A r \in Callers : chan[r] \in Channels
    BY DEF TypeOK
  <2>2. QED BY <1>3, <2>1 DEF JoinedStays, callerVars
<1>6. NoThreadOutlivesRing'
  BY <1>3 DEF NoThreadOutlivesRing
<1>7. QED BY <1>1, <1>2, <1>4, <1>5, <1>6 DEF CallersSound

\* Each step of the loop is such a move; the one that ends the process moves
\* nothing.
LEMMA RenderKeepsInv ==
  ASSUME IndInv, NEW ch \in Channels, RenderLoop(ch)
  PROVE  IndInv'
<1> DEFINE q == renderer[ch]
<1>1. q \in RendererType /\ ~Joined(q.thread)
  BY DEF IndInv, TypeOK, RenderLoop, RenderTest, RenderPop, RenderFrame, Joined
<1>2. renderer = [renderer EXCEPT ![ch] = q]
  BY DEF IndInv, TypeOK
<1>3. ASSUME NEW at \in {"top", "pop", "render", "exited"}
      PROVE  [q EXCEPT !.thread = at] \in RendererType
  BY <1>1 DEF RendererType
<1>4. ASSUME NEW at, renderer' = [renderer EXCEPT ![ch].thread = at]
      PROVE  renderer' = [renderer EXCEPT ![ch] = [q EXCEPT !.thread = at]]
  BY <1>4
<1>5. CASE RenderTest(ch)
  <2>1. PICK p \in RendererType : renderer' = [renderer EXCEPT ![ch] = p]
    <3>1. \/ \E at \in {"exited", "pop"} : renderer' = [renderer EXCEPT ![ch].thread = at]
          \/ renderer' = renderer
      BY <1>5 DEF RenderTest
    <3>2. QED BY <3>1, <1>1, <1>2, <1>3, <1>4
  <2>2. engine' \in {engine, "aborted"} /\ depth' \in [Channels -> 0 .. Capacity]
    BY <1>5 DEF RenderTest, IndInv, TypeOK
  <2>3. QED BY <1>1, <1>5, <2>1, <2>2, RenderMoves DEF RenderTest
<1>6. CASE RenderPop(ch)
  <2>1. PICK at \in {"top", "render"} : renderer' = [renderer EXCEPT ![ch].thread = at]
    BY <1>6 DEF RenderPop
  <2>2. depth' \in [Channels -> 0 .. Capacity]
    BY <1>6, EngineAssumption DEF RenderPop, IndInv, TypeOK
  <2>3. QED BY <1>1, <1>3, <1>4, <1>6, <2>1, <2>2, RenderMoves DEF RenderPop
<1>7. CASE RenderFrame(ch)
  <2>1. PICK p \in RendererType : renderer' = [renderer EXCEPT ![ch] = p]
    <3>1. \/ renderer' = [renderer EXCEPT ![ch].thread = "top"]
          \/ renderer' = renderer
      BY <1>7 DEF RenderFrame
    <3>2. QED BY <3>1, <1>1, <1>2, <1>3, <1>4
  <2>2. engine' \in {engine, "aborted"} /\ depth' \in [Channels -> 0 .. Capacity]
    BY <1>7 DEF RenderFrame, IndInv, TypeOK
  <2>3. QED BY <1>1, <1>7, <2>1, <2>2, RenderMoves DEF RenderFrame
<1>8. QED BY <1>5, <1>6, <1>7 DEF RenderLoop

-----------------------------------------------------------------------------
(* What the handlers' building blocks do.                                  *)

Inside == StartPlaces \cup OtherPlaces
Alone(r) == \A q \in Callers \ {r} : pc[q] \notin Inside

\* A handler that takes or keeps the mutex is the only one inside.
LEMMA EnterMoves ==
  ASSUME TypeOK, MutexHolder, NEW r \in Callers, NEW at \in Inside,
         mutex \in {r, NoCaller}, mutex' = r, Goto(r, at)
  PROVE  /\ mutex' \in Callers \cup {NoCaller, Main}
         /\ pc' \in [Callers -> Places]
         /\ op' \in [Callers -> Operations \cup {"none"}]
         /\ chan' \in [Callers -> Channels]
         /\ pc'[r] = at /\ chan' = chan /\ Alone(r)' /\ MutexHolder'
<1> USE DEF Goto, Inside, StartPlaces, OtherPlaces
<1>1. /\ op' \in [Callers -> Operations \cup {"none"}]
      /\ chan' \in [Callers -> Channels] /\ chan' = chan
      /\ mutex' \in Callers \cup {NoCaller, Main}
  BY DEF TypeOK
<1>2. /\ pc \in [Callers -> Places] /\ at \in Places
      /\ pc' = [pc EXCEPT ![r] = at]
  BY DEF TypeOK, Places
<1>3. \A q \in Callers \ {r} : pc[q] \notin Inside
  BY EngineAssumption DEF MutexHolder
<1>4. pc' \in [Callers -> Places] /\ pc'[r] = at
  BY <1>2
<1>5. \A q \in Callers \ {r} : pc'[q] = pc[q]
  BY <1>2
<1>6. Alone(r)'
  BY <1>3, <1>5 DEF Alone
<1>7. MutexHolder'
  BY <1>4, <1>6 DEF MutexHolder, Alone
<1>8. QED BY <1>1, <1>4, <1>6, <1>7

\* After a handler has returned nobody is inside.
LEMMA ReturnMoves ==
  ASSUME TypeOK, MutexHolder, NEW r \in Callers,
         mutex \in {r, NoCaller}, Return(r)
  PROVE  /\ mutex' \in Callers \cup {NoCaller, Main}
         /\ pc' \in [Callers -> Places]
         /\ op' \in [Callers -> Operations \cup {"none"}]
         /\ chan' \in [Callers -> Channels]
         /\ \A q \in Callers : pc'[q] \notin Inside
         /\ MutexHolder' /\ JoinedStays'
<1> USE DEF Return, Inside, StartPlaces, OtherPlaces
<1>1. /\ op' \in [Callers -> Operations \cup {"none"}]
      /\ chan' \in [Callers -> Channels]
      /\ mutex' \in Callers \cup {NoCaller, Main}
  BY DEF TypeOK
<1>2. /\ pc \in [Callers -> Places] /\ "idle" \in Places
      /\ pc' = [pc EXCEPT ![r] = "idle"]
  BY DEF TypeOK, Places
<1>3. \A q \in Callers \ {r} : pc[q] \notin Inside
  BY EngineAssumption DEF MutexHolder
<1>4. pc' \in [Callers -> Places] /\ \A q \in Callers : pc'[q] \notin Inside
  BY <1>2, <1>3
<1>5. MutexHolder' /\ JoinedStays'
  BY <1>4, EngineAssumption DEF MutexHolder, JoinedStays
<1>6. QED BY <1>1, <1>4, <1>5

\* A stop request to one producer leaves the threads where they are.
LEMMA StopRequested ==
  ASSUME TypeOK, ProducersSound, NEW ch \in Channels, NEW s \in Slots,
         RequestStop(ch, s)
  PROVE  /\ producer' \in [Channels -> [Slots -> ProducerType]]
         /\ ProducersSound'
         /\ \A c \in Channels, t \in Slots : producer'[c][t].thread = producer[c][t].thread
<1> DEFINE p == producer[ch][s]
<1>1. p \in ProducerType /\ ProducerSound(p)
  BY DEF TypeOK, ProducersSound
<1>2. [p EXCEPT !.stop = TRUE] \in ProducerType
  BY <1>1 DEF ProducerType
<1>3. PICK q \in ProducerType :
        /\ producer' = [producer EXCEPT ![ch][s] = q]
        /\ ProducerSound(q) /\ q.thread = p.thread
  BY <1>1, <1>2 DEF RequestStop, ProducerType, ProducerSound
<1>4. /\ producer' \in [Channels -> [Slots -> ProducerType]]
      /\ producer'[ch][s] = q
      /\ \A c \in Channels, t \in Slots :
           c # ch \/ t # s => producer'[c][t] = producer[c][t]
  BY <1>3, ProducerUpdate
<1>5. QED BY <1>3, <1>4 DEF ProducersSound

\* So does a teardown request.
LEMMA TeardownRequested ==
  ASSUME TypeOK, ProducersSound, NEW ch \in Channels, NEW s \in Slots,
         RequestTeardown(ch, s)
  PROVE  /\ producer' \in [Channels -> [Slots -> ProducerType]]
         /\ ProducersSound'
         /\ \A c \in Channels, t \in Slots : producer'[c][t].thread = producer[c][t].thread
<1> DEFINE p == producer[ch][s]
           b == p.teardown \/ p.running
           q == [p EXCEPT !.teardown = b]
<1>1. p \in ProducerType /\ ProducerSound(p)
  BY DEF TypeOK, ProducersSound
<1>2. b \in BOOLEAN /\ (p.teardown => b)
  BY <1>1 DEF ProducerType
<1>3. producer' = [producer EXCEPT ![ch][s] = q]
  BY DEF RequestTeardown
<1> HIDE DEF b
<1>4. q \in ProducerType /\ ProducerSound(q) /\ q.thread = p.thread
  BY <1>1, <1>2 DEF ProducerType, ProducerSound
<1> HIDE DEF q
<1>5. /\ producer' \in [Channels -> [Slots -> ProducerType]]
      /\ producer'[ch][s] = q
      /\ \A c \in Channels, t \in Slots :
           c # ch \/ t # s => producer'[c][t] = producer[c][t]
  BY <1>3, <1>4, ProducerUpdate
<1>6. QED BY <1>4, <1>5 DEF ProducersSound

\* Destroying the members of a channel whose threads are joined.
LEMMA ForgetJoined ==
  ASSUME TypeOK, ProducersSound, NEW ch \in Channels, Forget(ch),
         Joined(renderer[ch].thread), \A s \in Slots : Joined(producer[ch][s].thread)
  PROVE  /\ ring' \subseteq Channels
         /\ depth' \in [Channels -> 0 .. Capacity]
         /\ control' \in [Channels -> {"Idle", "Buffering", "Playing"}]
         /\ producer' \in [Channels -> [Slots -> ProducerType]]
         /\ renderer' \in [Channels -> RendererType]
         /\ ProducersSound'
         /\ Joined(renderer'[ch].thread) /\ \A s \in Slots : Joined(producer'[ch][s].thread)
         /\ \A c \in Channels \ {ch} :
              renderer'[c] = renderer[c] /\ producer'[c] = producer[c]
<1> DEFINE none == [s \in Slots |-> NoProducer]
<1>1. NoProducer \in ProducerType /\ ProducerSound(NoProducer) /\ Joined(NoProducer.thread)
  BY DEF NoProducer, ProducerType, ProducerSound, Joined
<1>2. NoRenderer \in RendererType /\ Joined(NoRenderer.thread)
  BY DEF NoRenderer, RendererType, Joined
<1>3. producer' = [producer EXCEPT ![ch] = none]
  BY DEF Forget, Destroyed
<1>4. renderer' = [renderer EXCEPT ![ch] = NoRenderer]
  BY DEF Forget, Destroyed
<1>5. /\ renderer' \in [Channels -> RendererType]
      /\ renderer'[ch] = NoRenderer
      /\ \A c \in Channels : c # ch => renderer'[c] = renderer[c]
  BY <1>2, <1>4, RendererUpdate
<1>6. none \in [Slots -> ProducerType] /\ \A s \in Slots : none[s] = NoProducer
  BY <1>1
<1> HIDE DEF none
<1>7. /\ producer' \in [Channels -> [Slots -> ProducerType]]
      /\ producer'[ch] = none
      /\ \A c \in Channels \ {ch} : producer'[c] = producer[c]
  BY <1>3, <1>6 DEF TypeOK
<1>8. ProducersSound'
  BY <1>1, <1>6, <1>7 DEF ProducersSound
<1>9. /\ ring' \subseteq Channels
      /\ depth' \in [Channels -> 0 .. Capacity]
      /\ control' \in [Channels -> {"Idle", "Buffering", "Playing"}]
  BY EngineAssumption DEF Forget, TypeOK
<1>10. QED BY <1>1, <1>2, <1>5, <1>6, <1>7, <1>8, <1>9

-----------------------------------------------------------------------------
(* The handlers, one lemma each.                                           *)

\* Taking the mutex to find nothing to do.
LEMMA ReturnAtOnceKeepsInv ==
  ASSUME IndInv, NEW r \in Callers, mutex = NoCaller, ReturnAtOnce(r)
  PROVE  IndInv'
<1> USE DEF IndInv, ReturnAtOnce
<1>1. /\ mutex' \in Callers \cup {NoCaller, Main}
      /\ pc' \in [Callers -> Places]
      /\ op' \in [Callers -> Operations \cup {"none"}]
      /\ chan' \in [Callers -> Channels]
      /\ \A q \in Callers : pc'[q] \notin Inside
      /\ MutexHolder' /\ JoinedStays'
  BY ReturnMoves
<1>2. TypeOK'
  BY <1>1 DEF TypeOK
<1>3. HandlerChannel'
  BY <1>1 DEF HandlerChannel, Inside
<1>4. ProducersSound' /\ PreviewIsRegistered' /\ NoThreadOutlivesRing'
  BY DEF ProducersSound, PreviewIsRegistered, NoThreadOutlivesRing
<1>5. NoOrphanChannel'
  BY EngineAssumption DEF NoOrphanChannel
<1>6. QED BY <1>1, <1>2, <1>3, <1>4, <1>5

\* A new channel was nowhere before: what is not registered while nobody holds
\* the mutex has no ring, and so no threads.
LEMMA StartChannelKeepsInv ==
  ASSUME IndInv, NEW r \in Callers, StartChannel(r)
  PROVE  IndInv'
<1> DEFINE ch == chan[r]
<1>1. mutex = NoCaller /\ ch \in Channels
  BY DEF StartChannel, Locks, IndInv, TypeOK
<1>2. CASE ReturnAtOnce(r)
  BY <1>1, <1>2, ReturnAtOnceKeepsInv
<1>3. CASE /\ ch \notin registered
           /\ ring' = ring \cup {ch}
           /\ control' = [control EXCEPT ![ch] = "Buffering"]
           /\ producer' = [producer EXCEPT ![ch]["live"] = StartedProducer]
           /\ \/ /\ renderer' = [renderer EXCEPT ![ch] = StartedRenderer]
                 /\ Enter(r, "poll")
              \/ UNCHANGED renderer /\ Enter(r, "unwindRenderer")
           /\ UNCHANGED <<engine, registered, depth>>
  <2> USE DEF IndInv
  <2>1. ch \notin ring /\ registered = ring
    <3>1. ASSUME NEW c \in ring, c \notin registered PROVE FALSE
      BY <1>1, <3>1, EngineAssumption DEF NoOrphanChannel
    <3>2. registered \subseteq ring
      BY DEF NoOrphanChannel
    <3>3. QED BY <1>3, <3>1, <3>2
  <2>2. /\ Joined(renderer[ch].thread)
        /\ \A s \in Slots : Joined(producer[ch][s].thread)
    BY <1>1, <2>1 DEF NoThreadOutlivesRing
  <2>3. PICK at \in {"poll", "unwindRenderer"} : mutex' = r /\ Goto(r, at)
    BY <1>3 DEF Enter
  <2>4. at \in Inside
    BY <2>3 DEF Inside, StartPlaces
  <2>5. /\ mutex' \in Callers \cup {NoCaller, Main}
        /\ pc' \in [Callers -> Places]
        /\ op' \in [Callers -> Operations \cup {"none"}]
        /\ chan' \in [Callers -> Channels]
        /\ pc'[r] = at /\ chan' = chan /\ Alone(r)' /\ MutexHolder'
    BY <1>1, <2>3, <2>4, EnterMoves
  <2>6. /\ StartedProducer \in ProducerType /\ ProducerSound(StartedProducer)
        /\ StartedRenderer \in RendererType
    BY DEF StartedProducer, NoProducer, ProducerType, ProducerSound, StartedRenderer,
           RendererType
  <2>7. /\ producer' \in [Channels -> [Slots -> ProducerType]]
        /\ producer'[ch]["live"] = StartedProducer
        /\ \A c \in Channels, t \in Slots :
             c # ch \/ t # "live" => producer'[c][t] = producer[c][t]
    <3>1. "live" \in Slots
      BY DEF Slots
    <3>2. producer' = [producer EXCEPT ![ch]["live"] = StartedProducer]
      BY <1>3
    <3>3. QED BY <1>1, <2>6, <3>1, <3>2, ProducerUpdate
  <2>8. /\ renderer' \in [Channels -> RendererType]
        /\ \A c \in Channels : c # ch => renderer'[c] = renderer[c]
    <3>1. CASE UNCHANGED renderer
      BY <3>1 DEF TypeOK
    <3>2. CASE renderer' = [renderer EXCEPT ![ch] = StartedRenderer]
      BY <1>1, <3>2, <2>6, RendererUpdate
    <3>3. QED BY <1>3, <3>1, <3>2
  <2>9. control' \in [Channels -> {"Idle", "Buffering", "Playing"}]
    BY <1>3 DEF TypeOK
  <2>10. TypeOK'
    BY <1>1, <1>3, <2>5, <2>7, <2>8, <2>9 DEF TypeOK
  <2>11. HandlerChannel'
    BY <1>3, <2>3, <2>5 DEF HandlerChannel, Alone, Inside, StartPlaces, OtherPlaces
  <2>12. ProducersSound'
    BY <2>6, <2>7 DEF ProducersSound
  <2>13. PreviewIsRegistered'
    BY <1>3, <2>7 DEF PreviewIsRegistered, Slots
  <2>14. JoinedStays'
    BY <2>3, <2>5 DEF JoinedStays, Alone, Inside, StartPlaces, OtherPlaces
  <2>15. NoThreadOutlivesRing'
    BY <1>3, <2>7, <2>8 DEF NoThreadOutlivesRing
  <2>16. NoOrphanChannel'
    BY <1>3, <2>1, <2>3, <2>5 DEF NoOrphanChannel
  <2>17. QED BY <2>5, <2>10, <2>11, <2>12, <2>13, <2>14, <2>15, <2>16
<1>4. QED BY <1>2, <1>3 DEF StartChannel

\* The wait for the ready depth ends: towards publishing, or with the renderer
\* told to stop, its thread where it was.
LEMMA PollDepthKeepsInv ==
  ASSUME IndInv, NEW r \in Callers, PollDepth(r)
  PROVE  IndInv'
<1> DEFINE ch == chan[r]
<1> USE DEF IndInv
<1>1. ch \in Channels /\ mutex = r /\ ch \in ring /\ ch \notin registered
  BY DEF PollDepth, TypeOK, MutexHolder, HandlerChannel, StartPlaces
<1>2. PICK at \in {"publish", "unwindRenderer"} : Goto(r, at)
  BY DEF PollDepth
<1>3. at \in Inside
  BY <1>2 DEF Inside, StartPlaces
<1>4. /\ mutex' \in Callers \cup {NoCaller, Main}
      /\ pc' \in [Callers -> Places]
      /\ op' \in [Callers -> Operations \cup {"none"}]
      /\ chan' \in [Callers -> Channels]
      /\ pc'[r] = at /\ chan' = chan /\ Alone(r)' /\ MutexHolder'
  <2>1. mutex' = r
    BY <1>1 DEF PollDepth
  <2>2. QED BY <1>1, <1>2, <1>3, <2>1, EnterMoves
<1>5. /\ renderer' \in [Channels -> RendererType]
      /\ \A c \in Channels : renderer'[c].thread = renderer[c].thread
  <2>1. CASE UNCHANGED renderer
    BY <2>1 DEF TypeOK
  <2>2. CASE renderer' = [renderer EXCEPT ![ch].derived = FALSE, ![ch].stop = TRUE]
    <3> DEFINE q == [renderer[ch] EXCEPT !.derived = FALSE, !.stop = TRUE]
    <3>1. renderer \in [Channels -> RendererType]
      BY DEF TypeOK
    <3>2. q \in RendererType /\ q.thread = renderer[ch].thread
      BY <1>1, <3>1 DEF RendererType
    <3>3. renderer' = [renderer EXCEPT ![ch] = q]
      BY <1>1, <2>2, <3>1 DEF RendererType
    <3>4. QED BY <1>1, <3>2, <3>3, RendererUpdate
  <2>3. QED BY <2>1, <2>2 DEF PollDepth
<1>6. UNCHANGED <<engine, mutex, registered, ring, depth, control, producer>>
  BY DEF PollDepth
<1>7. TypeOK'
  BY <1>4, <1>5, <1>6 DEF TypeOK
<1>8. HandlerChannel'
  BY <1>1, <1>2, <1>4, <1>6 DEF HandlerChannel, Alone, Inside, StartPlaces, OtherPlaces
<1>9. ProducersSound' /\ PreviewIsRegistered'
  BY <1>6 DEF ProducersSound, PreviewIsRegistered
<1>10. JoinedStays'
  BY <1>2, <1>4 DEF JoinedStays, Alone, Inside, StartPlaces, OtherPlaces
<1>11. NoThreadOutlivesRing'
  BY <1>5, <1>6 DEF NoThreadOutlivesRing
<1>12. NoOrphanChannel'
  <2>1. pc'[r] \in {"poll", "publish", "unwindRenderer", "unwindLive"}
    BY <1>2, <1>4
  <2>2. \A c \in ring \ registered : c = ch
    BY <1>1 DEF NoOrphanChannel
  <2>3. QED BY <1>1, <1>4, <1>6, <2>1, <2>2 DEF NoOrphanChannel
<1>13. QED BY <1>4, <1>7, <1>8, <1>9, <1>10, <1>11, <1>12

\* The channel is registered by the caller that built it.
LEMMA PublishKeepsInv ==
  ASSUME IndInv, NEW r \in Callers, Publish(r)
  PROVE  IndInv'
<1> DEFINE ch == chan[r]
<1> USE DEF IndInv
<1>1. ch \in Channels /\ mutex = r /\ ch \in ring
  BY DEF Publish, TypeOK, MutexHolder, HandlerChannel, StartPlaces
<1>2. /\ registered' = registered \cup {ch} /\ Return(r)
      /\ UNCHANGED <<engine, ring, depth, producer, renderer>>
  BY DEF Publish
<1>3. /\ mutex' \in Callers \cup {NoCaller, Main}
      /\ pc' \in [Callers -> Places]
      /\ op' \in [Callers -> Operations \cup {"none"}]
      /\ chan' \in [Callers -> Channels]
      /\ \A q \in Callers : pc'[q] \notin Inside
      /\ MutexHolder' /\ JoinedStays'
  BY <1>1, <1>2, ReturnMoves
<1>4. control' \in [Channels -> {"Idle", "Buffering", "Playing"}]
  BY <1>1 DEF Publish, TypeOK
<1>5. TypeOK'
  BY <1>1, <1>2, <1>3, <1>4 DEF TypeOK
<1>6. HandlerChannel'
  BY <1>3 DEF HandlerChannel, Inside
<1>7. ProducersSound' /\ PreviewIsRegistered' /\ NoThreadOutlivesRing'
  BY <1>2 DEF ProducersSound, PreviewIsRegistered, NoThreadOutlivesRing
<1>8. NoOrphanChannel'
  <2>1. \A c \in ring \ registered : c = ch
    BY <1>1 DEF NoOrphanChannel
  <2>2. QED BY <1>1, <1>2, <2>1 DEF NoOrphanChannel
<1>9. QED BY <1>3, <1>5, <1>6, <1>7, <1>8

\* The renderer of a channel that is given up is destroyed, its thread joined.
LEMMA UnwindRendererKeepsInv ==
  ASSUME IndInv, NEW r \in Callers, UnwindRenderer(r)
  PROVE  IndInv'
<1> DEFINE ch == chan[r]
<1> USE DEF IndInv
<1>1. ch \in Channels /\ mutex = r /\ ch \in ring /\ ch \notin registered
  BY DEF UnwindRenderer, TypeOK, MutexHolder, HandlerChannel, StartPlaces
<1>2. /\ renderer' = [renderer EXCEPT ![ch] = NoRenderer]
      /\ RequestStop(ch, "live") /\ Goto(r, "unwindLive")
      /\ UNCHANGED <<engine, mutex, registered, ring, depth, control>>
  BY DEF UnwindRenderer
<1>3. "unwindLive" \in Inside /\ "live" \in Slots
  BY DEF Inside, StartPlaces, Slots
<1>4. /\ mutex' \in Callers \cup {NoCaller, Main}
      /\ pc' \in [Callers -> Places]
      /\ op' \in [Callers -> Operations \cup {"none"}]
      /\ chan' \in [Callers -> Channels]
      /\ pc'[r] = "unwindLive" /\ chan' = chan /\ Alone(r)' /\ MutexHolder'
  BY <1>1, <1>2, <1>3, EnterMoves
<1>5. /\ producer' \in [Channels -> [Slots -> ProducerType]]
      /\ ProducersSound'
      /\ \A c \in Channels, t \in Slots : producer'[c][t].thread = producer[c][t].thread
  BY <1>1, <1>2, <1>3, StopRequested
<1>6. NoRenderer \in RendererType /\ Joined(NoRenderer.thread)
  BY DEF NoRenderer, RendererType, Joined
<1>7. /\ renderer' \in [Channels -> RendererType]
      /\ renderer'[ch] = NoRenderer
      /\ \A c \in Channels : c # ch => renderer'[c] = renderer[c]
  BY <1>1, <1>2, <1>6, RendererUpdate
<1>8. TypeOK'
  BY <1>2, <1>4, <1>5, <1>7 DEF TypeOK
<1>9. HandlerChannel'
  BY <1>1, <1>2, <1>4 DEF HandlerChannel, Alone, Inside, StartPlaces, OtherPlaces
<1>10. PreviewIsRegistered'
  BY <1>2, <1>5 DEF PreviewIsRegistered, Slots
<1>11. JoinedStays'
  BY <1>4, <1>6, <1>7 DEF JoinedStays, Alone, Inside, StartPlaces, OtherPlaces
<1>12. NoThreadOutlivesRing'
  BY <1>2, <1>5, <1>6, <1>7 DEF NoThreadOutlivesRing
<1>13. NoOrphanChannel'
  <2>1. \A c \in ring \ registered : c = ch
    BY <1>1 DEF NoOrphanChannel
  <2>2. QED BY <1>1, <1>2, <1>4, <2>1 DEF NoOrphanChannel
<1>14. QED BY <1>4, <1>5, <1>8, <1>9, <1>10, <1>11, <1>12, <1>13

\* The rest of a channel that is given up: no preview exists, the renderer was
\* joined before and the decode thread just now.
LEMMA UnwindLiveKeepsInv ==
  ASSUME IndInv, NEW r \in Callers, UnwindLive(r)
  PROVE  IndInv'
<1> DEFINE ch == chan[r]
<1> USE DEF IndInv
<1>1. ch \in Channels /\ mutex = r /\ ch \in ring /\ ch \notin registered
  BY DEF UnwindLive, TypeOK, MutexHolder, HandlerChannel, StartPlaces
<1>2. /\ Forget(ch) /\ Return(r) /\ UNCHANGED <<engine, registered>>
  BY DEF UnwindLive
<1>3. /\ mutex' \in Callers \cup {NoCaller, Main}
      /\ pc' \in [Callers -> Places]
      /\ op' \in [Callers -> Operations \cup {"none"}]
      /\ chan' \in [Callers -> Channels]
      /\ \A q \in Callers : pc'[q] \notin Inside
      /\ MutexHolder' /\ JoinedStays'
  BY <1>1, <1>2, ReturnMoves
<1>4. Joined(renderer[ch].thread)
  BY DEF UnwindLive, JoinedStays
<1>5. \A s \in Slots : Joined(producer[ch][s].thread)
  BY <1>1 DEF UnwindLive, PreviewIsRegistered, Slots
<1>6. /\ ring' \subseteq Channels
      /\ depth' \in [Channels -> 0 .. Capacity]
      /\ control' \in [Channels -> {"Idle", "Buffering", "Playing"}]
      /\ producer' \in [Channels -> [Slots -> ProducerType]]
      /\ renderer' \in [Channels -> RendererType]
      /\ ProducersSound'
      /\ Joined(renderer'[ch].thread) /\ \A s \in Slots : Joined(producer'[ch][s].thread)
      /\ \A c \in Channels \ {ch} :
           renderer'[c] = renderer[c] /\ producer'[c] = producer[c]
  BY <1>1, <1>2, <1>4, <1>5, ForgetJoined
<1>7. ring' = ring \ {ch}
  BY <1>2 DEF Forget
<1>8. TypeOK'
  BY <1>2, <1>3, <1>6 DEF TypeOK
<1>9. HandlerChannel'
  BY <1>3 DEF HandlerChannel, Inside
<1>10. PreviewIsRegistered'
  BY <1>2, <1>6 DEF PreviewIsRegistered, Slots
<1>11. NoThreadOutlivesRing'
  BY <1>6, <1>7 DEF NoThreadOutlivesRing
<1>12. NoOrphanChannel'
  <2>1. \A c \in ring \ registered : c = ch
    BY <1>1 DEF NoOrphanChannel
  <2>2. QED BY <1>1, <1>2, <1>7, <2>1 DEF NoOrphanChannel
<1>13. QED BY <1>3, <1>6, <1>8, <1>9, <1>10, <1>11, <1>12

\* What the handlers of a registered channel have in common: they end a step
\* inside, with every thread where it was, or joined.
LEMMA RegisteredMoves ==
  ASSUME IndInv, NEW r \in Callers, NEW at \in OtherPlaces,
         mutex \in {r, NoCaller}, mutex' = r, Goto(r, at),
         chan[r] \in registered,
         UNCHANGED <<engine, registered, ring, depth>>,
         control' \in [Channels -> {"Idle", "Buffering", "Playing"}],
         producer' \in [Channels -> [Slots -> ProducerType]],
         renderer' \in [Channels -> RendererType],
         ProducersSound',
         \A c \in Channels, t \in Slots : producer'[c][t].thread = producer[c][t].thread,
         \A c \in Channels : Joined(renderer[c].thread) => Joined(renderer'[c].thread),
         at \in {"stopLive", "stopPreview"} => Joined(renderer'[chan[r]].thread),
         at = "stopPreview" => Joined(producer'[chan[r]]["live"].thread)
  PROVE  IndInv'
<1> USE DEF IndInv
<1>1. at \in Inside
  BY DEF Inside
<1>2. /\ mutex' \in Callers \cup {NoCaller, Main}
      /\ pc' \in [Callers -> Places]
      /\ op' \in [Callers -> Operations \cup {"none"}]
      /\ chan' \in [Callers -> Channels]
      /\ pc'[r] = at /\ chan' = chan /\ Alone(r)' /\ MutexHolder'
  BY <1>1, EnterMoves
<1>3. TypeOK'
  BY <1>2 DEF TypeOK
<1>4. HandlerChannel'
  BY <1>2 DEF HandlerChannel, Alone, Inside, StartPlaces, OtherPlaces
<1>5. PreviewIsRegistered'
  BY DEF PreviewIsRegistered, Slots
<1>6. JoinedStays'
  BY <1>2 DEF JoinedStays, Alone, Inside, StartPlaces, OtherPlaces
<1>7. NoThreadOutlivesRing'
  BY DEF NoThreadOutlivesRing
<1>8. NoOrphanChannel'
  <2>1. ring \ registered = {}
    <3> SUFFICES ASSUME NEW c \in ring \ registered PROVE FALSE
      OBVIOUS
    <3>1. PICK q \in Callers : /\ mutex = q /\ chan[q] = c
                               /\ pc[q] \in {"poll", "publish", "unwindRenderer", "unwindLive"}
      BY DEF NoOrphanChannel
    <3>2. q = r
      BY <3>1, EngineAssumption
    <3>3. QED BY <3>1, <3>2
  <2>2. QED BY <2>1 DEF NoOrphanChannel
<1>9. QED BY <1>2, <1>3, <1>4, <1>5, <1>6, <1>7, <1>8

\* A handler that holds the mutex returns from a step that leaves the set of
\* channels alone.
LEMMA RegisteredReturns ==
  ASSUME IndInv, NEW r \in Callers, mutex \in {r, NoCaller}, Return(r),
         chan[r] \in registered,
         UNCHANGED <<engine, registered, ring, depth, control, renderer>>,
         producer' \in [Channels -> [Slots -> ProducerType]],
         ProducersSound',
         \A c \in Channels \ {chan[r]} : producer'[c] = producer[c]
  PROVE  IndInv'
<1> USE DEF IndInv
<1>1. /\ mutex' \in Callers \cup {NoCaller, Main}
      /\ pc' \in [Callers -> Places]
      /\ op' \in [Callers -> Operations \cup {"none"}]
      /\ chan' \in [Callers -> Channels]
      /\ \A q \in Callers : pc'[q] \notin Inside
      /\ MutexHolder' /\ JoinedStays'
  BY ReturnMoves
<1>2. TypeOK'
  BY <1>1 DEF TypeOK
<1>3. HandlerChannel'
  BY <1>1 DEF HandlerChannel, Inside
<1>4. PreviewIsRegistered'
  BY DEF PreviewIsRegistered
<1>5. registered \subseteq ring
  BY DEF NoOrphanChannel
<1>6. NoThreadOutlivesRing'
  BY <1>5 DEF NoThreadOutlivesRing
<1>7. NoOrphanChannel'
  <2>1. ring \ registered = {}
    <3> SUFFICES ASSUME NEW c \in ring \ registered PROVE FALSE
      OBVIOUS
    <3>1. PICK q \in Callers : /\ mutex = q /\ chan[q] = c
                               /\ pc[q] \in {"poll", "publish", "unwindRenderer", "unwindLive"}
      BY DEF NoOrphanChannel
    <3>2. q = r
      BY <3>1, EngineAssumption
    <3>3. QED BY <3>1, <3>2
  <2>2. QED BY <1>5, <2>1 DEF NoOrphanChannel
<1>8. QED BY <1>1, <1>2, <1>3, <1>4, <1>6, <1>7

\* The stop begins: the renderer is told to stop.
LEMMA StopChannelKeepsInv ==
  ASSUME IndInv, NEW r \in Callers, StopChannel(r)
  PROVE  IndInv'
<1> DEFINE ch == chan[r]
           q == [renderer[ch] EXCEPT !.stop = TRUE]
<1>1. ch \in Channels /\ mutex = NoCaller
  BY DEF StopChannel, Locks, IndInv, TypeOK
<1>2. CASE ReturnAtOnce(r)
  BY <1>1, <1>2, ReturnAtOnceKeepsInv
<1>3. CASE /\ ch \in registered
           /\ control' = [control EXCEPT ![ch] = "Idle"]
           /\ renderer' = [renderer EXCEPT ![ch].stop = TRUE]
           /\ Enter(r, "stopRenderer")
           /\ UNCHANGED <<engine, registered, ring, depth, producer>>
  <2>1. renderer[ch] \in RendererType
    BY <1>1 DEF IndInv, TypeOK
  <2>2. q \in RendererType /\ q.thread = renderer[ch].thread
    BY <2>1 DEF RendererType
  <2>3. renderer' = [renderer EXCEPT ![ch] = q]
    BY <1>3
  <2>4. /\ renderer' \in [Channels -> RendererType]
        /\ \A c \in Channels : renderer'[c].thread = renderer[c].thread
    BY <1>1, <2>2, <2>3, RendererUpdate DEF IndInv
  <2>5. control' \in [Channels -> {"Idle", "Buffering", "Playing"}]
    BY <1>3 DEF IndInv, TypeOK
  <2>6. producer' \in [Channels -> [Slots -> ProducerType]] /\ ProducersSound'
    BY <1>3 DEF IndInv, TypeOK, ProducersSound
  <2>7. mutex' = r /\ Goto(r, "stopRenderer") /\ "stopRenderer" \in OtherPlaces
    BY <1>3 DEF Enter, OtherPlaces
  <2>8. \A c \in Channels, t \in Slots : producer'[c][t].thread = producer[c][t].thread
    BY <1>3
  <2>9. QED BY <1>1, <1>3, <2>4, <2>5, <2>6, <2>7, <2>8, RegisteredMoves
<1>4. QED BY <1>2, <1>3 DEF StopChannel

\* The render thread is joined and the live producer told to tear down.
LEMMA StopRendererKeepsInv ==
  ASSUME IndInv, NEW r \in Callers, StopRenderer(r)
  PROVE  IndInv'
<1> DEFINE ch == chan[r]
<1> USE DEF IndInv
<1>1. ch \in Channels /\ mutex = r /\ ch \in registered
  BY DEF StopRenderer, TypeOK, MutexHolder, HandlerChannel, OtherPlaces
<1>2. /\ renderer' = [renderer EXCEPT ![ch] = NoRenderer]
      /\ RequestTeardown(ch, "live") /\ Goto(r, "stopLive")
      /\ UNCHANGED <<engine, mutex, registered, ring, depth, control>>
  BY DEF StopRenderer
<1>3. "stopLive" \in OtherPlaces /\ "live" \in Slots
  BY DEF OtherPlaces, Slots
<1>4. /\ producer' \in [Channels -> [Slots -> ProducerType]]
      /\ ProducersSound'
      /\ \A c \in Channels, t \in Slots : producer'[c][t].thread = producer[c][t].thread
  BY <1>1, <1>2, <1>3, TeardownRequested
<1>5. NoRenderer \in RendererType /\ Joined(NoRenderer.thread)
  BY DEF NoRenderer, RendererType, Joined
<1>6. /\ renderer' \in [Channels -> RendererType]
      /\ renderer'[ch] = NoRenderer
      /\ \A c \in Channels : c # ch => renderer'[c] = renderer[c]
  BY <1>1, <1>2, <1>5, RendererUpdate
<1>7. control' \in [Channels -> {"Idle", "Buffering", "Playing"}]
  BY <1>2 DEF TypeOK
<1>8. QED BY <1>1, <1>2, <1>3, <1>4, <1>5, <1>6, <1>7, RegisteredMoves

\* The switch begins: the live producer is told to tear down.
LEMMA SwitchToLiveKeepsInv ==
  ASSUME IndInv, NEW r \in Callers, SwitchToLive(r)
  PROVE  IndInv'
<1> DEFINE ch == chan[r]
<1>1. ch \in Channels /\ mutex = NoCaller
  BY DEF SwitchToLive, Locks, IndInv, TypeOK
<1>2. CASE ReturnAtOnce(r)
  BY <1>1, <1>2, ReturnAtOnceKeepsInv
<1>3. CASE /\ ch \in registered
           /\ RequestTeardown(ch, "live")
           /\ Enter(r, "switchLive")
           /\ UNCHANGED <<engine, registered, ring, depth, control, renderer>>
  <2>1. "switchLive" \in OtherPlaces /\ "live" \in Slots
    BY DEF OtherPlaces, Slots
  <2>2. /\ producer' \in [Channels -> [Slots -> ProducerType]]
        /\ ProducersSound'
        /\ \A c \in Channels, t \in Slots : producer'[c][t].thread = producer[c][t].thread
    BY <1>1, <1>3, <2>1, TeardownRequested DEF IndInv
  <2>3. /\ control' \in [Channels -> {"Idle", "Buffering", "Playing"}]
        /\ renderer' \in [Channels -> RendererType]
    BY <1>3 DEF IndInv, TypeOK
  <2>4. mutex' = r /\ Goto(r, "switchLive")
    BY <1>3 DEF Enter
  <2>5. QED BY <1>1, <1>3, <2>1, <2>2, <2>3, <2>4, RegisteredMoves
<1>4. QED BY <1>2, <1>3 DEF SwitchToLive

\* A new preview starts in the place of one whose thread is joined, or of none.
LEMMA NewPreviewKeepsInv ==
  ASSUME IndInv, NEW r \in Callers, mutex \in {r, NoCaller},
         chan[r] \in registered, NewPreview(r, chan[r])
  PROVE  IndInv'
<1> DEFINE ch == chan[r]
<1>1. ch \in Channels /\ "preview" \in Slots
  BY DEF IndInv, TypeOK, Slots
<1>2. PICK p \in {StartedProducer, ThreadlessProducer} :
        producer' = [producer EXCEPT ![ch]["preview"] = p]
  BY DEF NewPreview
<1>3. p \in ProducerType /\ ProducerSound(p)
  <2>1. StartedProducer \in ProducerType /\ ProducerSound(StartedProducer)
    BY DEF StartedProducer, NoProducer, ProducerType, ProducerSound
  <2>2. ThreadlessProducer \in ProducerType /\ ProducerSound(ThreadlessProducer)
    BY DEF ThreadlessProducer, NoProducer, ProducerType, ProducerSound
  <2>3. QED BY <1>2, <2>1, <2>2
<1>4. /\ producer' \in [Channels -> [Slots -> ProducerType]]
      /\ producer'[ch]["preview"] = p
      /\ \A c \in Channels, t \in Slots :
           c # ch \/ t # "preview" => producer'[c][t] = producer[c][t]
  BY <1>1, <1>2, <1>3, ProducerUpdate DEF IndInv
<1>5. ProducersSound'
  BY <1>3, <1>4 DEF IndInv, ProducersSound
<1>6. \A c \in Channels \ {ch} : producer'[c] = producer[c]
  BY <1>2 DEF IndInv, TypeOK
<1>7. Return(r) /\ UNCHANGED <<engine, registered, ring, depth, control, renderer>>
  BY DEF NewPreview
<1>8. QED BY <1>4, <1>5, <1>6, <1>7, RegisteredReturns

\* Loading a preview, or first stopping the one it replaces.
LEMMA LoadPreviewKeepsInv ==
  ASSUME IndInv, NEW r \in Callers, LoadPreview(r)
  PROVE  IndInv'
<1> DEFINE ch == chan[r]
<1>1. ch \in Channels /\ mutex = NoCaller
  BY DEF LoadPreview, Locks, IndInv, TypeOK
<1>2. CASE ReturnAtOnce(r)
  BY <1>1, <1>2, ReturnAtOnceKeepsInv
<1>3. CASE ch \in registered /\ NewPreview(r, ch)
  BY <1>1, <1>3, NewPreviewKeepsInv
<1>4. CASE /\ ch \in registered
           /\ RequestStop(ch, "preview")
           /\ Enter(r, "replacePreview")
           /\ UNCHANGED <<engine, registered, ring, depth, control, renderer>>
  <2>1. "replacePreview" \in OtherPlaces /\ "preview" \in Slots
    BY DEF OtherPlaces, Slots
  <2>2. /\ producer' \in [Channels -> [Slots -> ProducerType]]
        /\ ProducersSound'
        /\ \A c \in Channels, t \in Slots : producer'[c][t].thread = producer[c][t].thread
    BY <1>1, <1>4, <2>1, StopRequested DEF IndInv
  <2>3. /\ control' \in [Channels -> {"Idle", "Buffering", "Playing"}]
        /\ renderer' \in [Channels -> RendererType]
    BY <1>4 DEF IndInv, TypeOK
  <2>4. mutex' = r /\ Goto(r, "replacePreview")
    BY <1>4 DEF Enter
  <2>5. QED BY <1>1, <1>4, <2>1, <2>2, <2>3, <2>4, RegisteredMoves
<1>5. QED BY <1>2, <1>3, <1>4 DEF LoadPreview

\* The replaced preview is gone and the new one starts.
LEMMA ReplacePreviewKeepsInv ==
  ASSUME IndInv, NEW r \in Callers, ReplacePreview(r)
  PROVE  IndInv'
<1>1. mutex = r /\ chan[r] \in registered
  BY DEF IndInv, ReplacePreview, MutexHolder, HandlerChannel, OtherPlaces
<1>2. QED BY <1>1, NewPreviewKeepsInv DEF ReplacePreview

\* A step that changes nothing.
LEMMA StutterKeepsInv ==
  ASSUME IndInv, UNCHANGED vars
  PROVE  IndInv'
<1> USE DEF IndInv, vars, callerVars
<1>1. TypeOK' /\ MutexHolder' /\ HandlerChannel'
  BY DEF TypeOK, MutexHolder, HandlerChannel
<1>2. ProducersSound' /\ PreviewIsRegistered' /\ JoinedStays'
  BY DEF ProducersSound, PreviewIsRegistered, JoinedStays
<1>3. NoThreadOutlivesRing' /\ NoOrphanChannel'
  BY DEF NoThreadOutlivesRing, NoOrphanChannel
<1>4. QED BY <1>1, <1>2, <1>3

\* The last step of a stop: what is not running has no thread, so every thread
\* of the channel is joined when its ring goes.
LEMMA StopEndsKeepsInv ==
  ASSUME IndInv, NEW r \in Callers, pc[r] \in {"stopLive", "stopPreview"},
         \A s \in Slots : Joined(producer[chan[r]][s].thread),
         Forget(chan[r]), registered' = registered \ {chan[r]}, Return(r),
         UNCHANGED engine
  PROVE  IndInv'
<1> DEFINE ch == chan[r]
<1> USE DEF IndInv
<1>1. ch \in Channels /\ mutex = r /\ ch \in registered
  BY DEF TypeOK, MutexHolder, HandlerChannel, OtherPlaces
<1>2. /\ mutex' \in Callers \cup {NoCaller, Main}
      /\ pc' \in [Callers -> Places]
      /\ op' \in [Callers -> Operations \cup {"none"}]
      /\ chan' \in [Callers -> Channels]
      /\ \A q \in Callers : pc'[q] \notin Inside
      /\ MutexHolder' /\ JoinedStays'
  BY <1>1, ReturnMoves
<1>3. Joined(renderer[ch].thread)
  BY DEF JoinedStays
<1>4. /\ ring' \subseteq Channels
      /\ depth' \in [Channels -> 0 .. Capacity]
      /\ control' \in [Channels -> {"Idle", "Buffering", "Playing"}]
      /\ producer' \in [Channels -> [Slots -> ProducerType]]
      /\ renderer' \in [Channels -> RendererType]
      /\ ProducersSound'
      /\ Joined(renderer'[ch].thread) /\ \A s \in Slots : Joined(producer'[ch][s].thread)
      /\ \A c \in Channels \ {ch} :
           renderer'[c] = renderer[c] /\ producer'[c] = producer[c]
  BY <1>1, <1>3, ForgetJoined
<1>5. ring' = ring \ {ch}
  BY DEF Forget
<1>6. TypeOK'
  BY <1>2, <1>4 DEF TypeOK
<1>7. HandlerChannel'
  BY <1>2 DEF HandlerChannel, Inside
<1>8. PreviewIsRegistered'
  BY <1>4 DEF PreviewIsRegistered, Slots
<1>9. NoThreadOutlivesRing'
  BY <1>4, <1>5 DEF NoThreadOutlivesRing
<1>10. NoOrphanChannel'
  <2>1. ring \ registered = {}
    <3> SUFFICES ASSUME NEW c \in ring \ registered PROVE FALSE
      OBVIOUS
    <3>1. PICK q \in Callers : /\ mutex = q /\ chan[q] = c
                               /\ pc[q] \in {"poll", "publish", "unwindRenderer", "unwindLive"}
      BY DEF NoOrphanChannel
    <3>2. q = r
      BY <1>1, <3>1
    <3>3. QED BY <3>1, <3>2
  <2>2. registered \subseteq ring
    BY DEF NoOrphanChannel
  <2>3. QED BY <1>5, <2>1, <2>2 DEF NoOrphanChannel
<1>11. QED BY <1>2, <1>4, <1>6, <1>7, <1>8, <1>9, <1>10

\* The loops that sleep while a producer runs, and what follows each.
LEMMA AwaitNotRunningKeepsInv ==
  ASSUME IndInv, NEW r \in Callers, AwaitNotRunning(r)
  PROVE  IndInv'
<1> DEFINE ch == chan[r]
           slot == IF pc[r] = "stopPreview" THEN "preview" ELSE "live"
<1>1. /\ ch \in Channels /\ mutex = r /\ ch \in registered
      /\ slot \in Slots /\ "live" \in Slots /\ "preview" \in Slots
  BY DEF IndInv, AwaitNotRunning, TypeOK, MutexHolder, HandlerChannel, OtherPlaces, Slots
<1>2. CASE producer[ch][slot].running
  BY <1>2, StutterKeepsInv DEF AwaitNotRunning
<1>3. ASSUME ~producer[ch][slot].running PROVE Joined(producer[ch][slot].thread)
  BY <1>1, <1>3 DEF IndInv, ProducersSound, ProducerSound, Joined
<1>4. CASE ~producer[ch][slot].running /\ pc[r] = "switchLive"
  <2> DEFINE q == [producer[ch] EXCEPT !["live"] = producer[ch]["preview"],
                                       !["preview"] = NoProducer]
  <2>1. /\ producer' = [producer EXCEPT ![ch]["live"] = producer[ch]["preview"],
                                        ![ch]["preview"] = NoProducer]
        /\ Return(r)
        /\ UNCHANGED <<engine, registered, ring, depth, control, renderer>>
    BY <1>4 DEF AwaitNotRunning
  <2>2. NoProducer \in ProducerType /\ ProducerSound(NoProducer)
    BY DEF NoProducer, ProducerType, ProducerSound
  <2>3. producer \in [Channels -> [Slots -> ProducerType]]
    BY DEF IndInv, TypeOK
  <2>4. /\ q \in [Slots -> ProducerType]
        /\ q["live"] = producer[ch]["preview"] /\ q["preview"] = NoProducer
    BY <1>1, <2>2, <2>3
  <2>5. producer' = [producer EXCEPT ![ch] = q]
    BY <1>1, <2>1, <2>3
  <2> HIDE DEF q
  <2>6. /\ producer' \in [Channels -> [Slots -> ProducerType]]
        /\ producer'[ch] = q
        /\ \A c \in Channels \ {ch} : producer'[c] = producer[c]
    BY <1>1, <2>3, <2>4, <2>5
  <2>7. ProducersSound'
    BY <1>1, <2>2, <2>4, <2>6 DEF IndInv, ProducersSound, Slots
  <2>8. QED BY <1>1, <2>1, <2>6, <2>7, RegisteredReturns
<1>5. CASE /\ ~producer[ch][slot].running
           /\ pc[r] = "stopLive" /\ producer[ch]["preview"] # NoProducer
  <2>1. /\ RequestTeardown(ch, "preview") /\ Goto(r, "stopPreview")
        /\ UNCHANGED <<engine, mutex, registered, ring, depth, control, renderer>>
    BY <1>5 DEF AwaitNotRunning
  <2>2. /\ producer' \in [Channels -> [Slots -> ProducerType]]
        /\ ProducersSound'
        /\ \A c \in Channels, t \in Slots : producer'[c][t].thread = producer[c][t].thread
    BY <1>1, <2>1, TeardownRequested DEF IndInv
  <2>3. /\ control' \in [Channels -> {"Idle", "Buffering", "Playing"}]
        /\ renderer' \in [Channels -> RendererType]
    BY <2>1 DEF IndInv, TypeOK
  <2>4. Joined(renderer'[ch].thread) /\ Joined(producer'[ch]["live"].thread)
    BY <1>1, <1>3, <1>5, <2>1, <2>2 DEF IndInv, JoinedStays
  <2>5. "stopPreview" \in OtherPlaces
    BY DEF OtherPlaces
  <2>6. QED BY <1>1, <2>1, <2>2, <2>3, <2>4, <2>5, RegisteredMoves
<1>6. CASE /\ ~producer[ch][slot].running
           /\ \/ pc[r] = "stopLive" /\ producer[ch]["preview"] = NoProducer
              \/ pc[r] = "stopPreview"
  <2>1. /\ Forget(ch) /\ registered' = registered \ {ch} /\ Return(r)
        /\ UNCHANGED engine
    BY <1>6 DEF AwaitNotRunning
  <2>2. Joined(NoProducer.thread)
    BY DEF NoProducer, Joined
  <2>3. \A s \in Slots : Joined(producer[ch][s].thread)
    BY <1>3, <1>6, <2>2 DEF IndInv, JoinedStays, Slots
  <2>4. QED BY <1>6, <2>1, <2>3, StopEndsKeepsInv
<1>7. QED BY <1>2, <1>4, <1>5, <1>6 DEF AwaitNotRunning

\* Requests, and the engine's destructor.
LEMMA OutsideKeepsInv ==
  ASSUME IndInv, DestroyerHolds,
         \/ \E r \in Callers, o \in Operations, ch \in Channels : Request(r, o, ch)
         \/ DestroyEngine
         \/ DestroyChannels
  PROVE  IndInv'
<1> USE DEF IndInv
<1>1. CASE \E r \in Callers, o \in Operations, ch \in Channels : Request(r, o, ch)
  <2>1. PICK r \in Callers, o \in Operations, ch \in Channels : Request(r, o, ch)
    BY <1>1
  <2>2. /\ pc \in [Callers -> Places] /\ "lock" \in Places
        /\ pc' = [pc EXCEPT ![r] = "lock"]
        /\ chan' = [chan EXCEPT ![r] = ch] /\ op' = [op EXCEPT ![r] = o]
        /\ UNCHANGED <<engine, mutex, registered, ring, depth, control, producer, renderer>>
    BY <2>1 DEF Request, TypeOK, Places
  <2>3. TypeOK'
    BY <2>2 DEF TypeOK
  <2>4. /\ pc[r] = "idle" /\ pc'[r] = "lock"
        /\ \A q \in Callers \ {r} : pc'[q] = pc[q] /\ chan'[q] = chan[q]
    BY <2>1, <2>2 DEF Request, TypeOK
  <2>5. MutexHolder' /\ HandlerChannel' /\ JoinedStays'
    BY <2>2, <2>4 DEF MutexHolder, HandlerChannel, JoinedStays, StartPlaces, OtherPlaces
  <2>6. NoOrphanChannel'
    <3> SUFFICES ASSUME NEW c \in ring \ registered
                 PROVE  \E q \in Callers :
                          /\ mutex = q /\ chan'[q] = c
                          /\ pc'[q] \in {"poll", "publish", "unwindRenderer", "unwindLive"}
      BY <2>2 DEF NoOrphanChannel
    <3>1. PICK q \in Callers : /\ mutex = q /\ chan[q] = c
                               /\ pc[q] \in {"poll", "publish", "unwindRenderer", "unwindLive"}
      BY DEF NoOrphanChannel
    <3>2. QED BY <2>4, <3>1
  <2>7. ProducersSound' /\ PreviewIsRegistered' /\ NoThreadOutlivesRing'
    BY <2>2 DEF ProducersSound, PreviewIsRegistered, NoThreadOutlivesRing
  <2>8. QED BY <2>3, <2>5, <2>6, <2>7
<1>2. CASE DestroyEngine \/ DestroyChannels
  <2>1. /\ UNCHANGED <<pc, op, chan, registered, ring, depth, control, producer, renderer>>
        /\ engine' \in {"destroying", "gone"} /\ mutex' \in {Main, NoCaller}
    BY <1>2 DEF DestroyEngine, DestroyChannels, callerVars
  <2>2. mutex \notin Callers
    BY <1>2, EngineAssumption DEF DestroyEngine, DestroyChannels, DestroyerHolds
  <2>3. TypeOK' /\ MutexHolder' /\ HandlerChannel' /\ JoinedStays'
    BY <2>1, <2>2, EngineAssumption DEF TypeOK, MutexHolder, HandlerChannel, JoinedStays
  <2>4. NoOrphanChannel'
    BY <2>1, <2>2 DEF NoOrphanChannel
  <2>5. ProducersSound' /\ PreviewIsRegistered' /\ NoThreadOutlivesRing'
    BY <2>1 DEF ProducersSound, PreviewIsRegistered, NoThreadOutlivesRing
  <2>6. QED BY <2>3, <2>4, <2>5
<1>3. QED BY <1>1, <1>2

-----------------------------------------------------------------------------
(* Every step, and the theorems.                                           *)

\* A handler runs with the mutex free or its own, and leaves the engine alone.
LEMMA HandlerKeepsDestroyer ==
  ASSUME MutexHolder, DestroyerHolds, NEW r \in Callers, Handler(r)
  PROVE  DestroyerHolds'
<1> USE DEF DestroyerHolds
<1>1. CASE UNCHANGED vars
  BY <1>1 DEF vars
<1>2. CASE mutex = NoCaller /\ engine' = engine
  BY <1>2, EngineAssumption
<1>3. CASE mutex = r /\ engine' = engine
  BY <1>3, EngineAssumption
<1>4. CASE StartChannel(r) \/ StopChannel(r) \/ SwitchToLive(r) \/ LoadPreview(r) \/ UpdatePlan(r)
  BY <1>2, <1>4 DEF StartChannel, StopChannel, SwitchToLive, LoadPreview, UpdatePlan,
                    Locks, ReturnAtOnce, NewPreview
<1>5. CASE PollDepth(r) \/ Publish(r) \/ UnwindRenderer(r) \/ UnwindLive(r)
  BY <1>3, <1>5 DEF PollDepth, Publish, UnwindRenderer, UnwindLive, MutexHolder, StartPlaces
<1>6. CASE StopRenderer(r) \/ AwaitNotRunning(r) \/ ReplacePreview(r)
  <2>1. mutex = r
    BY <1>6 DEF StopRenderer, AwaitNotRunning, ReplacePreview, MutexHolder, OtherPlaces
  <2>2. engine' = engine
    BY <1>6 DEF StopRenderer, AwaitNotRunning, ReplacePreview, NewPreview, vars
  <2>3. QED BY <1>3, <2>1, <2>2
<1>7. QED BY <1>4, <1>5, <1>6 DEF Handler

\* Every step keeps the invariant.
LEMMA StepEngineInv == EngineInv /\ [Next]_vars => EngineInv'
<1> SUFFICES ASSUME EngineInv, [Next]_vars PROVE EngineInv'
  OBVIOUS
<1> USE DEF EngineInv
<1>1. ASSUME NEW r \in Callers, Serve(r) PROVE EngineInv'
  <2>1. MutexHolder /\ Handler(r)
    BY <1>1 DEF Serve, IndInv
  <2>2. ASSUME UpdatePlan(r) PROVE IndInv'
    BY <2>2, ReturnAtOnceKeepsInv DEF UpdatePlan, Locks
  <2>3. IndInv'
    BY <2>1, <2>2, StartChannelKeepsInv, PollDepthKeepsInv, PublishKeepsInv,
       UnwindRendererKeepsInv, UnwindLiveKeepsInv, StopChannelKeepsInv,
       StopRendererKeepsInv, AwaitNotRunningKeepsInv, SwitchToLiveKeepsInv,
       LoadPreviewKeepsInv, ReplacePreviewKeepsInv DEF Handler
  <2>4. QED BY <2>1, <2>3, HandlerKeepsDestroyer
<1>2. CASE \/ \E r \in Callers, o \in Operations, ch \in Channels : Request(r, o, ch)
           \/ DestroyEngine
           \/ DestroyChannels
  <2>1. IndInv'
    BY <1>2, OutsideKeepsInv
  <2>2. DestroyerHolds'
    BY <1>2 DEF DestroyerHolds, Request, DestroyEngine, DestroyChannels
  <2>3. QED BY <2>1, <2>2
<1>3. ASSUME NEW ch \in Channels, Render(ch) PROVE EngineInv'
  <2>1. IndInv'
    BY <1>3, RenderKeepsInv DEF Render
  <2>2. DestroyerHolds'
    BY <1>3 DEF DestroyerHolds, Render, RenderLoop, RenderTest, RenderPop, RenderFrame
  <2>3. QED BY <2>1, <2>2
<1>4. ASSUME NEW ch \in Channels, NEW s \in Slots, Decode(ch, s) PROVE EngineInv'
  <2>1. IndInv'
    BY <1>4, TestFlagsKeepsInv, ProduceFrameKeepsInv DEF Decode, ProduceLoop
  <2>2. DestroyerHolds'
    BY <1>4 DEF DestroyerHolds, Decode, ProduceLoop, TestFlags, ProduceFrame
  <2>3. QED BY <2>1, <2>2
<1>5. CASE UNCHANGED vars
  <2>1. DestroyerHolds'
    BY <1>5 DEF vars, DestroyerHolds
  <2>2. QED BY <1>5, <2>1, StutterKeepsInv
<1>6. QED BY <1>1, <1>2, <1>3, <1>4, <1>5 DEF Next

\* Whatever the threads and handlers do, the channel map, the threads and the
\* rings stay within their domains.
THEOREM TypeCorrect == Spec => []TypeOK
<1>1. EngineInv => TypeOK
  BY DEF EngineInv, IndInv
<1>2. QED BY <1>1, InitEngineInv, StepEngineInv, PTL DEF Spec

\* A frame buffer is destroyed only after the decode and render threads that
\* hold references to it have been joined, on every path of StartChannel,
\* StopChannel, LoadPreview and SwitchToLive.
THEOREM ThreadsEndFirst == Spec => []NoThreadOutlivesRing
<1>1. EngineInv => NoThreadOutlivesRing
  BY DEF EngineInv, IndInv
<1>2. QED BY <1>1, InitEngineInv, StepEngineInv, PTL DEF Spec

\* A start that fails leaves nothing behind: an unregistered channel belongs to
\* the StartChannel that holds channels_mutex_.
THEOREM NoOrphans == Spec => []NoOrphanChannel
<1>1. EngineInv => NoOrphanChannel
  BY DEF EngineInv, IndInv
<1>2. QED BY <1>1, InitEngineInv, StepEngineInv, PTL DEF Spec

\* After RequestTeardown a producer pushes at most the frame it was decoding.
THEOREM AtMostOneLateFrame == Spec => []OneLateFrame
<1>1. EngineInv => OneLateFrame
  BY DEF EngineInv, IndInv, ProducersSound, ProducerSound, OneLateFrame
<1>2. QED BY <1>1, InitEngineInv, StepEngineInv, PTL DEF Spec
=============================================================================
