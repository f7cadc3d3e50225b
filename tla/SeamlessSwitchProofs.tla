--------------------------- MODULE SeamlessSwitchProofs ---------------------------
(***************************************************************************)
(* Proofs about SeamlessSwitch for any number of producers, frames and ring *)
(* slots, any PTS in the files and any frame interval.  The checked         *)
(* properties speak of single moments; what carries them through a slot     *)
(* operation is what each producer's record says by itself (Sound), who     *)
(* owns a running decode thread (Owned), which slot is filled or joined at  *)
(* which step of the control thread (ControlPath), and what a preview is    *)
(* until it leaves shadow mode and until it is aligned (PreviewHidden,      *)
(* PreviewCounted).                                                         *)
(***************************************************************************)
EXTENDS SeamlessSwitch, TLAPS

Record ==
  [state: {"NONE", "RUNNING", "STOPPING", "STOPPED", "DESTROYED"},
   stop: BOOLEAN, teardown: BOOLEAN, shadow: BOOLEAN, ready: BOOLEAN,
   thread: Threads, mode: {"stub", "real"}, decoder: {"open", "closed"},
   last: Int, offset: Int, count: 0 .. MaxFrames, frame: Int, target: Int,
   aligned: BOOLEAN, gap: Int]

Typed ==
  /\ producer \in [Producers -> Record]
  /\ created \in 0 .. Loads
  /\ preview \in 0 .. created /\ live \in 0 .. created
  /\ control \in [at: Steps, then: Steps, target: Int]
  /\ depth \in 0 .. Capacity

-----------------------------------------------------------------------------
(* One producer.                                                           *)

Runs(q) == q.thread \notin {"none", "exited"}
Unstopped(q) == q.state \in {"RUNNING", "STOPPING"}

\* A thread past its test of the shadow flag holds a frame for the ring.
PastShadow(q) == q.thread = "push" \/ (q.mode = "real" /\ q.thread = "wait")

\* The number, and so the PTS without the offset, of a stub's next stamped frame.
StubUpcoming(q) == IF q.thread = "stamp" THEN q.frame ELSE StubPts(q.count)

\* Between AlignPTS and the next stamp: a file's frame in hand misses the target as far
\* as it lies from its predecessor, less an interval; before it is read, what it will
\* be measured from lies an interval before the target.
OnTarget(q) ==
  q.aligned =>
    /\ q.thread # "init"
    /\ q.mode = "real" /\ q.thread = "stamp" => q.frame + q.offset - q.target = q.gap - Interval
    /\ q.mode = "real" /\ q.thread # "stamp" => q.last + q.offset - q.target = -Interval
    /\ q.mode = "stub" => StubUpcoming(q) + q.offset - q.target \in {0, Interval}

\* What a producer's record says at any time.
Sound(q) ==
  /\ Runs(q) => Unstopped(q)
  /\ q.ready \/ q.mode = "stub" => q.thread # "init"
  /\ Runs(q) /\ q.mode = "real" /\ q.thread # "init" => q.decoder = "open"
  /\ q.decoder = "open" => q.mode = "real" /\ q.thread # "init"
  /\ q.shadow => ~PastShadow(q)
  /\ OnTarget(q)

\* Before AlignPTS: a file's last PTS is past 0 once a frame has been made, so that it
\* does not read as "none yet", and is that of the frame in hand; a stub's PTS follow from
\* the number of frames made.
Counted(q) ==
  /\ q.offset = 0 /\ ~q.aligned /\ q.gap = 0
  /\ q.mode = "real" =>
       /\ q.last >= 0
       /\ q.ready \/ q.thread \in {"stamp", "shadow", "cache"} => q.last > 0
       /\ q.thread = "stamp" => q.frame = q.last
  /\ q.mode = "stub" /\ q.thread = "stamp" =>
       /\ q.count >= 1 /\ q.frame = StubPts(q.count - 1)
       /\ q.last = IF q.count = 1 THEN 0 ELSE StubPts(q.count - 2)
  /\ q.mode = "stub" /\ q.thread # "stamp" =>
       q.last = IF q.count = 0 THEN 0 ELSE StubPts(q.count - 1)
  /\ q.thread \in {"none", "init"} => q.count = 0 /\ q.last = 0

-----------------------------------------------------------------------------
(* The slots and the control thread.                                       *)

\* The control thread is stopping a producer on its way to step s.
Stopping(s) == control.at \in {"stop", "join"} /\ control.then = s

\* Which slot is filled, and whose thread has been joined, at which step.
ControlPath ==
  /\ preview = live => preview = None
  /\ control.at \in {"stop", "join"} =>
       control.then \in {"dropPreview", "promote", "liveGone", "gone"}
  /\ \/ control.at \in {"discard", "discardClear", "dropPreview", "align", "leave",
                        "leaveClear", "promote"}
     \/ Stopping("dropPreview") \/ Stopping("promote")
     => preview # None
  /\ control.at = "create" => preview = None
  /\ control.at = "align" => producer[preview].ready
  /\ control.at = "join" => Victim # None /\ producer[Victim].state = "STOPPING"
  /\ control.at \in {"dropPreview", "gone"} /\ preview # None => ~Unstopped(producer[preview])
  /\ control.at \in {"promote", "liveGone"} /\ live # None => ~Unstopped(producer[live])

\* An unstopped producer is in a slot, and only the one being joined is stopping.
Owned ==
  \A p \in Producers :
    /\ Unstopped(producer[p]) => p \in {preview, live}
    /\ producer[p].state = "STOPPING" => control.at = "join" /\ p = Victim

\* The control thread has cleared, or is about to clear, the preview's flag.
LeavingShadow ==
  \/ control.at \in {"discardClear", "dropPreview", "leaveClear", "promote"}
  \/ Stopping("dropPreview") \/ Stopping("promote")

PreviewHidden == preview # None /\ ~LeavingShadow => producer[preview].shadow

\* AlignPTS has been called on the preview, which is not yet live.
Aligned == control.at \in {"leave", "leaveClear", "promote"} \/ Stopping("promote")

PreviewCounted == preview # None /\ ~Aligned => Counted(producer[preview])

IndInv ==
  /\ Typed
  /\ \A p \in Producers : Sound(producer[p])
  /\ ControlPath /\ Owned /\ PreviewHidden /\ PreviewCounted

USE SwitchAssumption DEF None, Producers

\* Stub frames are spaced by the interval, and only the first has PTS 0.
LEMMA StubSpacing ==
  ASSUME NEW n \in Nat
  PROVE  /\ StubPts(n) \in Int /\ StubPts(n + 1) = StubPts(n) + Interval
         /\ StubPts(0) = 0 /\ StubPts(n) >= 0
<1>1. n * Interval \in Nat /\ (n + 1) * Interval = n * Interval + Interval /\ 0 * Interval = 0
  OBVIOUS
<1> QED
  BY <1>1 DEF StubPts

\* A file's PTS is put past the last one.
LEMMA AssembledAdvances ==
  ASSUME NEW q \in Record, NEW raw \in FilePts
  PROVE  AssembledPts(q, raw) \in Int /\ AssembledPts(q, raw) > q.last
<1>1. raw \in Int /\ q.last \in Int
  BY DEF Record
<1> QED
  BY <1>1 DEF AssembledPts

-----------------------------------------------------------------------------
(* The decode threads.                                                     *)

\* A step of producer p's thread needs to respect no more than this.
Evolves(q, r) ==
  /\ r \in Record
  /\ r.state = q.state /\ r.shadow = q.shadow /\ (q.ready => r.ready)
  /\ Sound(r)
  /\ Counted(q) => Counted(r)

\* A decode thread's step that lets its own record evolve preserves the invariant.
LEMMA ThreadInv ==
  ASSUME IndInv, NEW p \in Producers, NEW r, Evolves(producer[p], r),
         producer' = [producer EXCEPT ![p] = r],
         UNCHANGED slotVars, depth' \in 0 .. Capacity
  PROVE  IndInv'
<1> USE DEF IndInv
<1>1. /\ producer' \in [Producers -> Record]
      /\ producer'[p] = r
      /\ \A s \in Producers \ {p} : producer'[s] = producer[s]
      /\ UNCHANGED <<created, preview, live, control>>
  BY DEF Typed, Evolves, slotVars
<1>2. Typed'
  BY <1>1 DEF Typed
<1>3. \A s \in Producers : /\ producer'[s].state = producer[s].state
                           /\ producer'[s].shadow = producer[s].shadow
                           /\ producer[s].ready => producer'[s].ready
  BY <1>1 DEF Evolves
<1>4. \A s \in Producers : Sound(producer'[s])
  BY <1>1 DEF Evolves
<1>5. (preview # None => preview \in Producers) /\ (live # None => live \in Producers)
  BY DEF Typed
<1>6. ControlPath'
  BY <1>1, <1>3, <1>5 DEF ControlPath, Stopping, Unstopped, Victim
<1>7. Owned'
  BY <1>1, <1>3 DEF Owned, Unstopped, Victim
<1>8. PreviewHidden'
  BY <1>1, <1>3, <1>5 DEF PreviewHidden, LeavingShadow, Stopping
<1>9. PreviewCounted'
  BY <1>1, <1>5 DEF PreviewCounted, Aligned, Stopping, Evolves
<1> QED
  BY <1>2, <1>4, <1>6, <1>7, <1>8, <1>9

\* A step that only goes elsewhere, where nothing stands in the way.
LEMMA GoToEvolves ==
  ASSUME IndInv, NEW p \in Producers, NEW at \in Threads,
         Runs(producer[p]), producer[p].thread \notin {"init", "stamp"},
         at \notin {"none", "init", "stamp", "shadow", "cache"},
         at = "push" => PastShadow(producer[p]),
         at = "wait" => producer[p].mode = "stub"
  PROVE  Evolves(producer[p], [producer[p] EXCEPT !.thread = at])
<1> DEFINE q == producer[p]
           r == [q EXCEPT !.thread = at]
<1>1. q \in Record /\ Sound(q)
  BY DEF IndInv, Typed
<1>2. r \in Record /\ r.thread = at
  BY <1>1 DEF Record
<1>3. /\ r.mode = q.mode /\ r.last = q.last /\ r.count = q.count /\ r.frame = q.frame
      /\ r.offset = q.offset /\ r.target = q.target /\ r.aligned = q.aligned
      /\ r.gap = q.gap /\ r.ready = q.ready
  BY <1>1 DEF Record
<1>4. OnTarget(r)
  BY <1>1, <1>2, <1>3 DEF OnTarget, Sound, StubUpcoming
<1>5. Sound(r)
  BY <1>1, <1>2, <1>4 DEF Sound, Runs, Unstopped, PastShadow, Record
<1>6. Counted(q) => Counted(r)
  BY <1>2, <1>3 DEF Counted, Runs
<1> QED
  BY <1>1, <1>2, <1>5, <1>6 DEF Evolves, Record

\* InitializeDecoder preserves the invariant.
LEMMA InitializeDecoderInv ==
  ASSUME IndInv, NEW p \in Producers, InitializeDecoder(p)
  PROVE  IndInv'
<1> DEFINE q == producer[p]
<1>1. q \in Record /\ Sound(q)
  BY DEF IndInv, Typed
<1>2. depth' \in 0 .. Capacity /\ UNCHANGED slotVars
  BY DEF IndInv, Typed, InitializeDecoder
<1>3. ASSUME q.thread = "init" PROVE q.mode = "real" /\ ~q.aligned
  BY <1>1, <1>3 DEF Sound, OnTarget, Record
<1>4. ASSUME q.thread = "init" PROVE Evolves(q, [q EXCEPT !.thread = "top", !.decoder = "open"])
  <2> DEFINE r == [q EXCEPT !.thread = "top", !.decoder = "open"]
  <2>1. /\ r.state = q.state /\ r.shadow = q.shadow /\ r.ready = q.ready
        /\ r.aligned = q.aligned /\ r.gap = q.gap /\ r.offset = q.offset
        /\ r.count = q.count /\ r.last = q.last /\ r.thread = "top"
        /\ r.decoder = "open" /\ r.mode = q.mode
    BY <1>1 DEF Record
  <2>2. r \in Record
    BY <1>1 DEF Record, Threads
  <2> HIDE DEF r
  <2>3. OnTarget(r)
    BY <1>3, <1>4, <2>1 DEF OnTarget
  <2>4. Sound(r)
    BY <1>1, <1>3, <1>4, <2>1, <2>3 DEF Sound, Runs, Unstopped, PastShadow, Record
  <2>5. Counted(q) => Counted(r)
    BY <1>3, <1>4, <2>1 DEF Counted
  <2>6. Evolves(q, r)
    BY <2>1, <2>2, <2>4, <2>5 DEF Evolves
  <2> QED
    BY <2>6 DEF r
<1>5. ASSUME q.thread = "init" PROVE Evolves(q, [q EXCEPT !.thread = "top", !.mode = "stub"])
  <2> DEFINE r == [q EXCEPT !.thread = "top", !.mode = "stub"]
  <2>1. /\ r.state = q.state /\ r.shadow = q.shadow /\ r.ready = q.ready
        /\ r.aligned = q.aligned /\ r.gap = q.gap /\ r.offset = q.offset
        /\ r.count = q.count /\ r.last = q.last /\ r.thread = "top"
        /\ r.decoder = q.decoder /\ r.mode = "stub"
    BY <1>1 DEF Record
  <2>2. r \in Record
    BY <1>1 DEF Record, Threads
  <2> HIDE DEF r
  <2>3. OnTarget(r)
    BY <1>3, <1>5, <2>1 DEF OnTarget
  <2>4. Sound(r)
    BY <1>1, <1>3, <1>5, <2>1, <2>3 DEF Sound, Runs, Unstopped, PastShadow, Record
  <2>5. Counted(q) => Counted(r)
    BY <1>3, <1>5, <2>1 DEF Counted
  <2>6. Evolves(q, r)
    BY <2>1, <2>2, <2>4, <2>5 DEF Evolves
  <2> QED
    BY <2>6 DEF r
<1> QED
  BY <1>2, <1>4, <1>5, ThreadInv DEF InitializeDecoder, Update

\* ProduceLoop preserves the invariant.
LEMMA ProduceLoopInv ==
  ASSUME IndInv, NEW p \in Producers, ProduceLoop(p)
  PROVE  IndInv'
<1> DEFINE q == producer[p]
<1>1. q \in Record /\ Sound(q) /\ q.thread = "top" /\ Runs(q)
  BY DEF IndInv, Typed, ProduceLoop, Runs
<1>2. depth' \in 0 .. Capacity /\ UNCHANGED slotVars
  BY DEF IndInv, Typed, ProduceLoop
<1>3. ASSUME NEW at \in {"exited", "top", "wait", "decode"}, at = "wait" => q.mode = "stub",
             GoTo(p, at)
      PROVE  IndInv'
  BY <1>1, <1>2, <1>3, GoToEvolves, ThreadInv DEF GoTo, Update, Threads
<1>4. ASSUME Update(p, [q EXCEPT !.thread = "exited", !.stop = TRUE])
      PROVE  IndInv'
  <2> DEFINE e == [q EXCEPT !.thread = "exited"]
             r == [q EXCEPT !.thread = "exited", !.stop = TRUE]
  <2>1. Evolves(q, e)
    BY <1>1, GoToEvolves DEF Threads
  <2>2. r = [e EXCEPT !.stop = TRUE] /\ r \in Record
    BY <1>1 DEF Record, Threads
  <2>3. e \in Record /\ Sound(e) /\ (Counted(q) => Counted(e))
    BY <2>1 DEF Evolves
  <2>4. Sound(r) /\ (Counted(e) => Counted(r))
    BY <1>1, <2>2, <2>3 DEF Sound, Counted, OnTarget, StubUpcoming, Runs, Unstopped,
                       PastShadow, Record
  <2>5. Evolves(q, r)
    BY <2>1, <2>2, <2>3, <2>4 DEF Evolves, Record
  <2> QED
    BY <1>2, <1>4, <2>5, ThreadInv DEF Update
<1> QED
  BY <1>3, <1>4 DEF ProduceLoop

\* WaitForClock preserves the invariant.
LEMMA WaitForClockInv ==
  ASSUME IndInv, NEW p \in Producers, WaitForClock(p)
  PROVE  IndInv'
<1>1. Runs(producer[p]) /\ producer[p].thread = "wait"
  BY DEF WaitForClock, Runs
<1>2. producer[p].mode \in {"stub", "real"}
  BY DEF IndInv, Typed, Record
<1>3. depth' \in 0 .. Capacity /\ UNCHANGED slotVars
  BY DEF IndInv, Typed, WaitForClock
<1>4. PICK at \in {"decode", "push"} : /\ GoTo(p, at)
                                       /\ at = "push" => PastShadow(producer[p])
  BY <1>1, <1>2 DEF WaitForClock, PastShadow
<1> QED
  BY <1>1, <1>3, <1>4, GoToEvolves, ThreadInv DEF GoTo, Update, Threads

\* The record of a producer that has read a frame with the given PTS.
HoldsFrame(q, pts) ==
  [q EXCEPT !.thread = "stamp", !.count = @ + 1, !.last = pts, !.frame = pts,
            !.gap = IF q.aligned THEN pts - q.last ELSE 0]

\* Reading a frame: its distance from the last one is the gap.
LEMMA ReadEvolves ==
  ASSUME IndInv, NEW p \in Producers, producer[p].thread = "decode",
         producer[p].mode = "real", producer[p].count < MaxFrames,
         NEW raw \in FilePts
  PROVE  Evolves(producer[p], HoldsFrame(producer[p], AssembledPts(producer[p], raw)))
<1> DEFINE q == producer[p]
           pts == AssembledPts(q, raw)
           gap == IF q.aligned THEN pts - q.last ELSE 0
           r == HoldsFrame(q, pts)
<1>1. q \in Record /\ Sound(q)
  BY DEF IndInv, Typed
<1>2. /\ q.count \in Int /\ q.last \in Int /\ q.offset \in Int /\ q.target \in Int
      /\ pts \in Int /\ pts > q.last
  BY <1>1, AssembledAdvances DEF Record
<1>3. gap \in Int
  BY <1>2
<1> HIDE DEF q, pts
<1>4. r = [q EXCEPT !.thread = "stamp", !.count = @ + 1, !.last = pts, !.frame = pts, !.gap = gap]
  BY DEF HoldsFrame
<1>5. gap = IF q.aligned THEN pts - q.last ELSE 0
  OBVIOUS
<1> HIDE DEF r, gap
<1>6. /\ r.state = q.state /\ r.shadow = q.shadow /\ r.ready = q.ready
      /\ r.aligned = q.aligned /\ r.offset = q.offset /\ r.target = q.target
      /\ r.decoder = q.decoder /\ r.mode = q.mode
      /\ r.count = q.count + 1 /\ r.thread = "stamp" /\ r.last = pts /\ r.frame = pts
      /\ r.gap = gap
  BY <1>1, <1>4 DEF Record
<1>7. r \in Record
  <2>1. "stamp" \in Threads /\ q.count + 1 \in 0 .. MaxFrames
    BY <1>1 DEF q, Record, Threads
  <2>2. ASSUME NEW s \in Record PROVE [s EXCEPT !.thread = "stamp"] \in Record
    BY <2>1 DEF Record
  <2>3. ASSUME NEW s \in Record PROVE [s EXCEPT !.count = q.count + 1] \in Record
    BY <2>1 DEF Record
  <2>4. ASSUME NEW s \in Record PROVE [s EXCEPT !.last = pts, !.frame = pts] \in Record
    BY <1>2 DEF Record
  <2>5. ASSUME NEW s \in Record PROVE [s EXCEPT !.gap = gap] \in Record
    BY <1>3 DEF Record
  <2>6. r = [[[[q EXCEPT !.thread = "stamp"] EXCEPT !.count = q.count + 1]
                EXCEPT !.last = pts, !.frame = pts] EXCEPT !.gap = gap]
    BY <1>1, <1>4 DEF Record
  <2> QED
    BY <1>1, <2>2, <2>3, <2>4, <2>5, <2>6
<1>8. OnTarget(r)
  BY <1>1, <1>2, <1>5, <1>6 DEF OnTarget, Sound, q
<1>9. Sound(r)
  BY <1>1, <1>6, <1>8 DEF Sound, Runs, Unstopped, PastShadow, q
<1>10. Counted(q) => Counted(r)
  BY <1>1, <1>2, <1>5, <1>6 DEF Counted, q
<1> QED
  BY <1>6, <1>7, <1>9, <1>10 DEF Evolves, q, r, pts

\* Making a stub frame: the hand now holds what StubUpcoming has promised.
LEMMA MakeEvolves ==
  ASSUME IndInv, NEW p \in Producers, producer[p].thread = "decode",
         producer[p].mode = "stub", producer[p].count < MaxFrames,
         NEW r, r = [producer[p] EXCEPT !.thread = "stamp", !.count = @ + 1,
                                        !.frame = StubPts(producer[p].count)]
  PROVE  Evolves(producer[p], r)
<1> DEFINE q == producer[p]
           pts == StubPts(q.count)
<1>1. q \in Record /\ Sound(q) /\ q.count \in Nat
  BY DEF IndInv, Typed, Record
<1>2. pts \in Int
  BY <1>1, StubSpacing
<1> HIDE DEF q, pts
<1>3. r = [q EXCEPT !.thread = "stamp", !.count = @ + 1, !.frame = pts]
  BY DEF q, pts
<1>4. /\ r.state = q.state /\ r.shadow = q.shadow /\ r.ready = q.ready
      /\ r.aligned = q.aligned /\ r.gap = q.gap /\ r.offset = q.offset
      /\ r.target = q.target /\ r.decoder = q.decoder /\ r.mode = q.mode
      /\ r.count = q.count + 1 /\ r.thread = "stamp" /\ r.last = q.last /\ r.frame = pts
  BY <1>1, <1>3 DEF Record
<1>5. r.count \in 0 .. MaxFrames /\ r.thread \in Threads
  BY <1>1, <1>4 DEF q, Record, Threads
<1>6. r \in Record
  BY <1>1, <1>2, <1>3, <1>5 DEF Record
<1>7. OnTarget(r)
  BY <1>1, <1>4 DEF OnTarget, Sound, StubUpcoming, q, pts
<1>8. Sound(r)
  BY <1>1, <1>4, <1>7 DEF Sound, Runs, Unstopped, PastShadow, q
<1>9. Counted(q) => Counted(r)
  BY <1>1, <1>4 DEF Counted, q, pts
<1> QED
  BY <1>4, <1>6, <1>8, <1>9 DEF Evolves, q

\* ReadFrame preserves the invariant.
LEMMA ReadFrameInv ==
  ASSUME IndInv, NEW p \in Producers, ReadFrame(p)
  PROVE  IndInv'
<1>1. depth' \in 0 .. Capacity /\ UNCHANGED slotVars
  BY DEF IndInv, Typed, ReadFrame
<1>2. ASSUME NEW at \in {"exited", "top"}, GoTo(p, at) PROVE IndInv'
  BY <1>1, <1>2, GoToEvolves, ThreadInv DEF ReadFrame, GoTo, Update, Threads, Runs
<1>3. ASSUME producer[p].count < MaxFrames, NEW raw \in FilePts,
             Update(p, HoldsFrame(producer[p], AssembledPts(producer[p], raw)))
      PROVE  IndInv'
  BY <1>1, <1>3, ReadEvolves, ThreadInv DEF ReadFrame, Update
<1> QED
  BY <1>2, <1>3 DEF ReadFrame, HoldsFrame

\* MakeStubFrame preserves the invariant.
LEMMA MakeStubFrameInv ==
  ASSUME IndInv, NEW p \in Producers, MakeStubFrame(p)
  PROVE  IndInv'
<1>1. depth' \in 0 .. Capacity /\ UNCHANGED slotVars
  BY DEF IndInv, Typed, MakeStubFrame
<1>2. CASE GoTo(p, "top")
  BY <1>1, <1>2, GoToEvolves, ThreadInv DEF MakeStubFrame, GoTo, Update, Threads, Runs
<1>3. CASE /\ producer[p].count < MaxFrames
           /\ Update(p, [producer[p] EXCEPT !.thread = "stamp", !.count = @ + 1,
                                            !.frame = StubPts(producer[p].count)])
  BY <1>1, <1>3, MakeEvolves, ThreadInv DEF MakeStubFrame, Update
<1> QED
  BY <1>2, <1>3 DEF MakeStubFrame

\* A stamped record is a record.
LEMMA StampedRecord ==
  ASSUME NEW q \in Record, NEW pts \in Int
  PROVE  [q EXCEPT !.thread = "shadow", !.frame = pts, !.last = pts,
                   !.aligned = FALSE, !.target = 0, !.gap = 0] \in Record
<1>1. ASSUME NEW s \in Record
      PROVE  [s EXCEPT !.thread = "shadow", !.frame = pts, !.last = pts] \in Record
  <2>1. "shadow" \in Threads
    BY DEF Threads
  <2> QED
    BY <2>1 DEF Record
<1>2. ASSUME NEW s \in Record
      PROVE  [s EXCEPT !.aligned = FALSE] \in Record
  BY DEF Record
<1>3. ASSUME NEW s \in Record
      PROVE  [s EXCEPT !.target = 0] \in Record
  BY DEF Record
<1>4. ASSUME NEW s \in Record
      PROVE  [s EXCEPT !.gap = 0] \in Record
  BY DEF Record
<1> QED
  BY <1>1, <1>2, <1>3, <1>4

\* The stamp settles the alignment; until then last_pts_us_ follows the frames.
LEMMA StampFrameInv ==
  ASSUME IndInv, NEW p \in Producers, StampFrame(p)
  PROVE  IndInv'
<1> DEFINE q == producer[p]
           pts == q.frame + q.offset
           r == [q EXCEPT !.thread = "shadow", !.frame = pts, !.last = pts,
                          !.aligned = FALSE, !.target = 0, !.gap = 0]
<1>1. q \in Record /\ Sound(q) /\ q.thread = "stamp"
  BY DEF IndInv, Typed, StampFrame
<1>2. depth' \in 0 .. Capacity /\ UNCHANGED slotVars
  BY DEF IndInv, Typed, StampFrame
<1>3. producer' = [producer EXCEPT ![p] = r]
  BY DEF StampFrame, Update
<1>4. pts \in Int
  BY <1>1 DEF Record
<1> HIDE DEF pts
<1>6. /\ r.state = q.state /\ r.shadow = q.shadow /\ r.ready = q.ready
      /\ r.aligned = FALSE /\ r.gap = 0 /\ r.offset = q.offset
      /\ r.decoder = q.decoder /\ r.mode = q.mode
      /\ r.count = q.count /\ r.thread = "shadow" /\ r.last = pts
  BY <1>1, <1>4 DEF Record
<1>7. r \in Record
  BY <1>1, <1>4, StampedRecord
<1> HIDE DEF r
<1>8. Sound(r)
  BY <1>1, <1>6 DEF Sound, OnTarget, Runs, Unstopped, PastShadow
<1>9. Counted(q) => Counted(r)
  <2>1. q.count \in Int /\ q.offset \in Int /\ q.frame \in Int /\ q.mode \in {"stub", "real"}
    BY <1>1 DEF Record
  <2> QED
    BY <1>1, <1>6, <2>1 DEF Counted, pts
<1>10. Evolves(q, r)
  BY <1>6, <1>7, <1>8, <1>9 DEF Evolves
<1> QED
  BY <1>2, <1>3, <1>10, ThreadInv

\* TestShadow preserves the invariant.
LEMMA TestShadowInv ==
  ASSUME IndInv, NEW p \in Producers, TestShadow(p)
  PROVE  IndInv'
<1> DEFINE q == producer[p]
           at == IF q.shadow THEN "cache" ELSE IF q.mode = "real" THEN "wait" ELSE "push"
           r == [q EXCEPT !.thread = at]
<1>1. q \in Record /\ Sound(q) /\ q.thread = "shadow"
  BY DEF IndInv, Typed, TestShadow
<1>2. depth' \in 0 .. Capacity /\ UNCHANGED slotVars
  BY DEF IndInv, Typed, TestShadow
<1>3. producer' = [producer EXCEPT ![p] = r]
  BY DEF TestShadow, GoTo, Update
<1>4. /\ at \in {"cache", "wait", "push"}
      /\ q.shadow => at = "cache"
  OBVIOUS
<1> HIDE DEF at
<1>5. /\ r.state = q.state /\ r.shadow = q.shadow /\ r.ready = q.ready
      /\ r.aligned = q.aligned /\ r.gap = q.gap /\ r.offset = q.offset
      /\ r.decoder = q.decoder /\ r.mode = q.mode /\ r.target = q.target
      /\ r.count = q.count /\ r.thread = at /\ r.last = q.last
  BY <1>1 DEF Record
<1>6. r \in Record
  BY <1>1, <1>4 DEF Record, Threads
<1> HIDE DEF r
<1>7. OnTarget(r)
  BY <1>1, <1>4, <1>5 DEF Sound, OnTarget, StubUpcoming
<1>8. Sound(r)
  BY <1>1, <1>4, <1>5, <1>7 DEF Sound, Runs, Unstopped, PastShadow
<1>9. Counted(q) => Counted(r)
  BY <1>1, <1>4, <1>5 DEF Counted
<1>10. Evolves(q, r)
  BY <1>5, <1>6, <1>8, <1>9 DEF Evolves
<1> QED
  BY <1>2, <1>3, <1>10, ThreadInv

\* A frame leaves the thread's hand: it is cached, pushed, or dropped.
LEMMA LetGoEvolves ==
  ASSUME IndInv, NEW p \in Producers, producer[p].thread \in {"cache", "push"},
         NEW r, \/ /\ producer[p].thread = "cache"
                   /\ r = [producer[p] EXCEPT !.thread = "top", !.ready = TRUE, !.frame = 0]
                \/ r = [producer[p] EXCEPT !.thread = "top", !.frame = 0]
  PROVE  Evolves(producer[p], r)
<1> DEFINE q == producer[p]
<1>1. q \in Record /\ Sound(q)
  BY DEF IndInv, Typed
<1>2. /\ r.state = q.state /\ r.shadow = q.shadow /\ (q.ready => r.ready)
      /\ r.ready => q.ready \/ q.thread = "cache"
      /\ r.aligned = q.aligned /\ r.gap = q.gap /\ r.offset = q.offset
      /\ r.decoder = q.decoder /\ r.mode = q.mode /\ r.target = q.target
      /\ r.count = q.count /\ r.thread = "top" /\ r.last = q.last
  BY <1>1 DEF Record
<1>3. r \in Record
  <2>1. "top" \in Threads
    BY DEF Threads
  <2>2. ASSUME NEW s \in Record
        PROVE  [s EXCEPT !.thread = "top"] \in Record
    BY <2>1 DEF Record
  <2>3. ASSUME NEW s \in Record
        PROVE  [s EXCEPT !.ready = TRUE] \in Record
    BY DEF Record
  <2>4. ASSUME NEW s \in Record
        PROVE  [s EXCEPT !.frame = 0] \in Record
    BY DEF Record
  <2> QED
    BY <1>1, <2>2, <2>3, <2>4
<1>4. OnTarget(r)
  BY <1>1, <1>2 DEF Sound, OnTarget, StubUpcoming
<1>5. Sound(r)
  BY <1>1, <1>2, <1>4 DEF Sound, Runs, Unstopped, PastShadow
<1>6. Counted(q) => Counted(r)
  BY <1>1, <1>2 DEF Counted
<1> QED
  BY <1>2, <1>3, <1>5, <1>6 DEF Evolves

\* CacheFrame preserves the invariant.
LEMMA CacheFrameInv ==
  ASSUME IndInv, NEW p \in Producers, CacheFrame(p)
  PROVE  IndInv'
<1>1. depth' \in 0 .. Capacity /\ UNCHANGED slotVars
  BY DEF IndInv, Typed, CacheFrame
<1> QED
  BY <1>1, LetGoEvolves, ThreadInv DEF CacheFrame, Update

\* PushFrame preserves the invariant.
LEMMA PushFrameInv ==
  ASSUME IndInv, NEW p \in Producers, PushFrame(p)
  PROVE  IndInv'
<1>1. depth' \in 0 .. Capacity /\ UNCHANGED slotVars
  BY DEF IndInv, Typed, PushFrame
<1> QED
  BY <1>1, LetGoEvolves, ThreadInv DEF PushFrame, Update

\* RequestTeardown preserves the invariant.
LEMMA RequestTeardownInv ==
  ASSUME IndInv, NEW p \in Producers, RequestTeardown(p)
  PROVE  IndInv'
<1> DEFINE q == producer[p]
           r == [q EXCEPT !.teardown = TRUE]
<1>1. q \in Record /\ Sound(q)
  BY DEF IndInv, Typed
<1>2. /\ r.state = q.state /\ r.shadow = q.shadow /\ r.ready = q.ready
      /\ r.aligned = q.aligned /\ r.gap = q.gap /\ r.offset = q.offset
      /\ r.decoder = q.decoder /\ r.mode = q.mode /\ r.target = q.target
      /\ r.count = q.count /\ r.thread = q.thread /\ r.last = q.last /\ r.frame = q.frame
  BY <1>1 DEF Record
<1>3. r \in Record
  BY <1>1 DEF Record
<1>4. depth' \in 0 .. Capacity /\ UNCHANGED slotVars /\ producer' = [producer EXCEPT ![p] = r]
  BY DEF IndInv, Typed, RequestTeardown, Update
<1> HIDE DEF r
<1>5. OnTarget(r)
  BY <1>1, <1>2 DEF Sound, OnTarget, StubUpcoming
<1>6. Sound(r)
  BY <1>1, <1>2, <1>5 DEF Sound, Runs, Unstopped, PastShadow
<1>7. Counted(q) => Counted(r)
  BY <1>1, <1>2 DEF Counted
<1>8. Evolves(q, r)
  BY <1>2, <1>3, <1>6, <1>7 DEF Evolves
<1> QED
  BY <1>4, <1>8, ThreadInv

\* Pop preserves the invariant.
LEMMA PopInv == ASSUME IndInv, Pop PROVE IndInv'
<1>1. Typed'
  BY DEF IndInv, Typed, Pop, slotVars
<1>2. UNCHANGED <<producer, created, preview, live, control>>
  BY DEF Pop, slotVars
<1> QED
  BY <1>1, <1>2 DEF IndInv, ControlPath, Owned, PreviewHidden, PreviewCounted, Aligned,
                    LeavingShadow, Stopping, Victim

-----------------------------------------------------------------------------
(* The control thread.                                                     *)

\* The filled slots hold producers.
LEMMA SlotsFilled ==
  ASSUME IndInv
  PROVE  /\ preview # None => preview \in Producers
         /\ live # None => live \in Producers
         /\ \A p \in Producers : producer[p] \in Record /\ Sound(producer[p])
BY DEF IndInv, Typed

\* Nothing that concerns the frames has changed.
SameFrames(q, r) ==
  /\ r.thread = q.thread /\ r.mode = q.mode /\ r.last = q.last /\ r.count = q.count
  /\ r.frame = q.frame /\ r.offset = q.offset /\ r.target = q.target
  /\ r.aligned = q.aligned /\ r.gap = q.gap

\* A producer whose frames stay the same stays sound and counted.
LEMMA SameFramesSound ==
  ASSUME NEW q, NEW r, Sound(q), SameFrames(q, r),
         r.ready => q.ready, r.shadow => q.shadow,
         r.decoder = q.decoder \/ (r.decoder = "closed" /\ ~Runs(q)),
         Runs(q) => Unstopped(r)
  PROVE  Sound(r) /\ (Counted(q) => Counted(r))
<1>1. OnTarget(r)
  BY DEF Sound, SameFrames, OnTarget, StubUpcoming
<1>2. Sound(r)
  BY <1>1 DEF Sound, SameFrames, Runs, Unstopped, PastShadow
<1>3. Counted(q) => Counted(r)
  BY DEF SameFrames, Counted
<1> QED
  BY <1>2, <1>3

\* The control thread goes on and touches nothing.
ControlOnly == UNCHANGED <<producer, created, preview, live, depth>>

\* A step that moves only the control thread preserves the invariant if the path, the ownership
\* and the two marks of the switch survive it.
LEMMA ControlOnlyInv ==
  ASSUME IndInv, ControlOnly,
         control' \in [at: Steps, then: Steps, target: Int],
         ControlPath', Owned',
         LeavingShadow => LeavingShadow', Aligned => Aligned'
  PROVE  IndInv'
<1>1. Typed' /\ \A p \in Producers : Sound(producer'[p])
  BY DEF IndInv, Typed, ControlOnly
<1>2. PreviewHidden' /\ PreviewCounted'
  BY DEF IndInv, PreviewHidden, PreviewCounted, ControlOnly
<1> QED
  BY <1>1, <1>2 DEF IndInv

\* LoadPreviewAsset preserves the invariant.
LEMMA LoadPreviewAssetInv ==
  ASSUME IndInv, LoadPreviewAsset
  PROVE  IndInv'
<1> USE DEF IndInv, LoadPreviewAsset, At, ThenAt
<1>1. /\ control \in [at: Steps, then: Steps, target: Int] /\ control.at = "idle"
      /\ control' = [control EXCEPT !.at = IF preview = None THEN "create" ELSE "discard"]
      /\ UNCHANGED <<producer, created, preview, live, depth>>
  BY DEF Typed
<1>2. /\ control' \in [at: Steps, then: Steps, target: Int]
      /\ control'.at = IF preview = None THEN "create" ELSE "discard"
  BY <1>1 DEF Steps
<1>3. ControlPath'
  BY <1>1, <1>2 DEF ControlPath, Stopping
<1>4. Owned'
  BY <1>1, <1>2 DEF Owned
<1>5. ~LeavingShadow /\ ~Aligned
  BY <1>1 DEF LeavingShadow, Aligned, Stopping
<1> QED
  BY <1>1, <1>2, <1>3, <1>4, <1>5, ControlOnlyInv DEF ControlOnly

\* Activate preserves the invariant.
LEMMA ActivateInv ==
  ASSUME IndInv, ActivatePreviewAsLive
  PROVE  IndInv'
<1> USE DEF IndInv, ActivatePreviewAsLive, At
<1> DEFINE t == IF live # None /\ producer[live].state = "RUNNING"
                THEN NextPts(producer[live]) + FrameDuration ELSE 0
<1>1. /\ control \in [at: Steps, then: Steps, target: Int] /\ control.at = "idle"
      /\ control' = [control EXCEPT !.at = "align", !.target = t]
      /\ preview # None /\ producer[preview].ready
      /\ UNCHANGED <<producer, created, preview, live, depth>>
  BY DEF Typed
<1>2. t \in Int
  BY SlotsFilled DEF NextPts, Record
<1> HIDE DEF t
<1>3. control' \in [at: Steps, then: Steps, target: Int] /\ control'.at = "align"
  <2>1. "align" \in Steps
    BY DEF Steps
  <2> QED
    BY <1>1, <1>2, <2>1
<1>4. ControlPath'
  BY <1>1, <1>3 DEF ControlPath, Stopping
<1>5. Owned'
  BY <1>1, <1>3 DEF Owned
<1>6. ~LeavingShadow /\ ~Aligned
  BY <1>1 DEF LeavingShadow, Aligned, Stopping
<1> QED
  BY <1>1, <1>3, <1>4, <1>5, <1>6, ControlOnlyInv DEF ControlOnly

\* One producer's record changes with the control thread's step.
LEMMA SlotUpdateInv ==
  ASSUME IndInv, NEW p \in Producers, NEW r \in Record, Sound(r),
         producer' = [producer EXCEPT ![p] = r],
         UNCHANGED <<created, preview, live, depth>>,
         control' \in [at: Steps, then: Steps, target: Int],
         ControlPath', Owned', PreviewHidden', PreviewCounted'
  PROVE  IndInv'
<1>1. Typed'
  BY DEF IndInv, Typed
<1>2. \A s \in Producers : Sound(producer'[s])
  BY DEF IndInv, Typed
<1> QED
  BY <1>1, <1>2 DEF IndInv

\* Leaving shadow mode preserves the invariant, in the discard and in the switch.
LEMMA LeaveShadowInv ==
  ASSUME IndInv, NEW to,
         \/ LeaveShadow(preview, "discard", "discardClear") /\ to = "discardClear"
         \/ LeaveShadow(preview, "leave", "leaveClear") /\ to = "leaveClear"
  PROVE  IndInv'
<1> DEFINE q == producer[preview]
           r == [q EXCEPT !.shadow = FALSE]
<1>1. /\ control \in [at: Steps, then: Steps, target: Int]
      /\ control' = [control EXCEPT !.at = to]
      /\ \/ control.at = "discard" /\ to = "discardClear"
         \/ control.at = "leave" /\ to = "leaveClear"
      /\ producer' = [producer EXCEPT ![preview] = r]
      /\ UNCHANGED <<created, preview, live, depth>>
  BY DEF IndInv, Typed, LeaveShadow, At, ThenAt, Update
<1>2. preview # None /\ preview \in Producers
  BY <1>1, SlotsFilled DEF IndInv, ControlPath
<1>3. q \in Record /\ Sound(q)
  BY <1>2, SlotsFilled
<1>4. /\ r \in Record /\ SameFrames(q, r)
      /\ r.shadow = FALSE /\ r.ready = q.ready /\ r.state = q.state /\ r.decoder = q.decoder
  BY <1>3 DEF Record, SameFrames
<1> HIDE DEF r
<1>5. Sound(r) /\ (Counted(q) => Counted(r))
  BY <1>3, <1>4, SameFramesSound DEF Sound, Unstopped
<1>6. control' \in [at: Steps, then: Steps, target: Int] /\ control'.at = to
  BY <1>1 DEF Steps
<1>7. producer \in [Producers -> Record]
  BY DEF IndInv, Typed
<1>8. \A p \in Producers : producer'[p].state = producer[p].state
  BY <1>1, <1>2, <1>4, <1>7
<1>9. ControlPath'
  BY <1>1, <1>2, <1>6, <1>8 DEF IndInv, ControlPath, Stopping, Unstopped
<1>10. Owned'
  BY <1>1, <1>6, <1>8 DEF IndInv, Owned, Unstopped
<1>11. PreviewHidden'
  BY <1>1, <1>6 DEF PreviewHidden, LeavingShadow
<1>12. PreviewCounted'
  <2>1. producer'[preview'] = r
    BY <1>1, <1>2, <1>7
  <2>2. Aligned <=> Aligned'
    BY <1>1, <1>6 DEF Aligned, Stopping
  <2> QED
    BY <1>1, <1>5, <2>1, <2>2 DEF IndInv, PreviewCounted
<1> QED
  BY <1>1, <1>2, <1>4, <1>5, <1>6, <1>9, <1>10, <1>11, <1>12, SlotUpdateInv

\* ClearShadow preserves the invariant.
LEMMA ClearShadowInv ==
  ASSUME IndInv, NEW then,
         \/ ClearShadow(preview, "discardClear", "stop", "dropPreview") /\ then = "dropPreview"
         \/ ClearShadow(preview, "leaveClear", "stop", "promote") /\ then = "promote"
  PROVE  IndInv'
<1> DEFINE q == producer[preview]
           r == [q EXCEPT !.ready = FALSE]
<1>1. /\ control \in [at: Steps, then: Steps, target: Int]
      /\ control' = [control EXCEPT !.at = "stop", !.then = then]
      /\ \/ control.at = "discardClear" /\ then = "dropPreview"
         \/ control.at = "leaveClear" /\ then = "promote"
      /\ producer' = [producer EXCEPT ![preview] = r]
      /\ UNCHANGED <<created, preview, live, depth>>
  BY DEF IndInv, Typed, ClearShadow, At, Update
<1>2. preview # None /\ preview \in Producers
  BY <1>1, SlotsFilled DEF IndInv, ControlPath
<1>3. q \in Record /\ Sound(q)
  BY <1>2, SlotsFilled
<1>4. /\ r \in Record /\ SameFrames(q, r)
      /\ r.shadow = q.shadow /\ r.ready = FALSE /\ r.state = q.state /\ r.decoder = q.decoder
  BY <1>3 DEF Record, SameFrames
<1> HIDE DEF r
<1>5. Sound(r) /\ (Counted(q) => Counted(r))
  BY <1>3, <1>4, SameFramesSound DEF Sound, Unstopped
<1>6. /\ control' \in [at: Steps, then: Steps, target: Int]
      /\ control'.at = "stop" /\ control'.then = then
  <2>1. "stop" \in Steps /\ then \in Steps
    BY <1>1 DEF Steps
  <2> QED
    BY <1>1, <2>1
<1>7. producer \in [Producers -> Record]
  BY DEF IndInv, Typed
<1>8. \A p \in Producers : producer'[p].state = producer[p].state
  BY <1>1, <1>2, <1>4, <1>7
<1>9. ControlPath'
  BY <1>1, <1>2, <1>6, <1>8 DEF IndInv, ControlPath, Stopping, Unstopped
<1>10. Owned'
  BY <1>1, <1>6, <1>8 DEF IndInv, Owned, Unstopped
<1>11. PreviewHidden'
  BY <1>1, <1>6 DEF PreviewHidden, LeavingShadow, Stopping
<1>12. PreviewCounted'
  <2>1. producer'[preview'] = r
    BY <1>1, <1>2, <1>7
  <2>2. Aligned <=> Aligned'
    BY <1>1, <1>6 DEF Aligned, Stopping
  <2> QED
    BY <1>1, <1>5, <2>1, <2>2 DEF IndInv, PreviewCounted
<1> QED
  BY <1>1, <1>2, <1>4, <1>5, <1>6, <1>9, <1>10, <1>11, <1>12, SlotUpdateInv

\* Stopping a producer that does not run goes straight on: nothing to join.
LEMMA StopSkippedInv ==
  ASSUME IndInv, StopProducer, ~(Victim # None /\ producer[Victim].state = "RUNNING")
  PROVE  IndInv'
<1>1. /\ control \in [at: Steps, then: Steps, target: Int] /\ control.at = "stop"
      /\ control' = [control EXCEPT !.at = control.then]
      /\ UNCHANGED <<producer, created, preview, live, depth>>
  BY DEF IndInv, Typed, StopProducer, At, ThenAt
<1>2. control.then \in {"dropPreview", "promote", "liveGone", "gone"}
  BY <1>1 DEF IndInv, ControlPath
<1>3. control' \in [at: Steps, then: Steps, target: Int] /\ control'.at = control.then
  BY <1>1
<1>4. Victim = IF control.then \in {"dropPreview", "gone"} THEN preview ELSE live
  BY DEF Victim
<1>5. Victim # None => ~Unstopped(producer[Victim])
  <2>1. Victim # None => Victim \in Producers
    BY <1>4, SlotsFilled
  <2>2. Victim # None => producer[Victim].state # "STOPPING"
    BY <1>1, <2>1 DEF IndInv, Owned
  <2> QED
    BY <2>2 DEF Unstopped
<1>6. ControlPath'
  BY <1>1, <1>2, <1>3, <1>4, <1>5 DEF IndInv, ControlPath, Stopping
<1>7. Owned'
  BY <1>1 DEF IndInv, Owned
<1>8. (LeavingShadow => LeavingShadow') /\ (Aligned => Aligned')
  BY <1>1, <1>2, <1>3 DEF LeavingShadow, Aligned, Stopping
<1> QED
  BY <1>1, <1>3, <1>6, <1>7, <1>8, ControlOnlyInv DEF ControlOnly

\* Asking the slot's producer to stop preserves the invariant.
LEMMA StopAskedInv ==
  ASSUME IndInv, StopProducer, Victim # None, producer[Victim].state = "RUNNING"
  PROVE  IndInv'
<1> DEFINE v == Victim
           q == producer[v]
           r == [q EXCEPT !.state = "STOPPING", !.stop = TRUE, !.teardown = FALSE]
<1>1. /\ control \in [at: Steps, then: Steps, target: Int] /\ control.at = "stop"
      /\ control' = [control EXCEPT !.at = "join"]
      /\ producer' = [producer EXCEPT ![v] = r]
      /\ UNCHANGED <<created, preview, live, depth>>
  BY DEF IndInv, Typed, StopProducer, At, ThenAt, Update
<1>2. control.then \in {"dropPreview", "promote", "liveGone", "gone"}
  BY <1>1 DEF IndInv, ControlPath
<1>3. /\ control' \in [at: Steps, then: Steps, target: Int]
      /\ control'.at = "join" /\ control'.then = control.then
  BY <1>1 DEF Steps
<1>4. v = IF control.then \in {"dropPreview", "gone"} THEN preview ELSE live
  BY DEF Victim
<1>5. v' = v
  BY <1>1, <1>3, <1>4 DEF Victim
<1>6. v \in Producers /\ q \in Record /\ Sound(q)
  BY <1>4, SlotsFilled
<1>7. /\ r \in Record /\ SameFrames(q, r)
      /\ r.shadow = q.shadow /\ r.ready = q.ready /\ r.state = "STOPPING"
      /\ r.decoder = q.decoder
  BY <1>6 DEF Record, SameFrames
<1> HIDE DEF r, v
<1>8. Sound(r) /\ (Counted(q) => Counted(r))
  BY <1>6, <1>7, SameFramesSound DEF Unstopped
<1>9. /\ producer \in [Producers -> Record]
      /\ producer'[v] = r
      /\ \A p \in Producers \ {v} : producer'[p] = producer[p]
  BY <1>1, <1>6 DEF IndInv, Typed
<1>10. ControlPath'
  BY <1>1, <1>2, <1>3, <1>5, <1>7, <1>9 DEF IndInv, ControlPath, Stopping, v
<1>11. Owned'
  BY <1>1, <1>3, <1>4, <1>5, <1>7, <1>9 DEF IndInv, Owned, Unstopped, v
<1>12. PreviewHidden'
  <2>1. LeavingShadow <=> LeavingShadow'
    BY <1>1, <1>3 DEF LeavingShadow, Stopping
  <2>2. preview # None => producer'[preview].shadow = producer[preview].shadow
    BY <1>7, <1>9, SlotsFilled
  <2> QED
    BY <1>1, <2>1, <2>2 DEF IndInv, PreviewHidden
<1>13. PreviewCounted'
  <2>1. Aligned <=> Aligned'
    BY <1>1, <1>3 DEF Aligned, Stopping
  <2>2. preview # None /\ Counted(producer[preview]) => Counted(producer'[preview])
    BY <1>8, <1>9, SlotsFilled
  <2> QED
    BY <1>1, <2>1, <2>2 DEF IndInv, PreviewCounted
<1> QED
  BY <1>1, <1>3, <1>6, <1>7, <1>8, <1>10, <1>11, <1>12, <1>13, SlotUpdateInv

\* The joined thread has left its loop, so its decoder may be closed.
LEMMA JoinProducerInv ==
  ASSUME IndInv, JoinProducer
  PROVE  IndInv'
<1> DEFINE v == Victim
           q == producer[v]
           r == [q EXCEPT !.decoder = "closed", !.state = "STOPPED"]
<1>1. /\ control \in [at: Steps, then: Steps, target: Int] /\ control.at = "join"
      /\ ~Runs(q)
      /\ control' = [control EXCEPT !.at = control.then]
      /\ producer' = [producer EXCEPT ![v] = r]
      /\ UNCHANGED <<created, preview, live, depth>>
  BY DEF IndInv, Typed, JoinProducer, At, ThenAt, Update, Runs
<1>2. /\ control.then \in {"dropPreview", "promote", "liveGone", "gone"}
      /\ v # None
  BY <1>1 DEF IndInv, ControlPath
<1>3. /\ control' \in [at: Steps, then: Steps, target: Int]
      /\ control'.at = control.then /\ control'.then = control.then
  BY <1>1
<1>4. v = IF control.then \in {"dropPreview", "gone"} THEN preview ELSE live
  BY DEF Victim
<1>5. v \in Producers /\ q \in Record /\ Sound(q)
  BY <1>2, <1>4, SlotsFilled
<1>6. /\ r \in Record /\ SameFrames(q, r)
      /\ r.shadow = q.shadow /\ r.ready = q.ready /\ r.state = "STOPPED"
      /\ r.decoder = "closed"
  BY <1>5 DEF Record, SameFrames
<1> HIDE DEF r
<1>7. Sound(r) /\ (Counted(q) => Counted(r))
  BY <1>1, <1>5, <1>6, SameFramesSound
<1>8. /\ producer \in [Producers -> Record]
      /\ producer'[v] = r
      /\ \A p \in Producers \ {v} : producer'[p] = producer[p]
  BY <1>1, <1>5 DEF IndInv, Typed
<1>9. ControlPath'
  BY <1>1, <1>2, <1>3, <1>4, <1>6, <1>8 DEF IndInv, ControlPath, Stopping, Unstopped
<1>10. Owned'
  BY <1>1, <1>3, <1>6, <1>8 DEF IndInv, Owned, Unstopped
<1>11. PreviewHidden'
  <2>1. LeavingShadow => LeavingShadow'
    BY <1>1, <1>2, <1>3 DEF LeavingShadow, Stopping
  <2>2. preview # None => producer'[preview].shadow = producer[preview].shadow
    BY <1>6, <1>8, SlotsFilled
  <2> QED
    BY <1>1, <2>1, <2>2 DEF IndInv, PreviewHidden
<1>12. PreviewCounted'
  <2>1. Aligned => Aligned'
    BY <1>1, <1>2, <1>3 DEF Aligned, Stopping
  <2>2. preview # None /\ Counted(producer[preview]) => Counted(producer'[preview])
    BY <1>7, <1>8, SlotsFilled
  <2> QED
    BY <1>1, <2>1, <2>2 DEF IndInv, PreviewCounted
<1> QED
  BY <1>1, <1>3, <1>5, <1>6, <1>7, <1>9, <1>10, <1>11, <1>12, SlotUpdateInv

\* A destroyed producer's record is sound if its thread has been joined.
LEMMA GoneSound ==
  ASSUME IndInv, NEW p \in Producers, ~Unstopped(producer[p])
  PROVE  /\ Gone(p) \in Record /\ Sound(Gone(p))
         /\ Gone(p).state = "DESTROYED"
<1>1. producer[p] \in Record /\ Sound(producer[p])
  BY SlotsFilled
<1>2. producer[p].thread \in {"none", "exited"}
  BY <1>1 DEF Sound, Runs
<1>3. Gone(p).thread = producer[p].thread
  BY DEF Gone, NoProducer
<1>4. /\ Gone(p).state = "DESTROYED" /\ Gone(p).shadow = FALSE /\ Gone(p).ready = FALSE
      /\ Gone(p).aligned = FALSE /\ Gone(p).gap = 0 /\ Gone(p).decoder = "closed"
  BY DEF Gone, NoProducer
<1>5. Gone(p) \in Record
  <2>1. NoProducer \in Record
    BY DEF NoProducer, Record, Threads
  <2>2. ASSUME NEW s \in Record PROVE [s EXCEPT !.state = "DESTROYED"] \in Record
    BY DEF Record
  <2>3. producer[p].thread \in Threads
    BY <1>1 DEF Record
  <2>4. ASSUME NEW s \in Record PROVE [s EXCEPT !.thread = producer[p].thread] \in Record
    BY <2>3 DEF Record
  <2> QED
    BY <2>1, <2>2, <2>4 DEF Gone
<1>6. Sound(Gone(p))
  BY <1>2, <1>3, <1>4 DEF Sound, OnTarget, Runs, PastShadow
<1> QED
  BY <1>4, <1>5, <1>6

\* DropPreview preserves the invariant.
LEMMA DropPreviewInv ==
  ASSUME IndInv, DropPreview
  PROVE  IndInv'
<1>1. /\ control \in [at: Steps, then: Steps, target: Int] /\ control.at = "dropPreview"
      /\ control' = [control EXCEPT !.at = "create"]
      /\ producer' = [producer EXCEPT ![preview] = Gone(preview)]
      /\ preview' = None
      /\ UNCHANGED <<created, live, depth>>
  BY DEF IndInv, Typed, DropPreview, At, ThenAt, Update
<1>2. preview \in Producers /\ ~Unstopped(producer[preview])
  BY <1>1, SlotsFilled DEF IndInv, ControlPath
<1>3. /\ Gone(preview) \in Record /\ Sound(Gone(preview))
      /\ Gone(preview).state = "DESTROYED"
  BY <1>2, GoneSound
<1>4. control' \in [at: Steps, then: Steps, target: Int] /\ control'.at = "create"
  BY <1>1 DEF Steps
<1>5. /\ producer' \in [Producers -> Record]
      /\ producer'[preview] = Gone(preview)
      /\ \A p \in Producers \ {preview} : producer'[p] = producer[p]
  BY <1>1, <1>2, <1>3 DEF IndInv, Typed
<1>6. Typed'
  BY <1>1, <1>4, <1>5 DEF IndInv, Typed
<1>7. \A p \in Producers : Sound(producer'[p])
  BY <1>3, <1>5 DEF IndInv
<1>8. ControlPath'
  BY <1>1, <1>4 DEF ControlPath, Stopping
<1>9. Owned'
  BY <1>1, <1>3, <1>5 DEF IndInv, Owned, Unstopped
<1>10. PreviewHidden' /\ PreviewCounted'
  BY <1>1 DEF PreviewHidden, PreviewCounted
<1> QED
  BY <1>6, <1>7, <1>8, <1>9, <1>10 DEF IndInv

\* A producer that has just been started is sound, in shadow and counted.
LEMMA StartedSound ==
  ASSUME NEW mode \in {"real", "stub"}
  PROVE  /\ Started(mode) \in Record /\ Sound(Started(mode)) /\ Counted(Started(mode))
         /\ Started(mode).shadow /\ Started(mode).state = "RUNNING"
<1> DEFINE r == Started(mode)
<1>1. /\ r.state = "RUNNING" /\ r.shadow = TRUE /\ r.ready = FALSE /\ r.aligned = FALSE
      /\ r.gap = 0 /\ r.offset = 0 /\ r.count = 0 /\ r.last = 0 /\ r.mode = mode
      /\ r.decoder = "closed" /\ r.thread = IF mode = "real" THEN "init" ELSE "top"
  BY DEF Started, NoProducer
<1>2. r \in Record
  <2>1. NoProducer \in Record
    BY DEF NoProducer, Record, Threads
  <2>2. ASSUME NEW s \in Record PROVE [s EXCEPT !.state = "RUNNING"] \in Record
    BY DEF Record
  <2>3. ASSUME NEW s \in Record PROVE [s EXCEPT !.shadow = TRUE] \in Record
    BY DEF Record
  <2>4. ASSUME NEW s \in Record PROVE [s EXCEPT !.mode = mode] \in Record
    BY DEF Record
  <2>5. (IF mode = "real" THEN "init" ELSE "top") \in Threads
    BY DEF Threads
  <2>6. ASSUME NEW s \in Record, NEW t \in Threads PROVE [s EXCEPT !.thread = t] \in Record
    BY DEF Record
  <2> QED
    BY <2>1, <2>2, <2>3, <2>4, <2>5, <2>6 DEF Started
<1> HIDE DEF r
<1>3. Sound(r)
  BY <1>1 DEF Sound, OnTarget, Runs, Unstopped, PastShadow
<1>4. Counted(r)
  BY <1>1 DEF Counted
<1> QED
  BY <1>1, <1>2, <1>3, <1>4 DEF r

\* CreatePreview preserves the invariant.
LEMMA CreatePreviewInv ==
  ASSUME IndInv, CreatePreview
  PROVE  IndInv'
<1>1. /\ control.at = "create" /\ preview = None
      /\ control' = Idle /\ UNCHANGED <<live, depth>>
  BY DEF IndInv, ControlPath, CreatePreview, At
<1>2. /\ control' \in [at: Steps, then: Steps, target: Int] /\ control'.at = "idle"
  BY <1>1 DEF Idle, Steps
<1>3. CASE UNCHANGED <<producer, created, preview>>
  <2>1. ControlPath'
    BY <1>1, <1>2, <1>3 DEF ControlPath, Stopping
  <2>2. Owned'
    BY <1>1, <1>2, <1>3 DEF IndInv, Owned
  <2>3. PreviewHidden' /\ PreviewCounted'
    BY <1>1, <1>3 DEF PreviewHidden, PreviewCounted
  <2>4. Typed' /\ \A p \in Producers : Sound(producer'[p])
    BY <1>1, <1>2, <1>3 DEF IndInv, Typed
  <2> QED
    BY <2>1, <2>2, <2>3, <2>4 DEF IndInv
<1>4. ASSUME created < Loads, created' = created + 1, preview' = created',
             NEW mode \in {"real", "stub"},
             Update(created', Started(mode))
      PROVE  IndInv'
  <2>1. /\ created' \in Producers /\ live # preview' /\ live \in 0 .. created'
        /\ created' \in 0 .. Loads /\ preview' \in 0 .. created'
    BY <1>1, <1>4 DEF IndInv, Typed
  <2>2. /\ producer \in [Producers -> Record]
        /\ producer' = [producer EXCEPT ![created'] = Started(mode)]
    BY <1>4 DEF IndInv, Typed, Update
  <2>3. /\ producer' \in [Producers -> Record]
        /\ producer'[preview'] = Started(mode)
        /\ \A p \in Producers \ {preview'} : producer'[p] = producer[p]
    BY <1>4, <2>1, <2>2, StartedSound
  <2>4. Typed'
    BY <1>1, <1>2, <2>1, <2>3 DEF IndInv, Typed
  <2>5. \A p \in Producers : Sound(producer'[p])
    BY <2>3, StartedSound DEF IndInv
  <2>6. ControlPath'
    BY <1>1, <1>2, <2>1 DEF ControlPath, Stopping
  <2>7. Owned'
    <3>1. \A p \in Producers : producer[p].state # "STOPPING"
      BY <1>1 DEF IndInv, Owned
    <3>2. producer'[preview'].state = "RUNNING"
      BY <2>3, StartedSound
    <3> QED
      BY <1>1, <2>3, <3>1, <3>2 DEF IndInv, Owned, Unstopped
  <2>8. PreviewHidden' /\ PreviewCounted'
    BY <2>3, StartedSound DEF PreviewHidden, PreviewCounted
  <2> QED
    BY <2>4, <2>5, <2>6, <2>7, <2>8 DEF IndInv
<1> QED
  BY <1>3, <1>4 DEF CreatePreview

\* OffsetFor is measured from the last PTS of a file, which is past 0; of a stub it brings
\* the next frame to the target, or one interval past it if only frame 0 has been stamped.
LEMMA OffsetOnTarget ==
  ASSUME NEW q \in Record, Counted(q), q.ready, NEW t \in Int
  PROVE  /\ OffsetFor(q, t) \in Int
         /\ q.mode = "real" => q.last + OffsetFor(q, t) - t = -Interval
         /\ q.mode = "stub" => StubUpcoming(q) + OffsetFor(q, t) - t \in {0, Interval}
<1>1. /\ q.last \in Int /\ q.count \in Nat /\ q.frame \in Int /\ q.mode \in {"stub", "real"}
      /\ Interval \in Int /\ Interval > 0
  BY DEF Record
<1>2. CASE q.mode = "real"
  <2>1. q.last > 0
    BY <1>2 DEF Counted
  <2> QED
    BY <1>1, <1>2, <2>1 DEF OffsetFor
<1>3. CASE q.mode = "stub" /\ q.thread = "stamp"
  <2>1. /\ q.count >= 1 /\ StubUpcoming(q) = StubPts(q.count - 1)
        /\ q.last = IF q.count = 1 THEN 0 ELSE StubPts(q.count - 2)
    BY <1>3 DEF Counted, StubUpcoming
  <2>2. CASE q.count = 1
    <3>1. StubPts(0) = 0 /\ StubUpcoming(q) = StubPts(0) /\ q.last = 0
      BY <2>1, <2>2, StubSpacing
    <3> QED
      BY <1>1, <1>3, <3>1 DEF OffsetFor
  <2>3. CASE q.count # 1
    <3>1. q.count - 2 \in Nat /\ (q.count - 2) + 1 = q.count - 1
      BY <1>1, <2>1, <2>3
    <3>2. StubPts(q.count - 2) \in Int /\ StubPts(q.count - 1) = StubPts(q.count - 2) + Interval
      BY <3>1, StubSpacing
    <3> QED
      BY <1>1, <1>3, <2>1, <2>3, <3>2 DEF OffsetFor
  <2> QED
    BY <2>2, <2>3
<1>4. CASE q.mode = "stub" /\ q.thread # "stamp"
  <2>1. /\ StubUpcoming(q) = StubPts(q.count)
        /\ q.last = IF q.count = 0 THEN 0 ELSE StubPts(q.count - 1)
    BY <1>4 DEF Counted, StubUpcoming
  <2>2. CASE q.count = 0
    <3>1. StubPts(0) = 0 /\ StubUpcoming(q) = StubPts(0) /\ q.last = 0
      BY <2>1, <2>2, StubSpacing
    <3> QED
      BY <1>1, <1>4, <3>1 DEF OffsetFor
  <2>3. CASE q.count # 0
    <3>1. q.count - 1 \in Nat /\ (q.count - 1) + 1 = q.count
      BY <1>1, <2>3
    <3>2. StubPts(q.count - 1) \in Int /\ StubPts(q.count) = StubPts(q.count - 1) + Interval
      BY <3>1, StubSpacing
    <3> QED
      BY <1>1, <1>4, <2>1, <2>3, <3>2 DEF OffsetFor
  <2> QED
    BY <2>2, <2>3
<1> QED
  BY <1>1, <1>2, <1>3, <1>4

\* AlignPTS preserves the invariant.
LEMMA AlignPTSInv ==
  ASSUME IndInv, AlignPTS
  PROVE  IndInv'
<1> DEFINE q == producer[preview]
           t == control.target
           off == OffsetFor(q, t)
           r == [q EXCEPT !.offset = off, !.target = t, !.aligned = TRUE]
<1>1. /\ control \in [at: Steps, then: Steps, target: Int] /\ control.at = "align"
      /\ control' = [control EXCEPT !.at = "leave"]
      /\ producer' = [producer EXCEPT ![preview] = r]
      /\ UNCHANGED <<created, preview, live, depth>>
  BY DEF IndInv, Typed, AlignPTS, At, ThenAt, Update
<1>2. preview # None /\ preview \in Producers /\ q.ready
  BY <1>1, SlotsFilled DEF IndInv, ControlPath
<1>3. q \in Record /\ Sound(q) /\ q.thread # "init"
  BY <1>2, SlotsFilled DEF Sound
<1>4. Counted(q)
  BY <1>1, <1>2 DEF IndInv, PreviewCounted, Aligned, Stopping
<1>5. /\ t \in Int /\ off \in Int
      /\ q.mode = "real" => q.last + off - t = -Interval
      /\ q.mode = "stub" => StubUpcoming(q) + off - t \in {0, Interval}
  BY <1>1, <1>2, <1>3, <1>4, OffsetOnTarget
<1>6. q.gap = 0 /\ (q.mode = "real" /\ q.thread = "stamp" => q.frame = q.last)
  BY <1>4 DEF Counted
<1> HIDE DEF off, t, q
<1>7. r \in Record
  <2>1. ASSUME NEW s \in Record PROVE [s EXCEPT !.offset = off] \in Record
    BY <1>5 DEF Record
  <2>2. ASSUME NEW s \in Record PROVE [s EXCEPT !.target = t] \in Record
    BY <1>5 DEF Record
  <2>3. ASSUME NEW s \in Record PROVE [s EXCEPT !.aligned = TRUE] \in Record
    BY DEF Record
  <2> QED
    BY <1>3, <2>1, <2>2, <2>3
<1>8. /\ r.thread = q.thread /\ r.mode = q.mode /\ r.last = q.last /\ r.count = q.count
      /\ r.frame = q.frame /\ r.gap = q.gap /\ r.shadow = q.shadow /\ r.ready = q.ready
      /\ r.state = q.state /\ r.decoder = q.decoder
      /\ r.offset = off /\ r.target = t
  BY <1>3 DEF Record
<1> HIDE DEF r
<1>9. OnTarget(r)
  BY <1>3, <1>5, <1>8, <1>6 DEF OnTarget, StubUpcoming
<1>10. Sound(r)
  BY <1>3, <1>8, <1>9 DEF Sound, Runs, Unstopped, PastShadow
<1>11. control' \in [at: Steps, then: Steps, target: Int] /\ control'.at = "leave"
  BY <1>1 DEF Steps
<1>12. producer \in [Producers -> Record]
  BY DEF IndInv, Typed
<1>13. \A p \in Producers : /\ producer'[p].state = producer[p].state
                            /\ producer'[p].shadow = producer[p].shadow
  BY <1>1, <1>2, <1>8, <1>12 DEF q
<1>14. ControlPath'
  BY <1>1, <1>2, <1>11, <1>13 DEF IndInv, ControlPath, Stopping, Unstopped
<1>15. Owned'
  BY <1>1, <1>11, <1>13 DEF IndInv, Owned, Unstopped
<1>16. PreviewHidden'
  BY <1>1, <1>2, <1>13 DEF IndInv, PreviewHidden, LeavingShadow, Stopping
<1>17. PreviewCounted'
  BY <1>11 DEF PreviewCounted, Aligned
<1> QED
  BY <1>1, <1>2, <1>7, <1>10, <1>11, <1>14, <1>15, <1>16, <1>17, SlotUpdateInv

\* The producer in a slot is destroyed, if there is one; its thread was joined.
Released(slot) ==
  producer' = [p \in Producers |-> IF p = slot THEN Gone(p) ELSE producer[p]]

\* Releasing a producer that is at rest keeps every record sound.
LEMMA ReleasedSound ==
  ASSUME IndInv, NEW slot, Released(slot),
         slot \in Producers => ~Unstopped(producer[slot])
  PROVE  /\ producer' \in [Producers -> Record]
         /\ \A p \in Producers : /\ Sound(producer'[p])
                                 /\ p # slot => producer'[p] = producer[p]
                                 /\ p = slot => ~Unstopped(producer'[p])
<1>1. slot \in Producers =>
        /\ Gone(slot) \in Record /\ Sound(Gone(slot)) /\ Gone(slot).state = "DESTROYED"
  BY GoneSound
<1>2. \A p \in Producers : producer'[p] = IF p = slot THEN Gone(p) ELSE producer[p]
  BY DEF Released
<1>3. \A p \in Producers : producer[p] \in Record /\ Sound(producer[p])
  BY SlotsFilled
<1>4. producer' \in [Producers -> Record]
  BY <1>1, <1>3 DEF Released
<1> QED
  BY <1>1, <1>2, <1>3, <1>4 DEF Unstopped

\* Promote preserves the invariant.
LEMMA PromoteInv ==
  ASSUME IndInv, Promote
  PROVE  IndInv'
<1>1. /\ control.at = "promote" /\ Released(live)
      /\ live' = preview /\ preview' = None
      /\ control' = Idle /\ UNCHANGED <<created, depth>>
  BY DEF Promote, At, Released
<1>2. live \in Producers => ~Unstopped(producer[live])
  BY <1>1 DEF IndInv, ControlPath
<1>3. /\ control' \in [at: Steps, then: Steps, target: Int] /\ control'.at = "idle"
  BY <1>1 DEF Idle, Steps
<1>4. Typed' /\ \A p \in Producers : Sound(producer'[p])
  BY <1>1, <1>2, <1>3, ReleasedSound DEF IndInv, Typed
<1>5. ControlPath'
  BY <1>1, <1>3 DEF ControlPath, Stopping
<1>6. Owned'
  <2>1. \A p \in Producers :
          /\ producer[p].state # "STOPPING"
          /\ Unstopped(producer[p]) => p \in {preview, live}
    BY <1>1 DEF IndInv, Owned
  <2> QED
    BY <1>1, <1>2, <2>1, ReleasedSound DEF Owned, Unstopped
<1>7. PreviewHidden' /\ PreviewCounted'
  BY <1>1 DEF PreviewHidden, PreviewCounted
<1> QED
  BY <1>4, <1>5, <1>6, <1>7 DEF IndInv

\* Destroy preserves the invariant.
LEMMA DestroyInv ==
  ASSUME IndInv, Destroy
  PROVE  IndInv'
<1>1. /\ control \in [at: Steps, then: Steps, target: Int]
      /\ UNCHANGED <<created, depth>>
  BY DEF IndInv, Typed, Destroy
<1>2. CASE /\ control.at = "idle"
           /\ control' = [control EXCEPT !.at = "stop", !.then = "liveGone"]
           /\ UNCHANGED <<producer, live, preview>>
  <2>1. /\ control' \in [at: Steps, then: Steps, target: Int]
        /\ control'.at = "stop" /\ control'.then = "liveGone"
    BY <1>1, <1>2 DEF Steps
  <2>2. ControlPath'
    BY <1>2, <2>1 DEF IndInv, ControlPath, Stopping
  <2>3. Owned'
    BY <1>2 DEF IndInv, Owned
  <2>4. ~LeavingShadow /\ ~Aligned
    BY <1>2 DEF LeavingShadow, Aligned, Stopping
  <2> QED
    BY <1>1, <1>2, <2>1, <2>2, <2>3, <2>4, ControlOnlyInv DEF ControlOnly
<1>3. CASE /\ control.at = "liveGone" /\ Released(live)
           /\ live' = None
           /\ control' = [control EXCEPT !.at = "stop", !.then = "gone"]
           /\ UNCHANGED preview
  <2>1. live \in Producers => ~Unstopped(producer[live])
    BY <1>3 DEF IndInv, ControlPath
  <2>2. /\ control' \in [at: Steps, then: Steps, target: Int]
        /\ control'.at = "stop" /\ control'.then = "gone"
    BY <1>1, <1>3 DEF Steps
  <2>3. Typed' /\ \A p \in Producers : Sound(producer'[p])
    BY <1>1, <1>3, <2>1, <2>2, ReleasedSound DEF IndInv, Typed
  <2>4. ControlPath'
    BY <1>3, <2>2 DEF ControlPath, Stopping
  <2>5. Owned'
    <3>1. \A p \in Producers :
            /\ producer[p].state # "STOPPING"
            /\ Unstopped(producer[p]) => p \in {preview, live}
      BY <1>3 DEF IndInv, Owned
    <3> QED
      BY <1>3, <2>1, <3>1, ReleasedSound DEF Owned, Unstopped
  <2>6. PreviewHidden' /\ PreviewCounted'
    <3>1. preview # None => producer'[preview] = producer[preview]
      BY <1>3, <2>1, SlotsFilled, ReleasedSound DEF IndInv, ControlPath
    <3>2. ~LeavingShadow /\ ~Aligned
      BY <1>3 DEF LeavingShadow, Aligned, Stopping
    <3> QED
      BY <1>3, <3>1, <3>2 DEF IndInv, PreviewHidden, PreviewCounted
  <2> QED
    BY <2>3, <2>4, <2>5, <2>6 DEF IndInv
<1>4. CASE /\ control.at = "gone" /\ Released(preview)
           /\ preview' = None
           /\ control' = [control EXCEPT !.at = "destroyed"]
           /\ UNCHANGED live
  <2>1. preview \in Producers => ~Unstopped(producer[preview])
    BY <1>4 DEF IndInv, ControlPath
  <2>2. control' \in [at: Steps, then: Steps, target: Int] /\ control'.at = "destroyed"
    BY <1>1, <1>4 DEF Steps
  <2>3. Typed' /\ \A p \in Producers : Sound(producer'[p])
    BY <1>1, <1>4, <2>1, <2>2, ReleasedSound DEF IndInv, Typed
  <2>4. ControlPath'
    BY <1>4, <2>2 DEF ControlPath, Stopping
  <2>5. Owned'
    <3>1. \A p \in Producers :
            /\ producer[p].state # "STOPPING"
            /\ Unstopped(producer[p]) => p \in {preview, live}
      BY <1>4 DEF IndInv, Owned
    <3> QED
      BY <1>4, <2>1, <3>1, ReleasedSound DEF Owned, Unstopped
  <2>6. PreviewHidden' /\ PreviewCounted'
    BY <1>4 DEF PreviewHidden, PreviewCounted
  <2> QED
    BY <2>3, <2>4, <2>5, <2>6 DEF IndInv
<1> QED
  BY <1>2, <1>3, <1>4 DEF Destroy, At, ThenAt, Released

-----------------------------------------------------------------------------

\* The invariant holds initially.
LEMMA InitInv == Init => IndInv
<1> SUFFICES ASSUME Init PROVE IndInv
  OBVIOUS
<1>1. NoProducer \in Record
  BY DEF NoProducer, Record, Threads
<1>2. Sound(NoProducer) /\ NoProducer.state = "NONE"
  BY DEF NoProducer, Sound, OnTarget, Runs, PastShadow
<1>3. Typed
  BY <1>1 DEF Init, Typed, Steps
<1>4. Owned
  BY <1>2 DEF Init, Owned, Unstopped
<1> QED
  BY <1>2, <1>3, <1>4 DEF Init, IndInv, ControlPath, PreviewHidden, PreviewCounted, Stopping

\* A stuttering step preserves the invariant.
LEMMA StutterInv ==
  ASSUME IndInv, UNCHANGED vars
  PROVE  IndInv'
<1>1. UNCHANGED <<producer, created, preview, live, control, depth>>
  BY DEF vars
<1> QED
  BY <1>1 DEF IndInv, Typed, ControlPath, Owned, PreviewHidden, PreviewCounted, Aligned,
              LeavingShadow, Stopping, Victim

\* Every step preserves the invariant.
LEMMA StepInv == IndInv /\ [Next]_vars => IndInv'
<1> SUFFICES ASSUME IndInv, [Next]_vars PROVE IndInv'
  OBVIOUS
<1>1. ASSUME NEW p \in Producers, DecodeStep(p) PROVE IndInv'
  BY <1>1, InitializeDecoderInv, ProduceLoopInv, ReadFrameInv, MakeStubFrameInv,
     StampFrameInv, TestShadowInv, CacheFrameInv, PushFrameInv DEF DecodeStep
<1>2. ASSUME NEW p \in Producers, WaitForClock(p) PROVE IndInv'
  BY <1>2, WaitForClockInv
<1>3. ASSUME NEW p \in Producers, RequestTeardown(p) PROVE IndInv'
  BY <1>3, RequestTeardownInv
<1>4. CASE LoadPreviewAsset
  BY <1>4, LoadPreviewAssetInv
<1>5. CASE ActivatePreviewAsLive
  BY <1>5, ActivateInv
<1>6. CASE Destroy
  BY <1>6, DestroyInv
<1>7. CASE DiscardPreview
  BY <1>7, LeaveShadowInv, ClearShadowInv DEF DiscardPreview
<1>8. CASE StopProducer
  BY <1>8, StopSkippedInv, StopAskedInv
<1>9. CASE JoinProducer
  BY <1>9, JoinProducerInv
<1>10. CASE DropPreview
  BY <1>10, DropPreviewInv
<1>11. CASE CreatePreview
  BY <1>11, CreatePreviewInv
<1>12. CASE AlignPTS
  BY <1>12, AlignPTSInv
<1>13. CASE ExitShadow
  BY <1>13, LeaveShadowInv, ClearShadowInv DEF ExitShadow
<1>14. CASE Promote
  BY <1>14, PromoteInv
<1>15. CASE Pop
  BY <1>15, PopInv
<1>16. CASE UNCHANGED vars
  BY <1>16, StutterInv
<1> QED
  BY <1>1, <1>2, <1>3, <1>4, <1>5, <1>6, <1>7, <1>8, <1>9, <1>10, <1>11, <1>12, <1>13,
     <1>14, <1>15, <1>16 DEF Next

\* The invariant holds in every state.
LEMMA IndInvHolds == Spec => []IndInv
BY InitInv, StepInv, PTL DEF Spec

-----------------------------------------------------------------------------

\* Slots, decode threads, the ring and the control thread of the state machine
\* stay in their domains.
THEOREM TypeCorrect == Spec => []TypeOK
<1>1. IndInv => TypeOK
  BY SlotsFilled DEF IndInv, Typed, TypeOK, Record, Sound
<1> QED
  BY <1>1, IndInvHolds, PTL

\* Between slot operations only the live producer's thread can push: the preview
\* is behind its flag, and every other thread has been joined.
THEOREM OneWriter == Spec => []OneWriterAtRest
<1>1. IndInv => OneWriterAtRest
  <2> SUFFICES ASSUME IndInv, control.at = "idle", NEW p \in Producers, Active(p),
                      ~producer[p].shadow \/ producer[p].thread = "push"
               PROVE  p = live
    BY DEF OneWriterAtRest, At
  <2>1. Sound(producer[p])
    BY SlotsFilled
  <2>2. p \in {preview, live}
    BY <2>1 DEF IndInv, Owned, Sound, Runs, Active
  <2>3. p # preview
    <3> SUFFICES ASSUME p = preview PROVE FALSE
      OBVIOUS
    <3>1. producer[p].shadow
      BY DEF IndInv, PreviewHidden, LeavingShadow, Stopping
    <3> QED
      BY <2>1, <3>1 DEF Sound, PastShadow
  <2> QED
    BY <2>2, <2>3
<1> QED
  BY <1>1, IndInvHolds, PTL

\* stop() joins before a slot is reset, switched or destroyed and before the
\* decoder is closed.
THEOREM NoThreadLeftBehind == Spec => []JoinedBeforeReleased
<1>1. IndInv => JoinedBeforeReleased
  BY SlotsFilled DEF IndInv, Owned, Sound, Runs, JoinedBeforeReleased, Active
<1> QED
  BY <1>1, IndInvHolds, PTL

\* A step that updates one producer leaves the others alone.
LEMMA UpdateLocal ==
  ASSUME IndInv, NEW v, NEW r, Update(v, r), NEW p \in Producers
  PROVE  IF p = v THEN producer'[p] = r ELSE producer'[p] = producer[p]
BY DEF IndInv, Typed, Update

\* Only StampFrame takes a decode thread from its stamp to the test of the shadow flag.
LEMMA OnlyStampFrameStamps ==
  ASSUME IndInv, Next, NEW p \in Producers,
         producer[p].thread = "stamp", producer'[p].thread = "shadow"
  PROVE  StampFrame(p)
<1> SUFFICES ASSUME ~StampFrame(p) PROVE producer'[p].thread # "shadow"
  OBVIOUS
<1>1. producer[p] \in Record /\ producer \in [Producers -> Record]
  BY DEF IndInv, Typed
<1>2. CASE \E r \in Producers : DecodeStep(r) \/ WaitForClock(r)
  <2>1. PICK r \in Producers : DecodeStep(r) \/ WaitForClock(r)
    BY <1>2
  <2>2. r # p
    BY <2>1 DEF DecodeStep, InitializeDecoder, ProduceLoop, ReadFrame, MakeStubFrame,
                TestShadow, CacheFrame, PushFrame, WaitForClock
  <2>3. producer'[p] = producer[p]
    BY <1>1, <2>1, <2>2
    DEF DecodeStep, InitializeDecoder, ProduceLoop, ReadFrame, MakeStubFrame, StampFrame,
        TestShadow, CacheFrame, PushFrame, WaitForClock, GoTo, Update
  <2> QED
    BY <2>3
<1>3. ASSUME NEW v, NEW r, Update(v, r), r.thread \in {"init", "top", producer[v].thread}
      PROVE  producer'[p].thread # "shadow"
  BY <1>3, UpdateLocal
<1>4. CASE \E r \in Producers : RequestTeardown(r)
  <2>1. PICK r \in Producers : Update(r, [producer[r] EXCEPT !.teardown = TRUE])
    BY <1>4 DEF RequestTeardown
  <2>2. [producer[r] EXCEPT !.teardown = TRUE].thread = producer[r].thread
    BY <1>1 DEF Record
  <2> QED
    BY <1>3, <2>1, <2>2
<1>5. CASE LoadPreviewAsset \/ ActivatePreviewAsLive \/ Pop
  BY <1>5 DEF LoadPreviewAsset, ActivatePreviewAsLive, Pop
<1>6. ASSUME NEW slot, Released(slot) PROVE producer'[p].thread # "shadow"
  BY <1>6 DEF Released, Gone, NoProducer
<1>7. CASE Destroy \/ Promote
  BY <1>6, <1>7 DEF Destroy, Promote, Released
<1>8. CASE DiscardPreview \/ ExitShadow
  <2>1. preview \in Producers
    BY <1>8, SlotsFilled
    DEF IndInv, ControlPath, DiscardPreview, ExitShadow, LeaveShadow, ClearShadow, At
  <2>2. producer[preview] \in Record
    BY <1>1, <2>1
  <2>3. /\ [producer[preview] EXCEPT !.shadow = FALSE].thread = producer[preview].thread
        /\ [producer[preview] EXCEPT !.ready = FALSE].thread = producer[preview].thread
    BY <2>2 DEF Record
  <2>4. \/ Update(preview, [producer[preview] EXCEPT !.shadow = FALSE])
        \/ Update(preview, [producer[preview] EXCEPT !.ready = FALSE])
    BY <1>8 DEF DiscardPreview, ExitShadow, LeaveShadow, ClearShadow
  <2> QED
    BY <1>3, <2>3, <2>4
<1>9. CASE StopProducer \/ JoinProducer
  <2> DEFINE v == Victim
  <2>1. v # None => v \in Producers
    BY SlotsFilled DEF Victim
  <2>2. CASE UNCHANGED producer
    BY <2>2
  <2>3. CASE v # None /\ Update(v, [producer[v] EXCEPT !.state = "STOPPING", !.stop = TRUE,
                                                       !.teardown = FALSE])
    <3>1. [producer[v] EXCEPT !.state = "STOPPING", !.stop = TRUE,
                              !.teardown = FALSE].thread = producer[v].thread
      BY <1>1, <2>1, <2>3 DEF Record
    <3> QED
      BY <1>3, <2>3, <3>1
  <2>4. CASE v # None /\ Update(v, [producer[v] EXCEPT !.decoder = "closed", !.state = "STOPPED"])
    <3>1. [producer[v] EXCEPT !.decoder = "closed",
                              !.state = "STOPPED"].thread = producer[v].thread
      BY <1>1, <2>1, <2>4 DEF Record
    <3> QED
      BY <1>3, <2>4, <3>1
  <2> QED
    BY <1>9, <2>2, <2>3, <2>4 DEF StopProducer, JoinProducer, IndInv, ControlPath, At
<1>10. CASE DropPreview
  <2>1. Update(preview, Gone(preview))
    BY <1>10 DEF DropPreview
  <2>2. Gone(preview).thread = producer[preview].thread
    BY DEF Gone, NoProducer
  <2> QED
    BY <1>3, <2>1, <2>2
<1>11. CASE CreatePreview
  <2>1. \/ UNCHANGED producer
        \/ \E mode \in {"real", "stub"} : Update(created', Started(mode))
    BY <1>11 DEF CreatePreview
  <2>2. \A mode \in {"real", "stub"} : Started(mode).thread \in {"init", "top"}
    BY DEF Started, NoProducer
  <2> QED
    BY <1>3, <2>1, <2>2
<1>12. CASE AlignPTS
  <2> DEFINE off == OffsetFor(producer[preview], control.target)
             r == [producer[preview] EXCEPT !.offset = off, !.target = control.target,
                                            !.aligned = TRUE]
  <2>1. preview \in Producers /\ Update(preview, r)
    BY <1>12, SlotsFilled DEF IndInv, ControlPath, AlignPTS, At
  <2>2. r.thread = producer[preview].thread
    BY <1>1, <2>1 DEF Record
  <2> QED
    BY <1>3, <2>1, <2>2
<1> QED
  BY <1>2, <1>4, <1>5, <1>7, <1>8, <1>9, <1>10, <1>11, <1>12 DEF Next

\* AlignPTS runs beside the decode loop.  The first frame stamped after it misses the
\* target by the file's own spacing at that place less one frame interval; the frame
\* that was in the thread's hand is one interval early; a stub is on the target,
\* or one interval late.  This holds for files of any rate and with any gaps.
THEOREM AlignmentLands == Spec => FirstFrameAligned
<1> DEFINE Lands ==
      \A p \in Producers :
        LET q == producer[p] IN
        q.aligned /\ q.thread = "stamp" /\ producer'[p].thread = "shadow" =>
          producer'[p].frame - q.target \in
            (IF q.mode = "real" THEN {q.gap - Interval} ELSE {0, Interval})
<1>1. ASSUME IndInv, Next PROVE Lands
  <2> SUFFICES ASSUME NEW p \in Producers, producer[p].aligned, producer[p].thread = "stamp",
                      producer'[p].thread = "shadow"
               PROVE  producer'[p].frame - producer[p].target \in
                        (IF producer[p].mode = "real" THEN {producer[p].gap - Interval}
                                                      ELSE {0, Interval})
    OBVIOUS
  <2> DEFINE q == producer[p]
  <2>1. StampFrame(p)
    BY <1>1, OnlyStampFrameStamps
  <2>2. q \in Record /\ Sound(q)
    BY <1>1, SlotsFilled
  <2>3. producer'[p].frame = q.frame + q.offset
    BY <1>1, <2>1, <2>2 DEF StampFrame, Update, IndInv, Typed, Record
  <2>4. q.mode \in {"stub", "real"}
    BY <2>2 DEF Record
  <2> DEFINE miss == (q.frame + q.offset) - q.target
  <2>5. /\ q.frame \in Int /\ q.offset \in Int /\ q.target \in Int /\ q.gap \in Int
        /\ Interval \in Int
    BY <2>2 DEF Record
  <2>6. OnTarget(q) /\ q.aligned /\ q.thread = "stamp"
    BY <2>2 DEF Sound
  <2>7. /\ q.mode = "real" => miss = q.gap - Interval
        /\ q.mode = "stub" => miss = 0 \/ miss = Interval
    BY <2>5, <2>6 DEF OnTarget, StubUpcoming
  <2>8. producer'[p].frame - producer[p].target = miss
    BY <2>3
  <2> HIDE DEF miss
  <2>9. CASE producer[p].mode = "real"
    BY <2>7, <2>8, <2>9
  <2>10. CASE producer[p].mode = "stub"
    BY <2>7, <2>8, <2>10
  <2> QED
    BY <2>4, <2>9, <2>10
<1>2. IndInv /\ [Next]_vars => [Lands]_vars
  BY <1>1
<1> QED
  BY <1>2, IndInvHolds, PTL DEF Spec, FirstFrameAligned
=============================================================================
