---------------------------- MODULE SeamlessSwitch ----------------------------
(***************************************************************************)
(* The preview and live slots of PlayoutControlStateMachine over            *)
(* VideoFileProducer: a preview decodes in shadow mode, is aligned with the *)
(* live producer's PTS and takes over the ring.  Slot operations hold       *)
(* mutex_, so one control thread stands for all callers; each producer has  *)
(* its decode thread.  A file's PTS are arbitrary: any rate, any gaps, any  *)
(* order.  A Push is atomic here (FrameRingBuffer has its detail).          *)
(***************************************************************************)
EXTENDS Integers

CONSTANTS Loads,      \* bound: producers are numbered 1 .. Loads as they are created
          MaxFrames,  \* bound: frames in a file, or of one stub producer
          Capacity,   \* of the FrameRingBuffer
          Interval,   \* frame_interval_us_, from the configured rate
          FrameDuration,  \* 33'366, written into activatePreviewAsLive
          FilePts     \* the PTS that frames of a file may carry, in microseconds

ASSUME SwitchAssumption ==
  /\ Loads \in Nat \ {0} /\ MaxFrames \in Nat \ {0} /\ Capacity \in Nat \ {0}
  /\ Interval \in Nat \ {0} /\ FrameDuration \in Nat /\ FilePts \subseteq Int

VARIABLES producer,   \* the VideoFileProducer objects
          created,    \* how many have been created
          preview, live,  \* the producers in the slots, or None
          control,    \* what the thread that holds mutex_ does next
          depth       \* frames in the ring

vars == <<producer, created, preview, live, control, depth>>

None == 0
Producers == 1 .. Loads
Threads == {"none", "init", "top", "decode", "stamp", "shadow", "cache", "wait", "push", "exited"}

\* thread is the next step of the decode thread; frame the PTS in its hand;
\* ready both shadow_decode_ready_ and cached_first_frame_, which change
\* together under shadow_decode_mutex_.  target, aligned and gap are histories: the
\* PTS asked for by AlignPTS, whether no frame has been stamped since, and how far
\* past last_pts_us_ AssembleFrame has put the frame it made since.
NoProducer == [state |-> "NONE", stop |-> FALSE, teardown |-> FALSE, shadow |-> FALSE,
               ready |-> FALSE, thread |-> "none", mode |-> "stub", decoder |-> "closed",
               last |-> 0, offset |-> 0, count |-> 0, frame |-> 0, target |-> 0,
               aligned |-> FALSE, gap |-> 0]

\* Constructed by the factory, put into shadow mode, then start()ed.
Started(mode) ==
  [NoProducer EXCEPT !.state = "RUNNING", !.shadow = TRUE, !.mode = mode,
                     !.thread = IF mode = "real" THEN "init" ELSE "top"]

\* Destroyed; the thread, if there still were one, would go on.
Gone(p) == [NoProducer EXCEPT !.state = "DESTROYED", !.thread = producer[p].thread]

Init ==
  /\ producer = [p \in Producers |-> NoProducer]
  /\ created = 0
  /\ preview = None /\ live = None
  /\ control = [at |-> "idle", then |-> "idle", target |-> 0]
  /\ depth = 0

-----------------------------------------------------------------------------
(* The decode thread: VideoFileProducer::ProduceLoop.                      *)

Update(p, q) == producer' = [producer EXCEPT ![p] = q]
GoTo(p, at) == Update(p, [producer[p] EXCEPT !.thread = at])
slotVars == <<created, preview, live, control>>

\* Opening the file fails at any of its steps after releasing what the earlier
\* ones took; the producer goes on with stub frames.
InitializeDecoder(p) ==
  LET q == producer[p] IN
  /\ q.thread = "init"
  /\ \/ Update(p, [q EXCEPT !.thread = "top", !.decoder = "open"])
     \/ Update(p, [q EXCEPT !.thread = "top", !.mode = "stub"])
  /\ UNCHANGED <<slotVars, depth>>

\* The top of the loop.  A teardown ends when the ring is empty, or at the
\* deadline with ForceStop.  eof_reached_ never is set here: ProduceRealFrame
\* sets it and returns into a break.
ProduceLoop(p) ==
  LET q == producer[p] IN
  /\ q.thread = "top"
  /\ \/ q.stop /\ GoTo(p, "exited")
     \/ ~q.stop /\ q.state # "RUNNING" /\ GoTo(p, "top")
     \/ /\ ~q.stop /\ q.teardown
        /\ \/ depth = 0 /\ GoTo(p, "exited")
           \/ depth > 0 /\ Update(p, [q EXCEPT !.thread = "exited", !.stop = TRUE])
     \/ /\ ~q.stop /\ q.state = "RUNNING"
        /\ ~q.teardown \/ depth > 0      \* or the deadline has not passed
        /\ GoTo(p, IF q.mode = "stub" THEN "wait" ELSE "decode")
  /\ UNCHANGED <<slotVars, depth>>

\* Faulty variant: a wait for the clock that does not look at stop_requested_.
WaitForClockOnly(p) ==
  LET q == producer[p] IN
  /\ q.thread = "wait" /\ ~q.stop
  /\ GoTo(p, IF q.mode = "stub" THEN "decode" ELSE "push")
  /\ UNCHANGED <<slotVars, depth>>

\* A stub frame waits for its deadline before it is made, a decoded frame for
\* the clock before it is pushed; stop_requested_ ends either wait, not the frame.
WaitForClock(p) ==
  LET q == producer[p] IN
  /\ q.thread = "wait"
  /\ GoTo(p, IF q.mode = "stub" THEN "decode" ELSE "push")
  /\ UNCHANGED <<slotVars, depth>>

\* AssembleFrame keeps the file's PTS above last_pts_us_, which includes the
\* offset, and stores it before the offset is added.
AssembledPts(q, raw) == IF raw <= q.last THEN q.last + Interval ELSE raw

\* Read, decode and scale one packet.  The end of the file ends the thread; an
\* error, or a packet that yields no frame, goes back to the loop.
ReadFrame(p) ==
  LET q == producer[p] IN
  /\ q.thread = "decode" /\ q.mode = "real"
  /\ \/ GoTo(p, "exited")
     \/ GoTo(p, "top")
     \/ /\ q.count < MaxFrames
        /\ \E raw \in FilePts :
             LET pts == AssembledPts(q, raw) IN
             Update(p, [q EXCEPT !.thread = "stamp", !.count = @ + 1, !.last = pts, !.frame = pts,
                                 !.gap = IF q.aligned THEN pts - q.last ELSE 0])
  /\ UNCHANGED <<slotVars, depth>>

StubPts(n) == n * Interval

\* ProduceStubFrame takes the next number of stub_pts_counter_.
MakeStubFrame(p) ==
  LET q == producer[p] IN
  /\ q.thread = "decode" /\ q.mode = "stub"
  /\ IF q.count < MaxFrames
     THEN Update(p, [q EXCEPT !.thread = "stamp", !.count = @ + 1, !.frame = StubPts(q.count)])
     ELSE GoTo(p, "top")
  /\ UNCHANGED <<slotVars, depth>>

\* pts_offset_us_ is read and last_pts_us_ written, without synchronisation
\* with AlignPTS and GetNextPTS on the control thread.
StampFrame(p) ==
  LET q == producer[p]
      pts == q.frame + q.offset
  IN
  /\ q.thread = "stamp"
  /\ Update(p, [q EXCEPT !.thread = "shadow", !.frame = pts, !.last = pts,
                         !.aligned = FALSE, !.target = 0, !.gap = 0])
  /\ UNCHANGED <<slotVars, depth>>

\* shadow_decode_mode_ is read once for a frame.
TestShadow(p) ==
  LET q == producer[p] IN
  /\ q.thread = "shadow"
  /\ GoTo(p, IF q.shadow THEN "cache" ELSE IF q.mode = "real" THEN "wait" ELSE "push")
  /\ UNCHANGED <<slotVars, depth>>

\* Under shadow_decode_mutex_: the first frame is kept, later ones dropped.
CacheFrame(p) ==
  LET q == producer[p] IN
  /\ q.thread = "cache"
  /\ Update(p, [q EXCEPT !.thread = "top", !.ready = TRUE, !.frame = 0])
  /\ UNCHANGED <<slotVars, depth>>

\* Faulty variant: a full ring is not noticed.
PushFrameUnchecked(p) ==
  LET q == producer[p] IN
  /\ q.thread = "push"
  /\ Update(p, [q EXCEPT !.thread = "top", !.frame = 0])
  /\ depth' = depth + 1
  /\ UNCHANGED slotVars

\* A full ring costs the frame: the next iteration decodes another one.
PushFrame(p) ==
  LET q == producer[p] IN
  /\ q.thread = "push"
  /\ Update(p, [q EXCEPT !.thread = "top", !.frame = 0])
  /\ depth' = IF depth < Capacity THEN depth + 1 ELSE depth
  /\ UNCHANGED slotVars

DecodeStep(p) ==
  \/ InitializeDecoder(p) \/ ProduceLoop(p) \/ ReadFrame(p) \/ MakeStubFrame(p)
  \/ StampFrame(p) \/ TestShadow(p) \/ CacheFrame(p) \/ PushFrame(p)

-----------------------------------------------------------------------------
(* The control thread, under mutex_.                                       *)

At(step) == control.at = step
ThenAt(step) == control' = [control EXCEPT !.at = step]
Idle == [at |-> "idle", then |-> "idle", target |-> 0]

\* loadPreviewAsset: an earlier preview goes first.
LoadPreviewAsset ==
  /\ At("idle")
  /\ ThenAt(IF preview = None THEN "create" ELSE "discard")
  /\ UNCHANGED <<producer, created, preview, live, depth>>

\* SetShadowDecodeMode(false) on the discarded preview, which still runs: the
\* flag first, then, under the shadow mutex, the cached frame.
LeaveShadow(p, from, to) ==
  /\ At(from) /\ ThenAt(to)
  /\ Update(p, [producer[p] EXCEPT !.shadow = FALSE])
  /\ UNCHANGED <<created, preview, live, depth>>

ClearShadow(p, from, to, then) ==
  /\ At(from)
  /\ control' = [control EXCEPT !.at = to, !.then = then]
  /\ Update(p, [producer[p] EXCEPT !.ready = FALSE])
  /\ UNCHANGED <<created, preview, live, depth>>

DiscardPreview ==
  \/ LeaveShadow(preview, "discard", "discardClear")
  \/ ClearShadow(preview, "discardClear", "stop", "dropPreview")

\* The producer that the control thread is stopping.
Victim == IF control.then \in {"dropPreview", "gone"} THEN preview ELSE live

\* VideoFileProducer::stop: ask, join, close the decoder.
StopProducer ==
  LET q == producer[Victim] IN
  /\ At("stop")
  /\ IF Victim # None /\ q.state = "RUNNING"
     THEN /\ Update(Victim, [q EXCEPT !.state = "STOPPING", !.stop = TRUE, !.teardown = FALSE])
          /\ ThenAt("join")
     ELSE ThenAt(control.then) /\ UNCHANGED producer
  /\ UNCHANGED <<created, preview, live, depth>>

\* Faulty variant: the decoder is closed under the running thread.
JoinProducerTooLate ==
  /\ At("join")
  /\ Update(Victim, [producer[Victim] EXCEPT !.decoder = "closed", !.state = "STOPPED"])
  /\ ThenAt(control.then)
  /\ UNCHANGED <<created, preview, live, depth>>

JoinProducer ==
  LET q == producer[Victim] IN
  /\ At("join") /\ q.thread \in {"none", "exited"}
  /\ Update(Victim, [q EXCEPT !.decoder = "closed", !.state = "STOPPED"])
  /\ ThenAt(control.then)
  /\ UNCHANGED <<created, preview, live, depth>>

\* ProducerSlot::reset.
DropPreview ==
  /\ At("dropPreview")
  /\ Update(preview, Gone(preview))
  /\ preview' = None
  /\ ThenAt("create")
  /\ UNCHANGED <<created, live, depth>>

\* Faulty variant: shadow mode only when nothing is live, the test turned round.
CreateExposed ==
  /\ At("create") /\ created < Loads
  /\ created' = created + 1
  /\ preview' = created'
  /\ Update(created', [Started("stub") EXCEPT !.shadow = (live = None)])
  /\ control' = Idle
  /\ UNCHANGED <<live, depth>>

\* The factory is not set, fails, or yields a producer; a failure leaves the
\* slot empty.
CreatePreview ==
  /\ At("create") /\ control' = Idle
  /\ \/ /\ created < Loads
        /\ created' = created + 1
        /\ preview' = created'
        /\ \E mode \in {"real", "stub"} : Update(created', Started(mode))
     \/ UNCHANGED <<producer, created, preview>>
  /\ UNCHANGED <<live, depth>>

\* GetNextPTS adds the offset to a PTS that contains it.
NextPts(q) == IF q.last = 0 THEN q.offset ELSE q.last + Interval + q.offset

\* activatePreviewAsLive: false unless a ready preview is loaded; then the
\* live producer's next PTS, one frame of 33'366 us later, is the preview's target.
ActivatePreviewAsLive ==
  /\ At("idle") /\ preview # None /\ producer[preview].ready
  /\ control' = [control EXCEPT !.at = "align",
       !.target = IF live # None /\ producer[live].state = "RUNNING"
                  THEN NextPts(producer[live]) + FrameDuration ELSE 0]
  /\ UNCHANGED <<producer, created, preview, live, depth>>

\* Faulty variant: the frame interval is forgotten.
OffsetNoInterval(q, target) == IF q.last = 0 THEN target ELSE target - q.last

OffsetFor(q, target) == IF q.last = 0 THEN target ELSE target - (q.last + Interval)

AlignPTS ==
  LET q == producer[preview] IN
  /\ At("align") /\ ThenAt("leave")
  /\ Update(preview, [q EXCEPT !.offset = OffsetFor(q, control.target),
                               !.target = control.target, !.aligned = TRUE])
  /\ UNCHANGED <<created, preview, live, depth>>

ExitShadow ==
  \/ LeaveShadow(preview, "leave", "leaveClear")
  \/ ClearShadow(preview, "leaveClear", "stop", "promote")

\* The preview moves to the live slot; the old producer is destroyed.
Promote ==
  /\ At("promote")
  /\ producer' = [p \in Producers |-> IF p = live THEN Gone(p) ELSE producer[p]]
  /\ live' = preview /\ preview' = None
  /\ control' = Idle
  /\ UNCHANGED <<created, depth>>

\* ~PlayoutControlStateMachine destroys liveSlot, then previewSlot, and each
\* ~VideoFileProducer stops its thread.
Destroy ==
  \/ /\ At("idle")
     /\ control' = [control EXCEPT !.at = "stop", !.then = "liveGone"]
     /\ UNCHANGED <<producer, live, preview>>
  \/ /\ At("liveGone")
     /\ producer' = [p \in Producers |-> IF p = live THEN Gone(p) ELSE producer[p]]
     /\ live' = None
     /\ control' = [control EXCEPT !.at = "stop", !.then = "gone"]
     /\ UNCHANGED preview
  \/ /\ At("gone")
     /\ producer' = [p \in Producers |-> IF p = preview THEN Gone(p) ELSE producer[p]]
     /\ preview' = None
     /\ ThenAt("destroyed")
     /\ UNCHANGED live
  /\ UNCHANGED <<created, depth>>

ControlStep ==
  \/ DiscardPreview \/ StopProducer \/ JoinProducer \/ DropPreview \/ CreatePreview
  \/ AlignPTS \/ ExitShadow \/ Promote
  \/ ~At("idle") /\ Destroy

-----------------------------------------------------------------------------

\* The live producer is asked to drain.
RequestTeardown(p) ==
  /\ p = live /\ At("idle")
  /\ producer[p].state = "RUNNING"
  /\ Update(p, [producer[p] EXCEPT !.teardown = TRUE])
  /\ UNCHANGED <<slotVars, depth>>

\* The renderer takes a frame.
Pop ==
  /\ depth > 0 /\ depth' = depth - 1
  /\ UNCHANGED <<producer, slotVars>>

Next ==
  \/ \E p \in Producers : DecodeStep(p) \/ WaitForClock(p) \/ RequestTeardown(p)
  \/ LoadPreviewAsset \/ ActivatePreviewAsLive \/ Destroy
  \/ DiscardPreview \/ StopProducer \/ JoinProducer \/ DropPreview \/ CreatePreview
  \/ AlignPTS \/ ExitShadow \/ Promote
  \/ Pop

Spec == Init /\ [][Next]_vars

\* Threads are scheduled.  The clock need not advance: a waiting thread is sure
\* to go on only once it has been asked to stop.
LiveSpec ==
  /\ Spec
  /\ WF_vars(ControlStep)
  /\ \A p \in Producers : /\ WF_vars(DecodeStep(p))
                          /\ WF_vars(producer[p].stop /\ WaitForClock(p))

-----------------------------------------------------------------------------
Steps == {"idle", "discard", "discardClear", "stop", "join", "dropPreview", "create",
          "align", "leave", "leaveClear", "promote", "liveGone", "gone", "destroyed"}

\* Slots, decode threads, the ring and the control thread stay in their domains.
TypeOK ==
  /\ created \in 0 .. Loads
  /\ {preview, live} \subseteq 0 .. created
  /\ control.at \in Steps /\ control.then \in Steps
  /\ depth \in 0 .. Capacity
  /\ \A p \in Producers :
       /\ producer[p].thread \in Threads
       /\ producer[p].count \in 0 .. MaxFrames
       /\ producer[p].decoder = "open" => producer[p].mode = "real"

Active(p) == producer[p].thread \notin {"none", "exited"}

\* Between slot operations at most one decode thread can write the ring, however
\* previews were loaded, replaced, drained or switched before: the preview is
\* behind its shadow flag and holds no frame that passed it.
OneWriterAtRest ==
  At("idle") => \A p, r \in Producers :
    /\ Active(p) /\ (~producer[p].shadow \/ producer[p].thread = "push")
    /\ Active(r) /\ (~producer[r].shadow \/ producer[r].thread = "push")
    => p = r

\* Slot reset, switch and destruction leave no decode thread behind: a thread that
\* runs belongs to a producer in a slot, and its decoder has not been closed.
JoinedBeforeReleased ==
  \A p \in Producers :
    Active(p) =>
      /\ p \in {preview, live}
      /\ producer[p].mode = "real" /\ producer[p].thread # "init" => producer[p].decoder = "open"

\* AlignPTS runs beside the decode loop.  The first frame that is stamped after it
\* misses the target by exactly what the file's next PTS differs from one frame
\* interval, so a file at the configured rate meets it; a frame that was in the
\* thread's hand comes one interval early (gap is 0); a stub that has made no more than
\* frame 0, whose PTS reads as "none yet", comes one interval late.
FirstFrameAligned ==
  [][\A p \in Producers :
       LET q == producer[p] IN
       q.aligned /\ q.thread = "stamp" /\ producer'[p].thread = "shadow" =>
         producer'[p].frame - q.target \in
           (IF q.mode = "real" THEN {q.gap - Interval} ELSE {0, Interval})]_vars

\* Loading, switching and destroying return although they join decode threads
\* that may be waiting for a clock that stands still.
OperationsReturn == ~At("idle") ~> (At("idle") \/ At("destroyed"))

\* Across a switch the PTS in the ring neither jump back nor repeat, as the
\* engine contract promises: what the live producer still pushes lies before the
\* PTS the preview has been aligned to.  The code does not keep this.
LiveEndsBeforeTarget ==
  [][\A p \in Producers :
       /\ p = live /\ preview # None /\ producer[preview].aligned /\ control.then # "liveGone"
       /\ producer[p].thread = "push" /\ depth' > depth
       => producer[p].frame < control.target]_vars
==============================================================================
