# A TLA+ model of Retrovue-playout

Retrovue-playout ("air") is a C++ playout engine: a gRPC server starts channels,
each of which decodes a video file on one thread, buffers frames in a lock-free
ring and renders them on another thread, paced by a master clock. This
directory holds TLA+ modules translated from that code, TLC configurations that
check them on small instances, and TLAPS proofs of the facts that matter most.
Paths below are relative to the repository; `src/...` is the C++ source,
`docs/...` its contracts.

Run `tlc -config <cfg> <Module>` for the configurations named in *Runs* and
`tlapm <Module>Proofs.tla` for the proofs. `PROJECT.json` maps each definition
to the source lines it translates, and lists the hazards, disagreements with the
documents and theorems by name.

## 1. The system

### Components

| Component | State | Operations | What must be right |
|---|---|---|---|
| **FrameRingBuffer** `src/buffer/FrameRingBuffer.cpp` | two atomic indices, `capacity + 1` slots; the same again for audio | Push, Pop, Peek, Size, IsEmpty, Clear | one producer and one consumer without a lock: nothing lost, reordered, torn or overwritten |
| **PlayoutControlStateMachine** `src/runtime/PlayoutControlStateMachine.cpp` | control state, processed command ids, position, counters and latency vectors, under one mutex | BeginSession, Pause, Resume, Seek, Stop, Recover; depth, back-pressure, timeout and overflow events | legal states only, a resent command acts once, counters and samples tell the same story |
| **Preview and live slots** (same file, `ProducerSlot.cpp`) | two slots, each with a VideoFileProducer | loadPreviewAsset, activatePreviewAsLive | a switch loses no frame and keeps PTS monotonic |
| **PlayoutEngine** `src/runtime/PlayoutEngine.cpp` | `channels_`: per channel a ring, live and preview producer, renderer, control state; `channels_mutex_` | StartChannel, StopChannel, LoadPreview, SwitchToLive, UpdatePlan, destructor | half-done starts leave nothing, threads end before what they reference, every call returns |
| **FrameProducer** `src/decode/FrameProducer.cpp` | `running_`, `stop_requested_`, `teardown_requested_`, a thread, counters | Start, Stop, RequestTeardown, ProduceLoop | teardown ends and lets no stream of late frames through |
| **FrameRenderer** `src/renderer/FrameRenderer.cpp` | the same flags, a thread, timing of the current frame, statistics | Start, Stop, RenderLoop, resetPipeline, PublishMetrics | frames rendered at their PTS or dropped, only while there is another one |
| **FFmpegDecoder** `src/decode/FFmpegDecoder.cpp` | libav contexts | Open, DecodeNextFrame, Close | one decoded frame is one pushed frame |
| **VideoFileProducer** `src/producers/video_file/` | state, shadow-decode flag, cached first frame, PTS offset, decode thread, libav contexts | start, stop, RequestTeardown, SetShadowDecodeMode, AlignPTS, GetNextPTS, ProduceLoop | a shadow producer writes nothing; aligned PTS continue the live stream; contexts outlive the thread that uses them |
| **OrchestrationLoop** `src/runtime/OrchestrationLoop.cpp` | tick counter, back-pressure state, a thread | Start, Stop, Run, ReportBackPressureEvent | ticks keep their rate, stop is never starved |
| **MetricsExporter** `src/telemetry/MetricsExporter.cpp` | event ring of 1024, snapshots per channel, delivery counts, worker thread | Start, Stop, Submit..., WorkerLoop, Get... | the last submitted state is the one shown |
| **MetricsHTTPServer** `src/telemetry/MetricsHTTPServer.cpp` | listening socket, thread | Start, Stop, ServerLoop | start and stop in any order, stop returns |
| **MpegTSPlayoutSink, TsOutputSink** `src/playout_sinks/mpegts/` | state, listen and client sockets of the TCP sink or of the Unix-socket sink, PTS mapping, counters, worker and accept threads | start, stop, workerLoop, processFrame, tryAcceptClient, handleClientDisconnect, writeAllBlocking | a client may come and go at any time; no frame early, none unaccounted for; stop returns and releases everything |
| **EncoderPipeline** (same directory) | libav encoder and muxer, last PTS and DTS, continuity counters, alignment buffer | open, encodeFrame, close, AVIO callback | stamps strictly increasing with DTS <= PTS, counters continuous, no endless loop |
| **MpegTSEncoder, TSMuxer, PTSController**, legacy sink `src/sinks/mpegts/` | | | not on the path of the sink |
| **MasterClock** `src/timing/` | epoch and rate, or a settable test time | now, wait, PTS to UTC | conversions and waking |
| **Service, PlayoutController, main** `src/playout_service.cpp`, `src/main.cpp` | none of their own | one handler per RPC | forwards to the engine |

### How they interact

gRPC worker threads call `PlayoutEngine`, which holds `channels_mutex_` from the
first statement of each call to the last, waits included. A started channel
adds two threads that never take that mutex: the decode thread pushes into the
channel's ring and the render thread pops from it. They talk to the engine only
through atomics (`running_`, `stop_requested_`, `teardown_requested_`, the ring's
indices) and through joins. The engine calls the channel's control state machine
directly; all threads submit snapshots to the one `MetricsExporter`, whose
worker applies them. The control state machine's two slots hold
VideoFileProducers, which push into the ring they are given; their decode threads
share flags, a cached frame and a PTS offset with the control thread. The MPEG-TS
sink is another consumer of a ring: its worker peeks and pops, and calls the
encoder pipeline, whose muxer calls back into the sink to write to the client; the
accept thread calls the encoder pipeline too.

### What is hard here

* *Interleaving.* The ring has no lock and is read by three threads (decode,
  render, RPC), and by two decode threads after LoadPreview. The metrics queue
  is the same kind of ring with many submitters.
* *Waiting.* The engine waits for the ready depth, for drained producers and for
  joins while it holds the only mutex; its destructor takes that mutex too.
* *Partial failure.* Starting the second thread can throw, the ready depth may
  never be reached; what has been built must come down in an order that
  respects the references between threads and ring.
* *Retry.* A command is resent with the same id, possibly after a rejection,
  in another state, in another session.
* *Hand-over.* At a switch two producers are alive, one mid-frame, and three pieces of
  shared state (offset, shadow flag, cached frame) change one after the other.
* *Peers.* A client connects, blocks, goes away and returns while the worker encodes
  for it; accept and disconnect run on two threads without a lock.
* *Stale reads.* Readiness is decided on a depth that the other threads are
  changing, and read a second time afterwards.

Each such place is listed at its line under `hazards` in `PROJECT.json`.

## 2. Modules

| Module | Models | Extends / uses |
|---|---|---|
| `FrameRingBuffer` | the ring at the granularity of its atomic loads, stores and non-atomic frame copies | |
| `FrameQueue` | the abstract promise: a bounded FIFO with instantaneous operations | instantiated by `FrameRingBuffer` |
| `FrameRingBufferProofs` | inductive invariant and theorems | extends `FrameRingBuffer`, TLAPS |
| `PlayoutControl` | the control state machine | |
| `PlayoutControlProofs` | inductive invariant and theorems | extends `PlayoutControl`, TLAPS |
| `PlayoutEngine` | RPC callers, decode and render threads, channel lifecycle | the ring reduced to its depth |
| `PlayoutEngineProofs` | inductive invariant and theorems | extends `PlayoutEngine`, TLAPS |
| `MetricsExporter` | submitters, event queue, worker, start and stop | |
| `MCMetricsExporter` | the submissions tried by the runs | extends `MetricsExporter` |
| `MetricsExporterProofs` | inductive invariant and theorems | extends `MetricsExporter`, TLAPS |
| `SeamlessSwitch` | preview and live slots, the control thread, and the decode threads of the producers in them | the ring reduced to its depth |
| `SeamlessSwitchProofs` | inductive invariant and theorems | extends `SeamlessSwitch`, TLAPS |
| `MpegTSPlayoutSink` | worker, accept thread, start and stop of the sink, on TCP and over TsOutputSink | the encoder reduced to its open session, the ring to two counters |
| `MpegTSPlayoutSinkProofs` | inductive invariant and theorems | extends `MpegTSPlayoutSink`, TLAPS |
| `EncoderPipeline` | one encoder session after the other, up to the bytes written | libav reduced to what its calls may answer |
| `EncoderPipelineProofs` | inductive invariant and theorems | extends `EncoderPipeline`, TLAPS |

### FrameRingBuffer

`pc[t]` says where a thread is inside its call and `lidx[t]` is the index it
loaded into a local variable. Every atomic access is an action: `PushLoad`
(load `write_index_`), `PushCheck` (load `read_index_`, compare, maybe return
false), `PushBeginCopy`/`PushEndCopy` (copying a `Frame` owns heap memory and is
not atomic, so the slot is `Torn` in between), `PushStore` (publish). Pop and
Peek are alike; `Size` and `IsEmpty` are two loads each. The frames are
`<<producer, k>>`, all that order, loss and duplication need.

Acquire/release pairs are modelled as sequentially consistent steps: each index
has one writer, each thread reads the other's index once per call after its own,
and the copy is ordered by the release store and the acquire load, so weaker
orderings add no outcome for one producer and one consumer. `lidx` is kept
separate from the index variables on purpose: with two producers they differ.

Producers and consumers are sets. The runs with one of each are what the header
demands; `two_producers` shows what `LoadPreview` makes of it.

### PlayoutControl

Each handler locks `mutex_` for its whole body, so each is one action with the
duplicate check, the state check, the effects and the telemetry of the code, in
one disjunct per way out: `Duplicate`, `Reject`, accepted. A handler that makes
several transitions (`Stop`, `Seek`, `OnBufferDepth`) counts all their edges in
one step (`TransitionLocked`). `transitions` is the two-level map
`transitions_`; `samples` has the lengths of the latency vectors; `late` abstracts
"the effective time exceeds the request time by more than the threshold". Histories: `applied`
(effects per command id) and `acked` (ids answered true).

### PlayoutEngine

`pc[r]` is where an RPC thread stands in its handler, always with `mutex = r`
after the lock: `poll` and `publish` (the wait for `kReadyDepth` and what follows),
`unwindRenderer`/`unwindLive` (destruction of the half-built `ChannelState`, in
the reverse order of its members), `stopRenderer`, `stopLive`, `stopPreview`, `switchLive`
(StopChannel and SwitchToLive), `replacePreview`. A producer record has the three
flags of the class and where its thread is; `TestFlags` is the head of
`ProduceLoop`, `ProduceFrame` the rest. A renderer has its stop flag, its thread and
`derived`: whether the `HeadlessRenderer` part, to which the render thread makes
virtual calls, still exists (`~FrameRenderer` runs after it is gone). Time is
abstracted: a deadline may have passed whenever it is looked at. The ring is its
depth, which is what `FrameRingBuffer` justifies for one producer and one
consumer: its operations are instantaneous there (`ImplementsQueue`, proved as
`RingImplementsQueue`).

### MetricsExporter

A submitter reads `running_` once (`Submit`) and then either writes the tables itself
(`SubmitDirect`) or pushes: `PushLoad`, `PushCheck` (a full queue is counted and
refused), `PushCopy`, `PushStore`, `CountSubmitted`. The worker's loop is `TestStop`, `TestEmpty`,
`PopEvent`, `ApplyEvent`, `CountProcessed`; its wait on `queue_cv_` ends by itself after
50 ms, so a missed notification costs nothing and the wait is not a state. Start and Stop
are split at `running_`, `stop_requested_`, the creation (or the failure of the HTTP server) and the join. The
tables are those of one channel, one descriptor and one transport: each kind of event acts
on one of them and different keys do not meet. `log` is the history of accepted events, `queued` of those among them that went through
the queue; `overtaken` records
that a direct write passed a queued event, which the code allows while a stop
drains the queue.

### SeamlessSwitch

`control.at` is where the one thread that holds `mutex_` is inside loadPreviewAsset
(`discard`, `discardClear`, `stop`, `join`, `dropPreview`, `create`),
activatePreviewAsLive (`align`, `leave`, `leaveClear`, `stop`, `join`, `promote`) or the
destructor; `control.then` is where `VideoFileProducer::stop` returns to. A producer is
a record of its flags and of `thread`, the next step of its `ProduceLoop`: the frame
it is working on (`frame`) survives a change of the flags, as the local variables of
`ProduceRealFrame` do. `ready` stands for `shadow_decode_ready_` and `cached_first_frame_`
together. A decoded frame carries any of `FilePts` (in microseconds; the proofs take any set of integers), so
files of another rate, of a variable one, with gaps or out of order are included. `AssembledPts` is
AssembleFrame's correction of a PTS that does not increase, `Interval` is `frame_interval_us_`, which comes
from the configured rate and not from the file, and `FrameDuration` the 33,366 us that activatePreviewAsLive
adds whatever the rate. Histories: `target` (the PTS asked for by AlignPTS), `aligned` (AlignPTS
was called and no frame has been stamped since) and `gap` (how far past `last_pts_us_` AssembleFrame put
the frame it made in between).

What the definitions say that the names in the code do not: a discarded preview
leaves shadow mode before it is stopped and may push (`LeaveShadow` in `DiscardPreview`);
during a switch both producers write the ring; a frame whose stamp was taken before
AlignPTS may be pushed unaligned afterwards; `eof_reached_` is never seen by the loop; a
full ring loses the frame although the comment says that it is retried (`PushFrame`).

### MpegTSPlayoutSink

`mode` chooses between the sink's own TCP socket and `TsOutputSink`; the steps of both are
the same up to the places where the code differs: who accepts (worker and accept thread, or
the accept thread alone), the order in which a disconnect closes, clears and marks
(`FailWrite`, `DropClient`), and how the worker learns of a client (`PollClient`). A thread
record has `at`, `back` (where a write returns to) and `then` (where closing the encoder returns
to), because writing is called from encoding, from flushing and from the shutdown, by three
threads. A client's number is its descriptor; `session` is the client for which the
encoder was opened. The clock is an integer, PTS are 0, 1, 2, ...; `base` is
`sink_start_time_utc_us_`, set by the first frame and never again.

### EncoderPipeline

`at` is the place in open, encodeFrame or close; libav's calls answer by choice among
success, EAGAIN and failure, within what the encoder can hold (`inflight`). `held` says how
many of the resources of open() are taken: a failure calls close(), which returns at once
because `initialized_` is not set. `HandleAVIOWrite` is what the muxer may do whenever it is called
once the header is being written: one TS packet of any PID, with any counter, with or without
payload or discontinuity flag, may be completed and is corrected by `ProcessTSPackets`. `sent` is the
history a receiver has: the last counter on each PID. `packet` holds the stamps of `packet_` while
it is on its way to the muxer, `written` those of the last enforced packet that the muxer took. Two kinds
of packets are told apart by `at`: those received after a frame was sent and those flushed by close()
pass `EnforcePacket`; those drained to make room in a full encoder (`DrainPacket`, `MuxDrainedPacket`) keep the
encoder's stamps and are not remembered.

## 3. Runs

| Run | Expect | Shows |
|---|---|---|
| `ring` | pass | safety of the ring, refinement of `FrameQueue`, delivery of every frame |
| `two_producers` | violation | with two producers an accepted frame is lost |
| `control` | pass | states, counters, samples and deduplication after every six-call history |
| `engine` | pass | starts, failed starts, previews, teardowns with two RPC threads |
| `engine_stop` | violation | StopChannel and SwitchToLive never return |
| `metrics` | pass | one submitter, the worker, two starts and stops |
| `metrics_writers` | violation | with two submitters, which the engine has, an accepted event is lost |
| `switch` | pass | two producers loaded, replaced, drained, switched and destroyed |
| `switch_pts` | violation | a live producer pushes frames at or beyond the PTS the preview was aligned to |
| `encoder` | pass | sessions with two frame sizes against an encoder and a muxer that fail, refuse and delay |
| `sink` | pass | the sink on TCP and on a Unix socket, with two clients, two frames, start and stop |
| `sink_own_stream` | violation | a client receives the rest of another client's stream |

### What the passing runs check

`ring`: `PopReturnsNext` (in order, once, whole), `PeekStaysValid` (the pointer
Peek hands out stays good until the next Pop, whatever is pushed meanwhile; `FrameRingBuffer.h:108` promises less,
"only valid until the next Pop() or Push()", and the sink's worker, which peeks while the producer
pushes, needs the stronger fact), `NoSlotRace` (no concurrent access to one slot), `ObserversAreSafe` (Size and
IsEmpty, each read from the one thread whose decisions rest on it: the drop rule of the
renderer, the drain of the producer), `ImplementsQueue`, `EveryFrameDelivered`.
`NothingLost` (the occupied slots are exactly the accepted, undelivered frames) is proved for one
producer and refuted by `two_producers`.

`control`: `TransientStatesInvisible`, `SamplesMatchTransitions`,
`WalkUnlessRejected` (the counted edges reconstruct the channel's path as long
as nothing was rejected), `EffectAtMostOnce`, `ErrorLeftOnlyByCommand`.

`engine`: `NoThreadOutlivesRing` (however a start fails), `NoOrphanChannel` (what
`channels_` does not hold belongs to a start in progress), `OneLateFrame`,
`TeardownEnds`, `StartAndLoadReturn`.

`metrics`: `NothingLost` (the queue holds exactly the accepted events not yet popped, in
order, across stop and restart), `SettledTablesAgree` (with the queue empty the tables say
what the accepted events say), `StopFlushes`, `DrainedMeansApplied`
(`WaitUntilDrainedForTest`, on which the contract tests rest), `StopReturns`,
`AcceptedIsProcessed`.

`switch`: `OneWriterAtRest` (between slot operations one decode thread at most can write the
ring), `JoinedBeforeReleased` (no decode thread outlives its slot or its decoder),
`FirstFrameAligned` (by how much the first frame stamped after AlignPTS misses the target: a
decoded frame by exactly what the file's next PTS differs from one `Interval`, that is not at all only for a
file at the configured rate; a decoded frame that was in the thread's hand by one `Interval` to the early side; a stub frame not at all, or by one `Interval` to the late side if only frame 0 was made, whose PTS reads as "none yet"),
`OperationsReturn` (also when the clock stands still). The documents ask for an exact hit: see section 5.

`encoder`: `EnforcedPacketsOrdered` (an enforced packet has its DTS not after its PTS),
`EnforcedPacketsAdvance` (both stamps of an enforced packet are past those of every enforced packet
the muxer took before, over refusals, flushes, reconfigurations and sessions, with drained packets in between).
Both say nothing of drained packets, whose stamps are the encoder's: see section 5. `ContinuityKept` (what a receiver sees on each PID), `EncodeReturns`.

`sink`: `FramesAccounted` (a popped frame is counted once, as sent or dropped),
`NeverEarly` (although the time was sampled before calls that block), `SocketKeepsDescriptors` (on the
Unix socket; it holds because a disconnect closes and clears before it marks),
`StopReleases`, `StopReturns`, `FramesFlow` (the ring is drained with and without a client). On TCP the
descriptors are not kept: see `sink_own_stream`.

### Bounds

* Ring: capacity 3 (4 slots) and 7 accepted frames take both indices around the
  ring almost twice; every position of the wrap relative to the other
  index occurs. The violation runs need less.
* Control: six handler calls, one command id plus the empty one, positions 0
  and 1. Six calls reach every state and allow: begin, play, command, error,
  recovery, resend. Depths run up to one above the threshold. The proofs remove
  these bounds.
* Engine: one channel (channels share nothing but the mutex, and a second caller
  contends for that), two callers, capacity 3, ready depth 2 (the code's 60 and 3):
  a ready depth below capacity and above 1, so the poll can fail, pass, and be
  undone by the renderer.
* Metrics: a queue of three slots (1024 in the code) and three submissions fill it, overflow it and
  wrap it; `ThreeEvents` lets a channel be updated and removed or updated again and a
  descriptor be deprecated and registered again; two starts leave room for events that
  stay queued over a stop. With at most three submissions `StopReturns` does not show that a
  worker fed without end would stop; but a thread that saw the exporter running pushes
  once, so no more than one event per thread can arrive after `running_` is cleared.

* Switch: two producers, which is what the slots hold, are enough for a first activation
  without a live producer, a switch, a replaced preview and a failed creation in between; two
  frames each, so that one can be cached or pushed while the next is in the thread's hand; a ring of one
  frame is full, empty and drained. An interval of 2, a frame duration of 3 and file PTS of 1 and 4 give
a first PTS below and above the interval, a step that is none of the interval (3), and PTS that repeat or go back
and are corrected. `switch_pts` uses three frames, a ring of two and files at exactly the configured rate, so
that the disagreement does not stem from the file.
* Encoder: two sizes make every frame a first, a repeated or a changed one; two PIDs
  show that their counters do not mix; counters modulo 3 (16 in the code) wrap and tell one step from two;
  an encoder that holds two frames fills up; drain and packet limits of 2 (5 and 10) are reached;
  stamps up to 3 collide and run out of order. The proofs remove these bounds.
* Sink: two clients meet in every way (the second while the first is served, dropped,
  failing, or accepted by the other thread); two frames on a ring of one, so a frame may be early, in
  time, late or waiting while the other is encoded; a clock of four values and a tolerance of one give
  each verdict with and without a mapping. Until the first frame sets the mapping the clock
  stops `MaxFrames - 1` short of its `Horizon`, so that the last deadline lies within it.

`CHECK_DEADLOCK FALSE` is used where the program really stops: the control run at
the end of its six calls, the exporter when it is stopped and all submissions are made, the engine after its destruction, after an abort,
and when its destructor or a stop waits forever, the slots after their destruction, the pipeline after a
crash, the sink when it has stopped or never started.

### Fairness

`FrameRingBuffer`: a thread inside a call goes on (weak fairness), and the decode
and render loops come back to Push and Pop in each iteration whatever else they
call (strong fairness of the first load). `PlayoutEngine`: weak fairness of each
decode, render and RPC thread, i.e. the operating system runs every thread that can
go on. Nothing is assumed of who gets `channels_mutex_`, of new requests arriving, or
of the destructor being called. `MetricsExporter`: every thread goes on with what it has begun; nobody has
to submit, start or stop. The wait loops are left by a
deadline that is modelled as "may have passed", and the loop of a tearing-down
producer has no other outcome than to see the deadline passed or the ring empty.
`SeamlessSwitch`: the control thread goes on with what it has begun and decode threads are
scheduled; of a thread that waits for the clock only this is assumed, that it goes on once it has been
asked to stop, so the clock may stand still, the frames may stop and the renderer may not come.
`EncoderPipeline`: the calling thread is scheduled and libav's calls return. `MpegTSPlayoutSink`: the three threads are
scheduled, the clock advances, and a client that is sent to reads or goes away. The last is an
assumption on the peer: the client sockets block without a time-out, so against one that keeps its connection and
does not read the worker, and with it stop(), waits forever (`Send`).

## 4. Proofs

All theorems hold for every value of the constants that the named assumptions
allow.

`FrameRingBufferProofs` assumes the header's thread model (`SingleProducer`,
`SingleConsumer`). The checked invariants are not inductive: that Pop returns the next frame
depends on where frames lie between the indices and on what a thread may
still believe about an index it loaded earlier. `IndInv` adds `DepthCounts` (the
distance of the indices is the number of undelivered frames), `ContentsInOrder`,
`ProducerKnows` (the room seen at the check can only have grown) and
`ConsumerKnows` (the frames seen can only have become more). Modular
arithmetic is isolated in five lemmas about `NextIndex`, `SizeOf` and
`SlotAfter`; `StepIndInv` has a step per action. Theorems: `TypeCorrect`, `PopInOrder`, `PeekValid`,
`DataRaceFree`, `NoFrameLost`, `ObserversSafe`. `RingImplementsQueue` proves the refinement of
`FrameQueue`: `ContentsFollow` says that the undelivered frames are the ones that follow
the last delivered in number (`Following`), so that the queue's contents change only where the depth or the
number of delivered frames does. Of all the steps of the ring only the two stores of an
index and `Clear` are then steps of the queue, and each other step stutters (`StepMaps`).

`PlayoutControlProofs` proves for any set of command ids and any number of calls
`TypeCorrect`, `NoTransientState`, `SamplesAgree`, `CommandsOnce` and the action
property `ErrorIsSticky`. `EffectAtMostOnce` needs `AppliedAreRegistered` (a
command that took effect is remembered). The lemmas `TransitionCounts` and
`RejectCounts` say what a path of edges does to the counters; each handler has a
lemma of its own. `EdgesAreWalk` is about the counted edges as a whole: for every state the
edges in and out balance, but for one more out of Idle and one more into the present
state (`WalkTo`). `OneMore` says what counting one edge does to these sums, `PathExtendsWalk` that a
handler that counts a path from the state it found keeps the balance, and `CommandWalks` and
`EventWalks` that every handler does count such a path.

`PlayoutEngineProofs` proves for any number of RPC threads and channels and every
capacity `TypeCorrect`, `ThreadsEndFirst`, `NoOrphans` and `AtMostOneLateFrame`; the
assumption is `EngineAssumption` (the mutex can tell its holders apart and
1 <= kReadyDepth <= capacity). The checked properties say nothing of who holds the mutex, so they are
not inductive. `IndInv` adds `MutexHolder` (the holder is the one caller inside a
handler), `HandlerChannel` (StartChannel works on a built, unregistered channel, the others on
a registered one), `ProducersSound` (`running_` covers the life of the thread; a late frame
stems from an iteration that passed the teardown test), `PreviewIsRegistered` and `JoinedStays`
(what a handler has joined stays joined while it holds the mutex); `DestroyerHolds` says that
the destructor runs alone. Thread steps are covered by `DecodeMoves` and `RenderMoves`,
the handlers of a registered channel by `RegisteredMoves` and `RegisteredReturns`, and each
handler has a lemma of its own.

`EncoderPipelineProofs` proves for all frame sizes, PIDs, moduli, loop limits and stamps
`TypeCorrect`, `DecodedBeforeShown`, `StampsAdvance` and `CountersContinue`. `IndInv` adds `StampsPaired`
(both stamps are set by the first packet; without it an enforced DTS could not be shown
to have room between its predecessor and its PTS), `PacketRecorded` (an enforced packet in hand is the one
whose stamps were recorded, and what was written before lies below it) and `TableMatches` (while the pipeline is
open its counter table is what was last sent on each PID, and no call is in progress while it is closed, so that a
new session starts with both empty). `EnforcedStamps` and `CorrectedContinues` isolate the arithmetic.

`SeamlessSwitchProofs` proves for any number of producers, frames and ring slots `TypeCorrect`,
`OneWriter`, `NoThreadLeftBehind` and `AlignmentLands`. The checked properties speak of
moments of rest or of single stamps. `IndInv` says what holds in between: of each producer by itself
`Sound` (its thread runs only while it is unstopped, in shadow mode no frame for the ring
is in its hand, an aligned producer's next stamp misses its target as stated); `Owned` (an
unstopped producer is in a slot); `ControlPath` (which slot is filled and which thread joined at each step
of an operation); `PreviewHidden` (a preview is in shadow mode until an operation takes it out);
`PreviewCounted` (until AlignPTS a stub preview's PTS follow from the number of frames it made, and a
file's last PTS is positive, which is not read as "none yet", and that of the frame in hand). The
last is what makes the alignment land, for files of any PTS and any interval: AlignPTS computes its offset from a PTS
that the decode thread may be about to replace. `AlignmentLands` is about steps; since only `StampFrame` takes a thread from `stamp` to `shadow`
(`OnlyStampFrameStamps`) the invariant in the state before gives it.

`MpegTSPlayoutSinkProofs` proves in both modes, for any number of frames and clients and every capacity, clock and
tolerance, `TypeCorrect`, `FramesCounted`, `DescriptorsKept`, `StopReleasesAll` and the action
property `EmittedOnTime`. `IndInv` adds `Shapes` (which step each thread may be at, in
which call, and where it returns to), `Balance` (the frame in the worker's hand is the one not
counted; its sampled time is not ahead of the clock), `SocketHandshake` (on a Unix socket
the accept thread touches the descriptor only while nobody is connected, the others only while
somebody is) and `StopOrder` (what has been joined and closed by each step of stop()). Most steps cannot disturb the
last two; `OrdinaryStep` says so once for all of them.

`MetricsExporterProofs` proves for every queue size and any number of submissions, stops and starts
`TypeCorrect`, `NoEventLost`, `TablesAgree`, `StopFlushesAll` and `DrainedIsApplied`. All five
are under `SingleSubmitter`, the thread model that EventQueue is written for. The program does not keep
to it, and the run `metrics_writers` shows that two submitters refute `NothingLost`. `IndInv` adds `Fifo` (the slots
hold the events that were pushed and not popped), `PusherKnows` (the index a push read
is still `tail_`, its room can only have grown), `Counted` and `WaiterKnows` (each counter is behind by the event in hand, which is
why comparing them is enough for WaitUntilDrainedForTest), `WorkerLives` (where the worker is at each step of Start and Stop) and
`TablesFollow` (the tables say what all accepted events but those in flight say, and these
are the last of the log). `ExpectedAppend` is the lemma on which the last rests: one more event
changes what the events say as `ProcessEvent` changes the tables.

With these every safety invariant and action property that a run checks, and the
refinement, is also a theorem. Only model-checked are the liveness properties, which with fairness and
ENABLED are out of the prover's reach: `EveryFrameDelivered`, `TeardownEnds`, `StartAndLoadReturn`, the exporter's `StopReturns` and
`AcceptedIsProcessed`, `OperationsReturn`, `EncodeReturns`, and the sink's `StopReturns` and
`FramesFlow`.

## 5. Where the code and its documents disagree

The violation runs above, each quoted under `findings`. Met while modelling, and without a
run because the definitions show them directly:

* `~PlayoutEngine` locks `channels_mutex_` and calls StopChannel, whose first statement locks it again:
  with a channel registered the destructor never returns (`DestroyEngine`; the comment at
  `PlayoutEngine.cpp:88` says "Stop all channels on destruction").
* A start that times out destroys the channel with its render thread running; `~HeadlessRenderer` has
  ended when `~FrameRenderer` joins, and a pure virtual call ends the process (`RenderLoop`,
  `UnwindRenderer`; `FrameRenderer.h:93` says "Destructor ensures thread is joined").
* StartChannel reads the depth a second time for the control state while the renderer drains
  the ring: the channel can stay Buffering for good although READY was published (`Publish`). Its poll
  calls Size() from a third thread, where the difference of the two indices may wrap.
* A command that was rejected with false is answered with true when it is resent, because its id is
  registered before the state is checked (`Duplicate`; the domain document has it rejected
  with `409 AlreadyProcessed`).

* `RecordIllegalTransitionLocked` counts the rejected edge in `transitions_` as if it
  had been taken, while CTL_001 has the counter increment once per successful
  transition (`Reject`).
* `Stop` takes a channel from Error to Idle, while the domain document says that "no other
  transitions originate from `Error`" than `Recover`. The same document gives Stop the precondition
  "not already `Idle`", which the code follows (`Stop`); `ErrorLeftOnlyByCommand` allows both.
* A latency above its threshold only counts a violation, while CTL_003 escalates to
  Error (`RecordLatencyLocked`).
* `Seek` passes Buffering, Ready and Playing in one call and `OnBackPressureCleared` leaves
  Buffering, both without a depth having been reported, while the transition matrix
  requires the configured minimum.
* `resetPipeline()` clears the ring with decode and render threads running, against the
  precondition of `FrameRingBuffer::Clear()`; only tests call it.
* While a stop drains the exporter's queue, direct writes may be overwritten by older
  queued events (`overtaken`). No document promises an order here.
* A preview producer writes into the live ring at once, while the engine contract says
  it does not until switched to live (`NewPreview`; `two_producers` shows the consequence).

* Alignment is not exact. `PlayoutControlDomain.md` makes "Preview producer's first frame PTS = live producer's last
  PTS + frame_duration" mandatory, and `VideoFileProducer.h` says of AlignPTS "so that the next frame will
  have target_pts". A file whose frames are not exactly `frame_interval_us_` apart misses by the difference, a frame already in the
  thread's hand by one interval (`FirstFrameAligned`). The target itself is GetNextPTS, already one interval past the last PTS,
  plus 33,366 us whatever the rate, so that one frame is skipped (`ActivatePreviewAsLive`).
* After a switch AssembleFrame compares the file's PTS with a `last_pts_us_` that contains the offset
  (`AssembledPts`, `StampFrame`). With a positive offset of a frame or more every later PTS counts as not increasing and gains
  the offset once more. With a negative one a file that begins at PTS 0, all of whose PTS had been moved up by one
  interval, is no longer corrected, and its second frame after the switch repeats the PTS of the first.
* A shadow producer caches the first frame and drops the others, without waiting for the clock, and
  leaving shadow mode discards the cached one too (`CacheFrame`, `ClearShadow`). The first frame shown is
  therefore any later frame of the file, while `RendererDomain.md` draws `[Preview Frame 0]` in the ring after the switch.

* A failed `EncoderPipeline::open` keeps what it took: the close() it calls returns because
  `initialized_` is not set (`Open`).
* encodeFrame records new dimensions before it opens the codec, allocates the planes
  and writes the header. After a failure of one of these the next frame of that size goes on as if
  all had succeeded, although the message says "will retry on next frame": it may copy through a null
  pointer (`CopyPlanes`), and close() with a codec that never opened does not leave its flush
  loop, which ends on EAGAIN and end of stream only (`FlushPacket`).
* Packets drained to make room in the encoder are written without the stamp
  enforcement of the others and without being remembered (`DrainPacket`, `MuxDrainedPacket`): between enforced packets
  the stream may carry stamps that repeat or go back, for instance when a new session's encoder starts again below
  `last_pts_90k_`. FE-014 of `MpegTSPlayoutSinkDomainContract.md` has "No PTS values decrease or repeat" and
  FE-018 "DTS <= PTS for all packets". A frame that is refused a second time is lost although the
  comment says that it will be processed (`SendDrained`).
* `frames_sent_` counts frames that were taken out without a client (`CountFrame`), and the blocking
  sends contradict the timing contract's bound on stop() (`Send`).
* On a Unix socket a client that leaves and another that comes between two polls of the
  worker share an encoder session (`PollClient`). A sink cannot be started again after stop().

## 6. Not modelled

FFmpegDecoder wraps libav; the engine and switch models have its outcomes. libav's
encoder and muxer are external to `EncoderPipeline`. `IsFull` and `Capacity` of the ring are
pure and only tests call them. Frame contents, statistics, logging and text formats are left out.
`plan_handle` is stored and never read. `PreviewRenderer` needs SDL2 and is a renderer like the headless
one. The sink's output queue has no producer (`queueEncodedPacket` is never called), its
`PTSController` is created and never called, `MpegTSEncoder` and `TSMuxer` are not used by it. The legacy
sink under `src/sinks/` is built for tests only; its start() calls stop() while it holds the mutex that
stop() locks. `OrchestrationLoop` is never created by the engine. `MetricsHTTPServer` is a socket
loop around the exporter's text. `MasterClock` converts times; the models abstract it to
deadlines or to a counter.

## 7. Plan

1. `ChannelTelemetry`: what the engine and the renderer submit for a channel, through an
   abstract exporter queue: the renderer reads a snapshot, changes it and submits it back,
   and may restore a state that the engine has replaced (a start that timed out).
2. `OrchestrationLoop`: tick pacing with integer time, back-pressure, stop.
3. `MetricsHTTPServer`: start, stop and the connection loop.
4. Proofs: what the liveness properties rest on and the prover can reach, namely that each
   loop has a measure which every turn lowers (the frames left to drain at a teardown,
   the packets of a flush, the events left when the exporter stops); the safety of the
   modules above.
