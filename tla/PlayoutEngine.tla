---------------------------- MODULE PlayoutEngine ----------------------------
(***************************************************************************)
(* PlayoutEngine's channel lifecycle: RPC threads that start, stop, preview *)
(* and switch channels under channels_mutex_, the decode thread of each     *)
(* FrameProducer and the render thread of each FrameRenderer.  A ring is    *)
(* abstracted to its depth (FrameRingBuffer has its detail).                *)
(***************************************************************************)
EXTENDS Integers

CONSTANTS Callers,     \* RPC threads
          NoCaller,    \* nobody holds channels_mutex_
          Main,        \* the thread that destroys the engine
          Channels,    \* channel ids
          Capacity,    \* kDefaultBufferSize
          ReadyDepth   \* kReadyDepth, and the readiness threshold of the control state

ASSUME EngineAssumption ==
  /\ NoCaller \notin Callers /\ Main \notin Callers /\ Main # NoCaller
  /\ Capacity \in Nat /\ ReadyDepth \in 1 .. Capacity

VARIABLES engine,      \* the engine object, or the process after std::terminate
          mutex,       \* channels_mutex_
          pc, op, chan,\* what each caller is doing, for which channel
          registered,  \* the keys of channels_
          ring,        \* channels whose FrameRingBuffer exists
          depth,       \* frames in the ring
          control,     \* state of the channel's PlayoutControlStateMachine
          producer,    \* [channel -> [slot -> FrameProducer]]
          renderer     \* [channel -> FrameRenderer]

vars == <<engine, mutex, pc, op, chan, registered, ring, depth, control, producer, renderer>>
callerVars == <<pc, op, chan>>

Slots == {"live", "preview"}
Operations == {"StartChannel", "StopChannel", "LoadPreview", "SwitchToLive", "UpdatePlan"}

\* thread is where the decode thread is: about to test its flags ("top"), about
\* to push ("push"), returned ("exited") or not created ("none").  late is a
\* history: frames pushed after RequestTeardown.
NoProducer == [running |-> FALSE, stop |-> FALSE, teardown |-> FALSE,
               thread |-> "none", late |-> 0]

\* FrameProducer::Start of a new producer.
StartedProducer == [NoProducer EXCEPT !.running = TRUE, !.thread = "top"]

\* Start threw when it created the thread: running_ was set before.
ThreadlessProducer == [NoProducer EXCEPT !.running = TRUE]

\* derived: the HeadlessRenderer part, with the virtual functions, still exists.
NoRenderer == [stop |-> FALSE, derived |-> FALSE, thread |-> "none"]
StartedRenderer == [stop |-> FALSE, derived |-> TRUE, thread |-> "top"]

Init ==
  /\ engine = "alive"
  /\ mutex = NoCaller
  /\ pc = [r \in Callers |-> "idle"]
  /\ op = [r \in Callers |-> "none"]
  /\ chan \in [Callers -> Channels]
  /\ registered = {} /\ ring = {}
  /\ depth = [ch \in Channels |-> 0]
  /\ control = [ch \in Channels |-> "Idle"]
  /\ producer = [ch \in Channels |-> [s \in Slots |-> NoProducer]]
  /\ renderer = [ch \in Channels |-> NoRenderer]

-----------------------------------------------------------------------------
(* Decode thread: FrameProducer::ProduceLoop.                              *)

Joined(thread) == thread \in {"none", "exited"}

SetThread(ch, s, at) == producer' = [producer EXCEPT ![ch][s].thread = at]

\* Faulty variant: a drain that waits for the consumer without a deadline.
TestFlagsNoDeadline(ch, s) ==
  LET p == producer[ch][s] IN
  /\ p.thread = "top"
  /\ \/ p.stop /\ SetThread(ch, s, "exited")
     \/ /\ ~p.stop /\ p.teardown /\ depth[ch] = 0
        /\ producer' = [producer EXCEPT ![ch][s].stop = TRUE]
     \/ ~p.stop /\ ~p.teardown /\ SetThread(ch, s, "push")
  /\ UNCHANGED <<engine, mutex, callerVars, registered, ring, depth, control, renderer>>

\* Faulty variant: the loop goes on producing while a teardown drains.
TestFlagsIgnoreTeardown(ch, s) ==
  LET p == producer[ch][s] IN
  /\ p.thread = "top"
  /\ \/ p.stop /\ SetThread(ch, s, "exited")
     \/ /\ ~p.stop /\ p.teardown
        /\ producer' = [producer EXCEPT ![ch][s].stop = TRUE]
     \/ ~p.stop /\ SetThread(ch, s, "push")
  /\ UNCHANGED <<engine, mutex, callerVars, registered, ring, depth, control, renderer>>

\* The loop's tests: stop_requested_, then teardown_requested_, whose drain
\* ends at the deadline, which may have passed, or when the ring is empty.
TestFlags(ch, s) ==
  LET p == producer[ch][s] IN
  /\ p.thread = "top"
  /\ \/ p.stop /\ SetThread(ch, s, "exited")
     \/ /\ ~p.stop /\ p.teardown
        /\ producer' = [producer EXCEPT ![ch][s].stop = TRUE]
     \/ ~p.stop /\ ~p.teardown /\ SetThread(ch, s, "push")
  /\ UNCHANGED <<engine, mutex, callerVars, registered, ring, depth, control, renderer>>

\* Faulty variant: a full ring is not noticed.
ProduceFrameUnchecked(ch, s) ==
  LET p == producer[ch][s] IN
  /\ p.thread = "push"
  /\ depth' = [depth EXCEPT ![ch] = @ + 1]
  /\ producer' = [producer EXCEPT ![ch][s].thread = "top"]
  /\ UNCHANGED <<engine, mutex, callerVars, registered, ring, control, renderer>>

\* ProduceRealFrame or ProduceStubFrame: a frame is pushed, the ring is full or
\* decoding fails, or the file has ended.
ProduceFrame(ch, s) ==
  LET p == producer[ch][s] IN
  /\ p.thread = "push"
  /\ \/ /\ depth[ch] < Capacity
        /\ depth' = [depth EXCEPT ![ch] = @ + 1]
        /\ producer' = [producer EXCEPT ![ch][s] =
             [p EXCEPT !.thread = "top", !.late = @ + (IF p.teardown THEN 1 ELSE 0)]]
     \/ SetThread(ch, s, "top") /\ UNCHANGED depth
     \/ /\ producer' = [producer EXCEPT ![ch][s].thread = "top", ![ch][s].stop = TRUE]
        /\ UNCHANGED depth
  /\ UNCHANGED <<engine, mutex, callerVars, registered, ring, control, renderer>>

ProduceLoop(ch, s) == TestFlags(ch, s) \/ ProduceFrame(ch, s)

-----------------------------------------------------------------------------
(* Render thread: FrameRenderer::RenderLoop.                               *)

\* The loop leaves through the virtual Cleanup().
RenderTest(ch) ==
  LET q == renderer[ch] IN
  /\ q.thread = "top"
  /\ IF q.stop
     THEN IF q.derived
          THEN renderer' = [renderer EXCEPT ![ch].thread = "exited"] /\ UNCHANGED engine
          ELSE engine' = "aborted" /\ UNCHANGED renderer
     ELSE renderer' = [renderer EXCEPT ![ch].thread = "pop"] /\ UNCHANGED engine
  /\ UNCHANGED <<mutex, callerVars, registered, ring, depth, control, producer>>

\* A popped frame is rendered, or dropped when it is too late.
RenderPop(ch) ==
  /\ renderer[ch].thread = "pop"
  /\ \/ /\ depth[ch] = 0
        /\ renderer' = [renderer EXCEPT ![ch].thread = "top"]
        /\ UNCHANGED depth
     \/ /\ depth[ch] > 0
        /\ depth' = [depth EXCEPT ![ch] = @ - 1]
        /\ \E at \in {"render", "top"} : renderer' = [renderer EXCEPT ![ch].thread = at]
  /\ UNCHANGED <<engine, mutex, callerVars, registered, ring, control, producer>>

\* The virtual RenderFrame().
RenderFrame(ch) ==
  /\ renderer[ch].thread = "render"
  /\ IF renderer[ch].derived
     THEN renderer' = [renderer EXCEPT ![ch].thread = "top"] /\ UNCHANGED engine
     ELSE engine' = "aborted" /\ UNCHANGED renderer
  /\ UNCHANGED <<mutex, callerVars, registered, ring, depth, control, producer>>

RenderLoop(ch) == RenderTest(ch) \/ RenderPop(ch) \/ RenderFrame(ch)

-----------------------------------------------------------------------------
(* RPC threads.                                                            *)

\* An RPC arrives and waits for channels_mutex_.
Request(r, o, ch) ==
  /\ engine = "alive" /\ pc[r] = "idle"
  /\ pc' = [pc EXCEPT ![r] = "lock"]
  /\ op' = [op EXCEPT ![r] = o]
  /\ chan' = [chan EXCEPT ![r] = ch]
  /\ UNCHANGED <<engine, mutex, registered, ring, depth, control, producer, renderer>>

\* The caller gets the mutex, to do the operation o.
Locks(r, o) == pc[r] = "lock" /\ op[r] = o /\ mutex = NoCaller

Goto(r, at) == pc' = [pc EXCEPT ![r] = at] /\ UNCHANGED <<op, chan>>

\* The handler holds the mutex on its way to a later step.
Enter(r, at) == mutex' = r /\ Goto(r, at)

\* The handler returns, with the mutex released.
Return(r) ==
  /\ mutex' = NoCaller
  /\ pc' = [pc EXCEPT ![r] = "idle"]
  /\ op' = [op EXCEPT ![r] = "none"]
  /\ UNCHANGED chan

\* A handler that finds nothing to do, or whose first thread creation fails in
\* a way that leaves no trace.
ReturnAtOnce(r) ==
  /\ Return(r)
  /\ UNCHANGED <<engine, registered, ring, depth, control, producer, renderer>>

\* Started already, or starting the threads throws: nothing if the first thread
\* cannot be created, the unwinding of a running decode thread if the second
\* cannot.
StartChannel(r) ==
  LET ch == chan[r] IN
  /\ Locks(r, "StartChannel")
  /\ \/ ReturnAtOnce(r)
     \/ /\ ch \notin registered
        /\ ring' = ring \cup {ch}
        /\ control' = [control EXCEPT ![ch] = "Buffering"]
        /\ producer' = [producer EXCEPT ![ch]["live"] = StartedProducer]
        /\ \/ /\ renderer' = [renderer EXCEPT ![ch] = StartedRenderer]
              /\ Enter(r, "poll")
           \/ UNCHANGED renderer /\ Enter(r, "unwindRenderer")
        /\ UNCHANGED <<engine, registered, depth>>

\* Faulty variant: the wait has no timeout.
PollDepthForever(r) ==
  /\ pc[r] = "poll" /\ depth[chan[r]] >= ReadyDepth
  /\ Goto(r, "publish")
  /\ UNCHANGED <<engine, mutex, registered, ring, depth, control, producer, renderer>>

\* Faulty variant: the timeout returns without destroying the channel state.
PollDepthLeaks(r) ==
  /\ pc[r] = "poll"
  /\ \/ /\ depth[chan[r]] >= ReadyDepth /\ Goto(r, "publish") /\ UNCHANGED mutex
     \/ depth[chan[r]] < ReadyDepth /\ Return(r)
  /\ UNCHANGED <<engine, registered, ring, depth, control, producer, renderer>>

\* The wait for kReadyDepth frames, and its timeout: the channel state is
\* destroyed, the HeadlessRenderer part of the renderer first.
PollDepth(r) ==
  LET ch == chan[r] IN
  /\ pc[r] = "poll"
  /\ \/ depth[ch] >= ReadyDepth /\ Goto(r, "publish") /\ UNCHANGED renderer
     \/ /\ depth[ch] < ReadyDepth
        /\ renderer' = [renderer EXCEPT ![ch].derived = FALSE, ![ch].stop = TRUE]
        /\ Goto(r, "unwindRenderer")
  /\ UNCHANGED <<engine, mutex, registered, ring, depth, control, producer>>

\* OnBufferDepth reads the depth anew; the channel is registered in any case.
Publish(r) ==
  LET ch == chan[r] IN
  /\ pc[r] = "publish"
  /\ control' = [control EXCEPT ![ch] = IF depth[ch] >= ReadyDepth THEN "Playing" ELSE @]
  /\ registered' = registered \cup {ch}
  /\ Return(r)
  /\ UNCHANGED <<engine, ring, depth, producer, renderer>>

\* The first step of FrameProducer::Stop.
RequestStop(ch, s) == producer' = [producer EXCEPT ![ch][s].stop = TRUE]

\* ~FrameRenderer joins the render thread; ~FrameProducer stops the decode thread.
UnwindRenderer(r) ==
  LET ch == chan[r] IN
  /\ pc[r] = "unwindRenderer" /\ Joined(renderer[ch].thread)
  /\ renderer' = [renderer EXCEPT ![ch] = NoRenderer]
  /\ RequestStop(ch, "live")
  /\ Goto(r, "unwindLive")
  /\ UNCHANGED <<engine, mutex, registered, ring, depth, control>>

\* Destroying an object does not end a thread that was not joined.
Destroyed(p, none) == IF Joined(p.thread) THEN none ELSE p

\* Everything of the channel but its name is gone.
Forget(ch) ==
  /\ ring' = ring \ {ch}
  /\ depth' = [depth EXCEPT ![ch] = 0]
  /\ control' = [control EXCEPT ![ch] = "Idle"]
  /\ producer' = [producer EXCEPT ![ch] =
                    [s \in Slots |-> Destroyed(producer[ch][s], NoProducer)]]
  /\ renderer' = [renderer EXCEPT ![ch] = Destroyed(@, NoRenderer)]

\* Faulty variant: the members are destroyed without joining the decode thread.
UnwindLiveNoJoin(r) ==
  /\ pc[r] = "unwindLive"
  /\ Forget(chan[r])
  /\ Return(r)
  /\ UNCHANGED <<engine, registered>>

\* ~FrameProducer has joined the decode thread; the ring goes last.
UnwindLive(r) ==
  /\ pc[r] = "unwindLive" /\ Joined(producer[chan[r]]["live"].thread)
  /\ Forget(chan[r])
  /\ Return(r)
  /\ UNCHANGED <<engine, registered>>

StopChannel(r) ==
  LET ch == chan[r] IN
  /\ Locks(r, "StopChannel")
  /\ \/ ch \notin registered /\ ReturnAtOnce(r)
     \/ /\ ch \in registered
        /\ control' = [control EXCEPT ![ch] = "Idle"]
        /\ renderer' = [renderer EXCEPT ![ch].stop = TRUE]
        /\ Enter(r, "stopRenderer")
        /\ UNCHANGED <<engine, registered, ring, depth, producer>>

\* FrameProducer::RequestTeardown, which a producer that is not running ignores.
RequestTeardown(ch, s) ==
  producer' = [producer EXCEPT ![ch][s].teardown = @ \/ producer[ch][s].running]

\* FrameRenderer::Stop has joined the render thread.
StopRenderer(r) ==
  LET ch == chan[r] IN
  /\ pc[r] = "stopRenderer" /\ Joined(renderer[ch].thread)
  /\ renderer' = [renderer EXCEPT ![ch] = NoRenderer]
  /\ RequestTeardown(ch, "live")
  /\ Goto(r, "stopLive")
  /\ UNCHANGED <<engine, mutex, registered, ring, depth, control>>

SwitchToLive(r) ==
  LET ch == chan[r] IN
  /\ Locks(r, "SwitchToLive")
  /\ \/ /\ ch \notin registered \/ producer[ch]["preview"] = NoProducer
        /\ ReturnAtOnce(r)
     \/ /\ ch \in registered /\ producer[ch]["preview"] # NoProducer
        /\ RequestTeardown(ch, "live")
        /\ Enter(r, "switchLive")
        /\ UNCHANGED <<engine, registered, ring, depth, control, renderer>>

\* The loops that sleep while IsRunning(), and what follows them.  running_ is
\* cleared by FrameProducer::Stop() alone, which comes after the loop.
AwaitNotRunning(r) ==
  LET ch == chan[r]
      slot == IF pc[r] = "stopPreview" THEN "preview" ELSE "live"
  IN
  /\ pc[r] \in {"stopLive", "stopPreview", "switchLive"}
  /\ IF producer[ch][slot].running
     THEN UNCHANGED vars
     ELSE CASE pc[r] = "switchLive" ->
                 /\ producer' = [producer EXCEPT ![ch]["live"] = producer[ch]["preview"],
                                                 ![ch]["preview"] = NoProducer]
                 /\ Return(r)
                 /\ UNCHANGED <<engine, registered, ring, depth, control, renderer>>
            [] pc[r] = "stopLive" /\ producer[ch]["preview"] # NoProducer ->
                 /\ RequestTeardown(ch, "preview")
                 /\ Goto(r, "stopPreview")
                 /\ UNCHANGED <<engine, mutex, registered, ring, depth, control, renderer>>
            [] OTHER ->
                 /\ Forget(ch)
                 /\ registered' = registered \ {ch}
                 /\ Return(r)
                 /\ UNCHANGED engine

\* A new preview producer starts, or its thread cannot be created.
NewPreview(r, ch) ==
  /\ \E p \in {StartedProducer, ThreadlessProducer} :
       producer' = [producer EXCEPT ![ch]["preview"] = p]
  /\ Return(r)
  /\ UNCHANGED <<engine, registered, ring, depth, control, renderer>>

\* The previous preview producer is destroyed first, by stopping it.
LoadPreview(r) ==
  LET ch == chan[r] IN
  /\ Locks(r, "LoadPreview")
  /\ \/ ch \notin registered /\ ReturnAtOnce(r)
     \/ ch \in registered /\ producer[ch]["preview"] = NoProducer /\ NewPreview(r, ch)
     \/ /\ ch \in registered /\ producer[ch]["preview"] # NoProducer
        /\ RequestStop(ch, "preview")
        /\ Enter(r, "replacePreview")
        /\ UNCHANGED <<engine, registered, ring, depth, control, renderer>>

\* The stopped preview producer's thread is joined, and the new one starts.
ReplacePreview(r) ==
  /\ pc[r] = "replacePreview" /\ Joined(producer[chan[r]]["preview"].thread)
  /\ NewPreview(r, chan[r])

\* The new plan handle is stored and never read again.
UpdatePlan(r) == Locks(r, "UpdatePlan") /\ ReturnAtOnce(r)

Handler(r) ==
  \/ StartChannel(r) \/ PollDepth(r) \/ Publish(r)
  \/ UnwindRenderer(r) \/ UnwindLive(r)
  \/ StopChannel(r) \/ StopRenderer(r) \/ AwaitNotRunning(r)
  \/ SwitchToLive(r) \/ LoadPreview(r) \/ ReplacePreview(r) \/ UpdatePlan(r)

-----------------------------------------------------------------------------
(* ~PlayoutEngine, once the server has no RPC left.                        *)

DestroyEngine ==
  /\ engine = "alive" /\ mutex = NoCaller /\ \A r \in Callers : pc[r] = "idle"
  /\ engine' = "destroying" /\ mutex' = Main
  /\ UNCHANGED <<callerVars, registered, ring, depth, control, producer, renderer>>

\* For a registered channel the loop calls StopChannel, which waits for the
\* mutex that the same thread holds; without one the destructor returns.
DestroyChannels ==
  /\ engine = "destroying"
  /\ registered = {}
  /\ engine' = "gone" /\ mutex' = NoCaller
  /\ UNCHANGED <<callerVars, registered, ring, depth, control, producer, renderer>>

Running == engine \in {"alive", "destroying"}
Decode(ch, s) == Running /\ ProduceLoop(ch, s)
Render(ch) == Running /\ RenderLoop(ch)
Serve(r) == Running /\ Handler(r)

Next ==
  \/ \E r \in Callers : Serve(r)
  \/ \E r \in Callers, o \in Operations, ch \in Channels : Request(r, o, ch)
  \/ \E ch \in Channels : Render(ch) \/ \E s \in Slots : Decode(ch, s)
  \/ DestroyEngine
  \/ DestroyChannels

Spec == Init /\ [][Next]_vars

\* The operating system runs every thread that can go on; nothing is assumed
\* of the order in which waiting callers get the mutex, or of new requests.
Fairness ==
  /\ \A ch \in Channels : WF_vars(Render(ch)) /\ \A s \in Slots : WF_vars(Decode(ch, s))
  /\ \A r \in Callers : WF_vars(Serve(r))
  /\ WF_vars(DestroyChannels)

LiveSpec == Spec /\ Fairness

-----------------------------------------------------------------------------
(* Properties.                                                             *)

ProducerType ==
  [running: BOOLEAN, stop: BOOLEAN, teardown: BOOLEAN,
   thread: {"none", "top", "push", "exited"}, late: Nat]
RendererType ==
  [stop: BOOLEAN, derived: BOOLEAN, thread: {"none", "top", "pop", "render", "exited"}]
Places == {"idle", "lock", "poll", "publish", "unwindRenderer", "unwindLive",
           "stopRenderer", "stopLive", "stopPreview", "switchLive", "replacePreview"}

\* Every field stays in its domain; in particular no interleaving of decode and
\* render threads takes a ring out of its bounds.
TypeOK ==
  /\ engine \in {"alive", "destroying", "gone", "aborted"}
  /\ mutex \in Callers \cup {NoCaller, Main}
  /\ pc \in [Callers -> Places]
  /\ op \in [Callers -> Operations \cup {"none"}]
  /\ chan \in [Callers -> Channels]
  /\ registered \subseteq Channels /\ ring \subseteq Channels
  /\ depth \in [Channels -> 0 .. Capacity]
  /\ control \in [Channels -> {"Idle", "Buffering", "Playing"}]
  /\ producer \in [Channels -> [Slots -> ProducerType]]
  /\ renderer \in [Channels -> RendererType]

\* FrameProducer and FrameRenderer hold references to the ring buffer.  However
\* a start fails, their threads have returned before the buffer is destroyed.
NoThreadOutlivesRing ==
  \A ch \in Channels \ ring :
    /\ Joined(renderer[ch].thread)
    /\ \A s \in Slots : Joined(producer[ch][s].thread)

\* A failed or half-done start leaves nothing behind: what channels_ does not
\* hold belongs to a StartChannel still in progress under the mutex.
NoOrphanChannel ==
  /\ registered \subseteq ring
  /\ \A ch \in ring \ registered :
       \E r \in Callers : /\ mutex = r /\ chan[r] = ch
                          /\ pc[r] \in {"poll", "publish", "unwindRenderer", "unwindLive"}

\* The loop tests teardown_requested_ before it decodes, not before it pushes:
\* a request that comes in between lets one more frame through, never two.
OneLateFrame == \A ch \in Channels, s \in Slots : producer[ch][s].late <= 1

\* A teardown ends, although StopChannel has stopped the renderer first and the
\* ring may never drain: the decode thread returns.
TeardownEnds ==
  \A ch \in Channels, s \in Slots :
    producer[ch][s].teardown ~> Joined(producer[ch][s].thread) \/ engine = "aborted"

\* StartChannel and LoadPreview give the mutex back: neither the wait for the
\* ready depth, nor the unwinding, nor the join of a replaced preview blocks.
StartAndLoadReturn ==
  \A r \in Callers :
    mutex = r /\ op[r] \in {"StartChannel", "LoadPreview"} ~> mutex # r \/ engine = "aborted"

-----------------------------------------------------------------------------
(* What the repository's documents and comments say and the code does not  *)
(* do.                                                                     *)

\* StopChannel and SwitchToLive return.
StopAndSwitchReturn ==
  \A r \in Callers :
    mutex = r /\ op[r] \in {"StopChannel", "SwitchToLive"} ~> mutex # r \/ engine = "aborted"
=============================================================================
