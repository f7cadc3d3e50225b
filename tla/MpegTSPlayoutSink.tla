--------------------------- MODULE MpegTSPlayoutSink ---------------------------
(***************************************************************************)
(* MpegTSPlayoutSink: the worker that takes frames from the ring when the   *)
(* clock says so and has them encoded, the thread that accepts clients, and *)
(* start and stop.  Output goes to a TCP client of the sink's own, or to a  *)
(* client of TsOutputSink on a Unix socket.  The encoder is reduced to the  *)
(* session that is open in it (EncoderPipeline has its detail).             *)
(***************************************************************************)
EXTENDS Integers, FiniteSets

CONSTANTS MaxFrames,    \* bound: frames pushed, with PTS 0, 1, 2, ...
          Capacity,     \* of the ring
          Clients,      \* bound: clients that ever connect
          Horizon,      \* bound on the clock
          Tolerance,    \* kMaxLateToleranceUs
          SameTimebase  \* kSameTimebaseThresholdUs

ASSUME SinkAssumption ==
  /\ MaxFrames \in Nat \ {0} /\ Capacity \in Nat \ {0} /\ Clients \in Nat
  /\ Horizon \in Nat /\ Tolerance \in Nat /\ SameTimebase \in Nat

VARIABLES mode,       \* "tcp" or "uds": config_.ts_socket_path is empty or not
          state,      \* internal_state_
          thread,     \* the worker, the accept thread and the caller of start and stop
          stop, acceptStop,  \* stop_requested_ as the worker and the accept thread see it
          now,        \* the MasterClock
          pushed, popped, \* frames that entered and left the ring
          sent, dropped,  \* frames_sent_ and frames_dropped_
          base,       \* sink_start_time_utc_us_, or Unset
          client, connected, \* client_fd_ and client_connected_ of the owner of the socket
          seen,       \* uds: the sink's own client_connected_
          open,       \* descriptors of clients that are open
          accepted,   \* clients accepted so far: a client's number is its descriptor
          session     \* the client the encoder was opened for, or Closed

clockVars == <<now, pushed, popped, sent, dropped, base>>
clientVars == <<client, connected, seen, open, accepted, session>>
vars == <<mode, state, thread, stop, acceptStop, clockVars, clientVars>>
fixed == <<mode, state, stop, acceptStop>>

NoClient == 0
Closed == -1
Unset == -1
ThreadIds == {"worker", "acceptor", "stopper"}

\* at is the next step; back where a write returns to, then where closing the
\* encoder returns to; hand a descriptor in a local variable; clock the sampled time.
NoThread == [at |-> "none", back |-> "none", then |-> "none", hand |-> NoClient, clock |-> 0]

Init ==
  /\ mode \in {"tcp", "uds"}
  /\ state = "Idle"
  /\ thread = [t \in ThreadIds |-> NoThread]
  /\ stop = FALSE /\ acceptStop = FALSE
  /\ now = 0 /\ pushed = 0 /\ popped = 0 /\ sent = 0 /\ dropped = 0 /\ base = Unset
  /\ client = NoClient /\ connected = FALSE /\ seen = FALSE
  /\ open = {} /\ accepted = 0
  /\ session = Closed

At(t, step) == thread[t].at = step
Become(t, r) == thread' = [thread EXCEPT ![t] = r]
GoTo(t, step) == Become(t, [thread[t] EXCEPT !.at = step])

\* The accept code is done; local variables go out of scope.
Resume(t) == Become(t, [NoThread EXCEPT !.at = IF t = "worker" THEN "peek" ELSE "loop",
                                        !.clock = thread[t].clock])
CloseEncoder(t, then) == Become(t, [thread[t] EXCEPT !.at = "closeEncoder", !.then = then])

-----------------------------------------------------------------------------
(* Writing to the client: writeAllBlocking and TsOutputSink::Write.        *)

Return(t) ==
  Become(t, [thread[t] EXCEPT !.at = thread[t].back, !.back = "none", !.hand = NoClient])

\* Nobody connected: the write fails at once.
BeginWrite(t) ==
  /\ At(t, "write")
  /\ IF connected THEN GoTo(t, "readClient") ELSE Return(t)
  /\ UNCHANGED <<fixed, clockVars, clientVars>>

ReadClient(t) ==
  /\ At(t, "readClient")
  /\ IF client # NoClient
     THEN /\ Become(t, [thread[t] EXCEPT !.at = "send", !.hand = client])
          /\ UNCHANGED connected
     ELSE /\ Return(t)
          /\ connected' = (connected /\ mode = "uds")
  /\ UNCHANGED <<fixed, clockVars, client, seen, open, accepted, session>>

\* A blocking send ends when the client has read, or with an error.
Send(t) ==
  /\ At(t, "send")
  /\ \/ thread[t].hand \in open /\ Return(t)
     \/ GoTo(t, IF mode = "tcp" THEN "failMark" ELSE "dropTest")
  /\ UNCHANGED <<fixed, clockVars, clientVars>>

\* A failed TCP write: the sink is disconnected before the socket is closed.
FailWrite(t) ==
  /\ \/ /\ At(t, "failMark") /\ GoTo(t, "failClose")
        /\ connected' = FALSE /\ UNCHANGED <<open, client>>
     \/ /\ At(t, "failClose") /\ GoTo(t, "failClear")
        /\ open' = open \ {thread[t].hand} /\ UNCHANGED <<connected, client>>
     \/ /\ At(t, "failClear") /\ Return(t)
        /\ client' = NoClient /\ UNCHANGED <<connected, open>>
  /\ UNCHANGED <<fixed, clockVars, seen, accepted, session>>

\* Faulty variant: TsOutputSink marks the end first, as the TCP code does.
DropClientMarkFirst(t) ==
  /\ \/ /\ At(t, "dropTest") /\ GoTo(t, "dropClose")
        /\ connected' = FALSE /\ UNCHANGED <<open, client>>
     \/ /\ At(t, "dropClose") /\ GoTo(t, "dropClear")
        /\ open' = open \ {client} /\ UNCHANGED <<connected, client>>
     \/ /\ At(t, "dropClear") /\ Return(t)
        /\ client' = NoClient /\ UNCHANGED <<connected, open>>
  /\ UNCHANGED <<fixed, clockVars, seen, accepted, session>>

\* handleClientDisconnect, of the TCP sink (which goes on to close the encoder)
\* and of TsOutputSink.
DropClient(t) ==
  /\ \/ /\ At(t, "dropTest") /\ UNCHANGED <<connected, open, client>>
        /\ IF connected THEN GoTo(t, "dropClose")
           ELSE IF mode = "uds" THEN Return(t) ELSE Resume(t)
     \/ /\ At(t, "dropClose") /\ GoTo(t, "dropClear")
        /\ open' = open \ {client} /\ UNCHANGED <<connected, client>>
     \/ /\ At(t, "dropClear") /\ GoTo(t, "dropMark")
        /\ client' = NoClient /\ UNCHANGED <<connected, open>>
     \/ /\ At(t, "dropMark")
        /\ IF mode = "uds" THEN Return(t) ELSE CloseEncoder(t, "resume")
        /\ connected' = FALSE /\ UNCHANGED <<open, client>>
  /\ UNCHANGED <<fixed, clockVars, seen, accepted, session>>

-----------------------------------------------------------------------------
(* The encoder: close() writes what is left of a session that has begun.   *)

Closing(t) ==
  IF thread[t].then = "resume" THEN Resume(t)
  ELSE Become(t, [thread[t] EXCEPT !.at = thread[t].then, !.then = "none"])

FlushEncoder(t) ==
  /\ At(t, "closeEncoder")
  /\ \/ session = Closed /\ Closing(t)
     \/ session # Closed /\ Become(t, [thread[t] EXCEPT !.at = "write", !.back = "closed"])
     \/ session # Closed /\ GoTo(t, "closed")
  /\ UNCHANGED <<fixed, clockVars, clientVars>>

EncoderClosed(t) ==
  /\ At(t, "closed") /\ Closing(t)
  /\ session' = Closed
  /\ UNCHANGED <<fixed, clockVars, client, connected, seen, open, accepted>>

\* initializeEncoderForClient, after its close(): an open encoder stays as it is.
OpenEncoder(t) ==
  /\ At(t, "openEncoder")
  /\ \/ Resume(t) /\ UNCHANGED seen
        /\ session' = IF session = Closed THEN client ELSE session
     \/ /\ session = Closed /\ UNCHANGED session
        /\ IF mode = "tcp" THEN GoTo(t, "dropTest") ELSE Resume(t)
        /\ seen' = FALSE
  /\ UNCHANGED <<fixed, clockVars, client, connected, open, accepted>>

-----------------------------------------------------------------------------
(* tryAcceptClient: of the worker and of the accept thread in TCP mode, of  *)
(* TsOutputSink's accept thread only on a Unix socket.                     *)

TestConnected(t) ==
  /\ At(t, "testConnected")
  /\ IF connected THEN Resume(t) ELSE GoTo(t, "accept")
  /\ UNCHANGED <<fixed, clockVars, clientVars>>

\* Nobody waits, or the new socket cannot be set up, or there is a client.
Accept(t) ==
  /\ At(t, "accept")
  /\ \/ Resume(t) /\ UNCHANGED <<accepted, open>>
     \/ /\ accepted < Clients
        /\ accepted' = accepted + 1
        /\ open' = open \cup {accepted'}
        /\ Become(t, [thread[t] EXCEPT !.at = "store", !.hand = accepted'])
  /\ UNCHANGED <<fixed, clockVars, client, connected, seen, session>>

StoreClient(t) ==
  /\ \/ /\ At(t, "store")
        /\ Become(t, [thread[t] EXCEPT !.at = "announce", !.hand = NoClient])
        /\ client' = thread[t].hand /\ UNCHANGED connected
     \/ /\ At(t, "announce")
        /\ IF mode = "tcp" THEN CloseEncoder(t, "openEncoder") ELSE Resume(t)
        /\ connected' = TRUE /\ UNCHANGED client
  /\ UNCHANGED <<fixed, clockVars, seen, open, accepted, session>>

AcceptLoop ==
  /\ At("acceptor", "loop")
  /\ GoTo("acceptor", IF acceptStop THEN "exited" ELSE "testConnected")
  /\ UNCHANGED <<fixed, clockVars, clientVars>>

-----------------------------------------------------------------------------
(* workerLoop.                                                             *)

\* Faulty variant: the worker does not look at stop_requested_.
WorkerTopNoStop ==
  /\ At("worker", "top")
  /\ Become("worker", [thread["worker"] EXCEPT
       !.at = IF mode = "tcp" THEN "testConnected" ELSE "poll", !.clock = now])
  /\ UNCHANGED <<fixed, clockVars, clientVars>>

\* The time is sampled before anything else, which may block.
WorkerTop ==
  /\ At("worker", "top")
  /\ IF stop THEN GoTo("worker", "exited")
     ELSE Become("worker", [thread["worker"] EXCEPT
            !.at = IF mode = "tcp" THEN "testConnected" ELSE "poll", !.clock = now])
  /\ UNCHANGED <<fixed, clockVars, clientVars>>

\* On a Unix socket the sink follows TsOutputSink's client by polling.
PollClient ==
  /\ At("worker", "poll")
  /\ \/ connected = seen /\ GoTo("worker", "peek")
     \/ connected /\ ~seen /\ CloseEncoder("worker", "openEncoder")
     \/ ~connected /\ seen /\ CloseEncoder("worker", "resume")
  /\ seen' = connected
  /\ UNCHANGED <<fixed, clockVars, client, connected, open, accepted, session>>

PeekFrame == /\ At("worker", "peek")
             /\ UNCHANGED <<fixed, now, pushed, clientVars>>
Continue(step) == Become("worker", [NoThread EXCEPT !.at = step])
Gap == thread["worker"].clock - (base + popped)
Age == thread["worker"].clock - popped      \* pts_age_us, before there is a mapping

HandleBufferUnderflow ==
  /\ PeekFrame /\ popped = pushed
  /\ Continue("top")
  /\ UNCHANGED <<popped, sent, dropped, base>>

\* Faulty variant: late frames go without being counted.
DropLateFrameSilently ==
  /\ PeekFrame /\ popped < pushed
  /\ \/ base = Unset /\ Age > Tolerance /\ Age < SameTimebase
     \/ base # Unset /\ Gap > Tolerance
  /\ popped' = popped + 1
  /\ Continue("top")
  /\ UNCHANGED <<sent, dropped, base>>

\* Faulty variant: a late frame takes the next one with it.
DropLateFrames ==
  /\ PeekFrame /\ popped < pushed
  /\ base # Unset /\ Gap > Tolerance
  /\ popped' = popped + 2 /\ dropped' = dropped + 2
  /\ Continue("top")
  /\ UNCHANGED <<sent, base>>

\* Faulty variant: a late frame is skipped, but not taken out.
SkipLateFrame ==
  /\ PeekFrame /\ popped < pushed
  /\ base # Unset /\ Gap > Tolerance
  /\ Continue("top")
  /\ UNCHANGED <<popped, sent, dropped, base>>

\* Late against the mapping, or, while there is none, late if the PTS seem to be
\* times of the same clock.
DropLateFrame ==
  /\ PeekFrame /\ popped < pushed
  /\ \/ base = Unset /\ Age > Tolerance /\ Age < SameTimebase
     \/ base # Unset /\ Gap > Tolerance
  /\ popped' = popped + 1 /\ dropped' = dropped + 1
  /\ Continue("top")
  /\ UNCHANGED <<sent, base>>

\* Early: wait for the deadline, then look again.  kSoftWaitThresholdUs, by which a
\* frame may be ahead without a wait, is less than a tick of this clock.
WaitForFrame ==
  /\ PeekFrame /\ popped < pushed
  /\ base # Unset /\ Gap < 0
  /\ Continue("wait")
  /\ UNCHANGED <<popped, sent, dropped, base>>

EndOfWait ==
  /\ At("worker", "wait") /\ now >= base + popped
  /\ Continue("top")
  /\ UNCHANGED <<fixed, clockVars, clientVars>>

\* Faulty variant: early frames are not waited for.
EmitFrameEarly ==
  /\ PeekFrame /\ popped < pushed
  /\ base # Unset => Gap <= Tolerance
  /\ base' = IF base = Unset THEN Age ELSE base
  /\ popped' = popped + 1
  /\ Continue("process")
  /\ UNCHANGED <<sent, dropped>>

\* The first frame sets the mapping from PTS to the clock, once and for all.
EmitFrame ==
  /\ PeekFrame /\ popped < pushed
  /\ \/ base = Unset /\ (Age <= Tolerance \/ Age >= SameTimebase) /\ base' = Age
     \/ base # Unset /\ Gap \in 0 .. Tolerance /\ UNCHANGED base
  /\ popped' = popped + 1
  /\ Continue("process")
  /\ UNCHANGED <<sent, dropped>>

ClientConnected == IF mode = "tcp" THEN connected ELSE seen

\* Without a client or with a closed encoder the frame is lost, but counted.
ProcessFrame ==
  /\ At("worker", "process")
  /\ IF ClientConnected /\ session # Closed
     THEN Become("worker", [thread["worker"] EXCEPT !.at = "write", !.back = "count"])
     ELSE GoTo("worker", "count")
  /\ UNCHANGED <<fixed, clockVars, clientVars>>

CountFrame ==
  /\ At("worker", "count") /\ GoTo("worker", "top")
  /\ sent' = sent + 1
  /\ UNCHANGED <<fixed, now, pushed, popped, dropped, base, clientVars>>

-----------------------------------------------------------------------------
(* start and stop, under state_mutex_.                                     *)

\* Socket, options, bind and listen: each may fail, and what was opened is closed.
InitializeSocket == mode = "tcp" /\ state' \in {"Running", "Error"}

\* TsOutputSink::Initialize, which first removes what is at the path, and Start.
InitializeUdsSink == mode = "uds" /\ state' \in {"Running", "Error"}

Start ==
  /\ state = "Idle"
  /\ InitializeSocket \/ InitializeUdsSink
  /\ thread' = IF state' = "Running"
               THEN [thread EXCEPT !["worker"].at = "top", !["acceptor"].at = "loop"]
               ELSE thread
  /\ UNCHANGED <<mode, stop, acceptStop, clockVars, clientVars>>

\* In UDS mode TsOutputSink's thread goes on until the encoder is closed.
Stop ==
  /\ state = "Running" /\ At("stopper", "none")
  /\ stop' = TRUE /\ acceptStop' = (mode = "tcp")
  /\ GoTo("stopper", "joinWorker")
  /\ UNCHANGED <<mode, state, clockVars, clientVars>>

JoinWorker ==
  /\ At("stopper", "joinWorker") /\ At("worker", "exited")
  /\ IF mode = "tcp" THEN GoTo("stopper", "joinAcceptor")
                     ELSE CloseEncoder("stopper", "null")
  /\ UNCHANGED <<fixed, clockVars, clientVars>>

JoinAcceptor ==
  /\ At("stopper", "joinAcceptor") /\ At("acceptor", "exited")
  /\ IF mode = "tcp" THEN CloseEncoder("stopper", "null") ELSE GoTo("stopper", "cleanup")
  /\ UNCHANGED <<fixed, clockVars, clientVars>>

\* A null packet for the TCP client, whatever comes of it; TsOutputSink::Stop.
NullPacket ==
  /\ At("stopper", "null")
  /\ GoTo("stopper", IF mode = "tcp" THEN "cleanup" ELSE "joinAcceptor")
  /\ acceptStop' = TRUE
  /\ UNCHANGED <<mode, state, stop, clockVars, clientVars>>

\* Faulty variant: the client's socket is forgotten.
CleanupListenerOnly ==
  /\ At("stopper", "cleanup") /\ GoTo("stopper", "done")
  /\ client' = NoClient /\ connected' = FALSE
  /\ state' = "Stopped"
  /\ UNCHANGED <<mode, stop, acceptStop, clockVars, seen, open, accepted, session>>

CleanupSocket ==
  /\ At("stopper", "cleanup") /\ GoTo("stopper", "done")
  /\ open' = open \ {client} /\ client' = NoClient /\ connected' = FALSE
  /\ state' = "Stopped"
  /\ UNCHANGED <<mode, stop, acceptStop, clockVars, seen, accepted, session>>

-----------------------------------------------------------------------------

\* The producer, and the clock.
Push ==
  /\ pushed < MaxFrames /\ pushed - popped < Capacity
  /\ pushed' = pushed + 1
  /\ UNCHANGED <<fixed, thread, now, popped, sent, dropped, base, clientVars>>

Tick ==
  /\ now < IF base = Unset THEN Horizon - (MaxFrames - 1) ELSE Horizon
  /\ now' = now + 1
  /\ UNCHANGED <<fixed, thread, pushed, popped, sent, dropped, base, clientVars>>

Call(t) ==
  \/ BeginWrite(t) \/ ReadClient(t) \/ Send(t) \/ FailWrite(t) \/ DropClient(t)
  \/ FlushEncoder(t) \/ EncoderClosed(t) \/ OpenEncoder(t)
  \/ TestConnected(t) \/ Accept(t) \/ StoreClient(t)

Worker ==
  \/ WorkerTop \/ PollClient \/ HandleBufferUnderflow \/ DropLateFrame \/ WaitForFrame
  \/ EndOfWait \/ EmitFrame \/ ProcessFrame \/ CountFrame

Stopper == JoinWorker \/ JoinAcceptor \/ NullPacket \/ CleanupSocket

Next ==
  \/ \E t \in ThreadIds : Call(t)
  \/ AcceptLoop
  \/ Worker
  \/ Start \/ Stop \/ Stopper
  \/ Push \/ Tick

Spec == Init /\ [][Next]_vars

\* Threads are scheduled, the clock goes on, and a client that is sent to reads
\* or goes away: the sends block without a limit.
LiveSpec ==
  /\ Spec
  /\ WF_vars(Call("worker") \/ Worker)
  /\ WF_vars(Call("acceptor") \/ AcceptLoop)
  /\ WF_vars(Call("stopper") \/ Stopper)
  /\ WF_vars(Tick)

-----------------------------------------------------------------------------
Busy == {"write", "readClient", "send", "failMark", "failClose", "failClear", "dropTest",
         "dropClose", "dropClear", "dropMark", "closeEncoder", "closed", "openEncoder",
         "testConnected", "accept", "store", "announce"}
Places == [worker |-> Busy \cup {"none", "top", "poll", "peek", "wait", "process", "count", "exited"},
           acceptor |-> Busy \cup {"none", "loop", "exited"},
           stopper |-> Busy \cup {"none", "joinWorker", "joinAcceptor", "null", "cleanup", "done"}]

\* Threads, counters and descriptors stay in their domains.
TypeOK ==
  /\ state \in {"Idle", "Running", "Error", "Stopped"}
  /\ \A t \in ThreadIds : thread[t].at \in Places[t] /\ thread[t].hand \in 0 .. accepted
  /\ now \in 0 .. Horizon
  /\ pushed \in 0 .. MaxFrames /\ popped \in 0 .. pushed
  /\ pushed - popped <= Capacity
  /\ client \in 0 .. accepted /\ accepted \in 0 .. Clients
  /\ open \subseteq 1 .. accepted
  /\ session \in Closed .. accepted

\* Every frame that left the ring is in the worker's hand or has been counted once,
\* as sent or as dropped, whatever the client and the encoder did meanwhile.
FramesAccounted ==
  popped = sent + dropped + (IF \/ thread["worker"].at \in {"process", "count"}
                                \/ thread["worker"].back = "count" THEN 1 ELSE 0)

\* A frame is never emitted a tick or more before its time, although the worker decides by a time
\* it sampled before it polled, accepted and closed encoders.
NeverEarly ==
  [][At("worker", "peek") /\ At("worker", "process")' => now >= base' + popped]_vars

\* On a Unix socket no descriptor is lost: an open one is client_fd_ or in the accept
\* thread's hand, although two threads write client_fd_ without a lock.
SocketKeepsDescriptors ==
  mode = "uds" => open \subseteq {client} \cup
    {d \in {thread["acceptor"].hand} : At("acceptor", "store")}

\* After stop() no thread runs, no session is open, and on a Unix socket no client's
\* descriptor is left open.
StopReleases ==
  state = "Stopped" =>
    /\ At("worker", "exited") /\ At("acceptor", "exited")
    /\ session = Closed /\ ~connected
    /\ mode = "uds" => open = {}

\* stop() returns, from a wait for the clock, a write or an accept.
StopReturns == stop ~> state = "Stopped"

\* A frame in the ring is taken out, sent or dropped, with and without a client.
FramesFlow == popped < pushed /\ state = "Running" ~> popped = pushed \/ stop

\* What a client is sent belongs to a stream opened for it: the contract has muxer
\* and encoder torn down when a client disconnects.  The code does not keep this.
OwnStream == \A t \in ThreadIds : At(t, "send") => thread[t].hand = session
==============================================================================
