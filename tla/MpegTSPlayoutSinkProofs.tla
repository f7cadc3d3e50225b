-------------------------- MODULE MpegTSPlayoutSinkProofs --------------------------
(***************************************************************************)
(* Proofs about MpegTSPlayoutSink for any number of frames and clients, any *)
(* ring, clock and tolerance, in both modes.  The checked invariants are    *)
(* not inductive: which step a thread may be at depends on the mode and on  *)
(* the call it is in (Shape); a descriptor on the Unix socket survives      *)
(* because connected_ keeps the two writers of client_fd_ apart             *)
(* (SocketHandshake); and stop() relies on the order in which it joins      *)
(* (StopOrder).                                                             *)
(***************************************************************************)
EXTENDS MpegTSPlayoutSink, TLAPS

Encoding == {"closeEncoder", "closed", "write", "readClient", "send"}
Failing == {"failMark", "failClose", "failClear"}
Dropping == {"dropTest", "dropClose", "dropClear", "dropMark"}
Accepting == {"testConnected", "accept", "store", "announce"}
Steps == Encoding \cup Failing \cup Dropping \cup Accepting \cup
         {"none", "exited", "openEncoder", "top", "poll", "peek", "wait", "process", "count",
          "loop", "joinWorker", "joinAcceptor", "null", "cleanup", "done"}

Thread == [at: Steps, back: {"none", "closed", "count"},
           then: {"none", "openEncoder", "resume", "null"}, hand: Nat, clock: Nat]

Typed ==
  /\ mode \in {"tcp", "uds"} /\ state \in {"Idle", "Running", "Error", "Stopped"}
  /\ thread \in [ThreadIds -> Thread]
  /\ \A t \in ThreadIds : thread[t].hand <= accepted
  /\ now \in 0 .. Horizon
  /\ pushed \in 0 .. MaxFrames /\ popped \in 0 .. pushed /\ pushed - popped <= Capacity
  /\ sent \in Nat /\ dropped \in Nat /\ base \in Int
  /\ connected \in BOOLEAN /\ seen \in BOOLEAN
  /\ accepted \in 0 .. Clients /\ client \in 0 .. accepted
  /\ open \subseteq 1 .. accepted
  /\ session \in Closed .. accepted

-----------------------------------------------------------------------------
(* One thread.                                                             *)

\* The steps of each thread, which in part depend on the mode.
Reach(t) ==
  IF t = "worker" THEN
    {"none", "top", "peek", "wait", "process", "count", "exited", "openEncoder"}
      \cup Encoding \cup Dropping
      \cup (IF mode = "tcp" THEN Failing \cup Accepting ELSE {"poll"})
  ELSE IF t = "acceptor" THEN
    {"none", "loop", "exited"} \cup Accepting
      \cup (IF mode = "tcp" THEN {"openEncoder"} \cup Encoding \cup Failing \cup Dropping
            ELSE {})
  ELSE
    {"none", "joinWorker", "joinAcceptor", "null", "cleanup", "done"} \cup Encoding
      \cup (IF mode = "tcp" THEN Failing ELSE Dropping)

\* In a write, which knows where it returns to.
Writing == {"write", "readClient", "send"} \cup Failing
             \cup (IF mode = "uds" THEN Dropping ELSE {})

Shape(t, r) ==
  /\ r.at \in Reach(t)
  /\ r.back = "none" <=> r.at \notin Writing
  /\ r.back = "count" => t = "worker"
  /\ r.then = "none" <=> ~(r.back = "closed" \/ r.at \in {"closeEncoder", "closed"})
  /\ r.then # "none" => (r.then = "null" <=> t = "stopper")

\* A frame the worker has taken out of the ring and not counted yet.
InHand(r) == r.at \in {"process", "count"} \/ r.back = "count"

Balance ==
  /\ popped = sent + dropped + (IF InHand(thread["worker"]) THEN 1 ELSE 0)
  /\ thread["worker"].clock <= now

-----------------------------------------------------------------------------
(* The threads together.                                                   *)

\* On a Unix socket: while a client is connected the accept thread leaves client_fd_
\* alone, and while none is, nobody disconnects one.
SocketHandshake ==
  mode = "uds" =>
    /\ connected => thread["acceptor"].at \notin {"accept", "store", "announce"}
    /\ \A t \in {"worker", "stopper"} :
         /\ thread[t].at \in {"dropClose", "dropClear", "dropMark"} => connected
         /\ thread[t].at \in {"dropClear", "dropMark"} => client \notin open
    /\ ~connected /\ thread["acceptor"].at # "announce" => client \notin open
    /\ open \subseteq {client} \cup
         {d \in {thread["acceptor"].hand} : thread["acceptor"].at = "store"}

\* The order of stop(): the worker, the encoder and the accept thread, or the other
\* way round, then the socket.
StopperAt == thread["stopper"].at

NothingStarted == state \in {"Idle", "Error"} => \A t \in ThreadIds : thread[t].at = "none"

WorkerJoined == StopperAt \notin {"none", "joinWorker"} => thread["worker"].at = "exited"

AcceptorJoined ==
  /\ StopperAt \in {"cleanup", "done"} => thread["acceptor"].at = "exited"
  /\ mode = "tcp" /\ StopperAt \notin {"none", "joinWorker", "joinAcceptor"}
     => thread["acceptor"].at = "exited"

SessionEnded ==
  /\ StopperAt \in {"null", "cleanup", "done"} => session = Closed
  /\ mode = "uds" /\ StopperAt = "joinAcceptor" => session = Closed

StopEnded ==
  /\ state = "Stopped" <=> StopperAt = "done"
  /\ state = "Stopped" => ~connected
  /\ state = "Stopped" /\ mode = "uds" => open = {}

StopOrder == NothingStarted /\ WorkerJoined /\ AcceptorJoined /\ SessionEnded /\ StopEnded

Shapes == \A t \in ThreadIds : Shape(t, thread[t])

IndInv ==
  /\ Typed
  /\ Shapes
  /\ Balance
  /\ SocketHandshake
  /\ StopOrder

USE SinkAssumption DEF NoClient, Closed, Unset, ThreadIds, StopperAt

-----------------------------------------------------------------------------
(* How a thread moves: the four ways in which it leaves a step.            *)

\* Every thread has a record of its type, in one of the shapes of its position.
LEMMA ThreadSound ==
  ASSUME IndInv, NEW t \in ThreadIds
  PROVE  thread[t] \in Thread /\ Shape(t, thread[t])
BY DEF IndInv, Typed, Shapes

\* Within a call, or within a write.
LEMMA GoToShape ==
  ASSUME IndInv, NEW t \in ThreadIds, NEW at \in Reach(t) \cap Steps,
         at \in Writing <=> thread[t].at \in Writing,
         at \in {"closeEncoder", "closed"} <=> thread[t].at \in {"closeEncoder", "closed"}
  PROVE  LET r == [thread[t] EXCEPT !.at = at] IN
         /\ r \in Thread /\ Shape(t, r) /\ r.hand <= accepted /\ r.at = at
         /\ r.back = thread[t].back /\ r.clock = thread[t].clock
<1> DEFINE q == thread[t]
           r == [q EXCEPT !.at = at]
<1>1. q \in Thread /\ Shape(t, q)
  BY ThreadSound
<1>2. /\ r.at = at /\ r.back = q.back /\ r.then = q.then /\ r.hand = q.hand
      /\ r.clock = q.clock
  BY <1>1 DEF Thread
<1>3. r \in Thread
  BY <1>1 DEF Thread
<1> HIDE DEF r
<1>4. Shape(t, r)
  BY <1>1, <1>2 DEF Shape
<1>5. q.hand <= accepted
  BY DEF IndInv, Typed
<1> QED
  BY <1>2, <1>3, <1>4, <1>5 DEF r

\* Out of a write.
LEMMA ReturnShape ==
  ASSUME IndInv, NEW t \in ThreadIds, thread[t].at \in Writing
  PROVE  LET r == [thread[t] EXCEPT !.at = thread[t].back, !.back = "none", !.hand = NoClient] IN
         /\ r \in Thread /\ Shape(t, r) /\ r.hand <= accepted
         /\ r.at \in {"closed", "count"} /\ r.back = "none"
         /\ r.at = thread[t].back /\ r.clock = thread[t].clock
<1> DEFINE q == thread[t]
           r == [q EXCEPT !.at = q.back, !.back = "none", !.hand = NoClient]
<1>1. q \in Thread /\ Shape(t, q)
  BY ThreadSound
<1>2. q.back \in {"closed", "count"}
  BY <1>1 DEF Thread, Shape
<1>3. /\ r.at = q.back /\ r.back = "none" /\ r.then = q.then /\ r.hand = 0
      /\ r.clock = q.clock
  BY <1>1 DEF Thread
<1>4. r \in Thread
  <2>1. q.back \in Steps
    BY <1>2 DEF Steps, Encoding
  <2> QED
    BY <1>1, <2>1 DEF Thread
<1> HIDE DEF r
<1>5. r.at \in Reach(t)
  BY <1>1, <1>2, <1>3 DEF Shape, Reach, Writing, Encoding, Accepting, Failing, Dropping
<1>6. r.at \notin Writing /\ q.at \notin {"closeEncoder", "closed"}
  BY <1>2, <1>3 DEF Writing, Failing, Dropping
<1>7. 0 <= accepted
  BY DEF IndInv, Typed
<1>8. Shape(t, r)
  BY <1>1, <1>2, <1>3, <1>5, <1>6, <1>7 DEF Shape
<1> QED
  BY <1>2, <1>3, <1>4, <1>7, <1>8 DEF r

\* Out of the accept code or out of the encoder, back to its loop.
LEMMA ResumeShape ==
  ASSUME IndInv, NEW t \in {"worker", "acceptor"}
  PROVE  LET r == [NoThread EXCEPT !.at = IF t = "worker" THEN "peek" ELSE "loop",
                                   !.clock = thread[t].clock] IN
         /\ r \in Thread /\ Shape(t, r) /\ r.hand <= accepted
         /\ r.at = (IF t = "worker" THEN "peek" ELSE "loop")
         /\ r.back = "none" /\ r.clock = thread[t].clock
<1> DEFINE at == IF t = "worker" THEN "peek" ELSE "loop"
           c == thread[t].clock
           r == [NoThread EXCEPT !.at = at, !.clock = c]
<1>1. c \in Nat
  BY ThreadSound DEF Thread
<1>2. at \in Steps /\ at \in {"peek", "loop"}
  BY DEF Steps
<1> HIDE DEF c
<1>3. /\ r.at = at /\ r.back = "none" /\ r.then = "none" /\ r.hand = 0 /\ r.clock = c
  BY DEF NoThread
<1>4. r \in Thread
  <2>1. NoThread \in Thread
    BY DEF NoThread, Thread, Steps
  <2>2. ASSUME NEW s \in Thread PROVE [s EXCEPT !.at = at] \in Thread
    BY <1>2 DEF Thread
  <2>3. ASSUME NEW s \in Thread PROVE [s EXCEPT !.clock = c] \in Thread
    BY <1>1 DEF Thread
  <2> QED
    BY <2>1, <2>2, <2>3
<1>5. 0 <= accepted
  BY DEF IndInv, Typed
<1> HIDE DEF r
<1>6. Shape(t, r)
  BY <1>2, <1>3, <1>5 DEF Shape, Reach, Writing, Failing, Dropping
<1> QED
  BY <1>3, <1>4, <1>5, <1>6 DEF r, c

\* Into the encoder.
LEMMA CloseEncoderShape ==
  ASSUME IndInv, NEW t \in ThreadIds, NEW then \in {"openEncoder", "resume", "null"},
         then = "null" <=> t = "stopper", "closeEncoder" \in Reach(t),
         thread[t].at \notin Writing
  PROVE  LET r == [thread[t] EXCEPT !.at = "closeEncoder", !.then = then] IN
         /\ r \in Thread /\ Shape(t, r) /\ r.hand <= accepted /\ r.at = "closeEncoder"
         /\ r.back = "none" /\ r.clock = thread[t].clock
<1> DEFINE q == thread[t]
           r == [q EXCEPT !.at = "closeEncoder", !.then = then]
<1>1. q \in Thread /\ Shape(t, q) /\ q.back = "none"
  BY ThreadSound DEF Shape
<1>2. /\ r.at = "closeEncoder" /\ r.back = q.back /\ r.then = then /\ r.hand = q.hand
      /\ r.clock = q.clock
  BY <1>1 DEF Thread
<1>3. r \in Thread
  BY <1>1 DEF Thread, Steps, Encoding
<1> HIDE DEF r
<1>4. Shape(t, r)
  BY <1>1, <1>2 DEF Shape, Writing, Failing, Dropping
<1>5. q.hand <= accepted
  BY DEF IndInv, Typed
<1> QED
  BY <1>1, <1>2, <1>3, <1>4, <1>5 DEF r

-----------------------------------------------------------------------------
(* What every step of a thread has to respect.                             *)

\* The thread makes a step in a call or in its loop: nothing here opens, stores or
\* closes a descriptor, and the end of stop() is not reached.
Ordinary(t, r) ==
  /\ r \in Thread /\ Shape(t, r)
  /\ thread' = [thread EXCEPT ![t] = r]
  /\ UNCHANGED <<fixed, client, open, accepted>>
  /\ connected' = connected \/ (mode = "tcp" /\ connected' = FALSE)
  /\ \/ session' = session
     \/ session' = Closed
     \/ t # "stopper" /\ (mode = "tcp" \/ t = "worker")
  /\ thread[t].at \notin {"none", "exited", "store", "announce"}
  /\ r.at \notin {"none", "store", "announce", "dropClear", "dropMark"}
  /\ mode = "uds" /\ r.at = "dropClose" => connected
  /\ mode = "uds" /\ r.at = "accept" => ~connected
  /\ t = "stopper" =>
       /\ thread[t].at \in Encoding \cup Failing \cup Dropping
       /\ r.at \in Encoding \cup Failing \cup Dropping \cup {"null"}
       /\ r.at = "null" => session' = Closed

\* A thread that moves to a sound record leaves the others as they were.
LEMMA ThreadsMoved ==
  ASSUME IndInv, NEW t \in ThreadIds, NEW r \in Thread, Shape(t, r),
         thread' = [thread EXCEPT ![t] = r], mode' = mode
  PROVE  /\ thread' \in [ThreadIds -> Thread]
         /\ thread'[t] = r
         /\ \A s \in ThreadIds \ {t} : thread'[s] = thread[s]
         /\ Shapes'
<1>1. /\ thread' \in [ThreadIds -> Thread]
      /\ thread'[t] = r
      /\ \A s \in ThreadIds \ {t} : thread'[s] = thread[s]
  BY DEF IndInv, Typed
<1>2. \A s \in ThreadIds : Shape(s, thread'[s])
  BY <1>1, ThreadSound
<1>3. Shapes'
  BY <1>2 DEF Shapes, Shape, Reach, Writing
<1> QED
  BY <1>1, <1>3

\* An ordinary step of one thread cannot disturb the handshake or the order of the stop.
LEMMA OrdinaryStep ==
  ASSUME IndInv, NEW t \in ThreadIds, NEW r, Ordinary(t, r)
  PROVE  /\ thread' \in [ThreadIds -> Thread]
         /\ thread'[t] = r
         /\ \A s \in ThreadIds \ {t} : thread'[s] = thread[s]
         /\ Shapes' /\ SocketHandshake'
         /\ StopOrder'
<1>1. /\ thread' = [thread EXCEPT ![t] = r] /\ r \in Thread
      /\ UNCHANGED <<mode, state, stop, acceptStop, client, open, accepted>>
  BY DEF Ordinary, fixed
<1>4. /\ thread' \in [ThreadIds -> Thread]
      /\ thread'[t] = r
      /\ \A s \in ThreadIds \ {t} : thread'[s] = thread[s]
      /\ Shapes'
  BY <1>1, ThreadsMoved DEF Ordinary
<1>5. SocketHandshake'
  BY <1>1, <1>4 DEF IndInv, SocketHandshake, Ordinary
<1>6. /\ state \notin {"Idle", "Error"}
      /\ t \in {"worker", "acceptor"} => thread'["stopper"] = thread["stopper"]
      /\ thread[t].at \notin {"none", "exited"}
  BY <1>4 DEF IndInv, StopOrder, NothingStarted, Ordinary
<1>7. t = "stopper" =>
        /\ thread["stopper"].at \in Encoding \cup Failing \cup Dropping
        /\ r.at \in Encoding \cup Failing \cup Dropping \cup {"null"}
        /\ r.at = "null" => session' = Closed
  BY DEF Ordinary
<1>8. state # "Stopped"
  BY <1>6, <1>7 DEF IndInv, StopOrder, StopEnded, WorkerJoined, AcceptorJoined, Encoding,
                   Failing, Dropping
<1>9. NothingStarted' /\ StopEnded'
  BY <1>1, <1>4, <1>6, <1>7, <1>8
     DEF IndInv, StopOrder, NothingStarted, StopEnded, Encoding, Failing, Dropping
<1>10. WorkerJoined'
  BY <1>4, <1>6, <1>7 DEF IndInv, StopOrder, WorkerJoined, Encoding, Failing, Dropping
<1>11. AcceptorJoined'
  BY <1>1, <1>4, <1>6, <1>7
     DEF IndInv, StopOrder, AcceptorJoined, Encoding, Failing, Dropping
<1>12. SessionEnded'
  <2>1. t \in {"worker", "acceptor"} =>
          \/ session' \in {session, Closed}
          \/ mode = "tcp" \/ t = "worker"
    BY DEF Ordinary
  <2>2. CASE t = "stopper"
    BY <1>1, <1>4, <1>7, <2>2 DEF IndInv, StopOrder, SessionEnded, Encoding, Failing, Dropping
  <2>3. CASE t \in {"worker", "acceptor"}
    BY <1>1, <1>6, <2>1, <2>3
       DEF IndInv, StopOrder, SessionEnded, WorkerJoined, AcceptorJoined
  <2> QED
    BY <2>2, <2>3
<1> QED
  BY <1>4, <1>5, <1>9, <1>10, <1>11, <1>12 DEF StopOrder

\* An ordinary step that keeps the sampled time and counts nothing.
Moves(t) ==
  \E r : /\ Ordinary(t, r) /\ r.hand <= accepted /\ r.clock = thread[t].clock
         /\ InHand(r) <=> InHand(thread[t])

\* Call preserves the invariant.
LEMMA CallInv ==
  ASSUME IndInv, NEW t \in ThreadIds, Moves(t), UNCHANGED clockVars,
         seen' \in BOOLEAN, session' \in Closed .. accepted
  PROVE  IndInv'
<1>0. PICK r : /\ Ordinary(t, r) /\ r.hand <= accepted /\ r.clock = thread[t].clock
               /\ InHand(r) <=> InHand(thread[t])
  BY DEF Moves
<1>1. /\ thread' \in [ThreadIds -> Thread]
      /\ thread'[t] = r
      /\ \A s \in ThreadIds \ {t} : thread'[s] = thread[s]
      /\ Shapes' /\ SocketHandshake' /\ StopOrder'
  BY <1>0, OrdinaryStep
<1>2. UNCHANGED <<mode, state, client, open, accepted>>
  BY <1>0 DEF Ordinary, fixed
<1>3. connected' \in BOOLEAN
  BY <1>0 DEF Ordinary, IndInv, Typed
<1>4. \A s \in ThreadIds : thread'[s].hand <= accepted
  BY <1>0, <1>1 DEF IndInv, Typed
<1>5. Typed'
  BY <1>1, <1>2, <1>3, <1>4 DEF IndInv, Typed, clockVars
<1>6. InHand(thread'["worker"]) <=> InHand(thread["worker"])
  BY <1>0, <1>1
<1>7. thread'["worker"].clock = thread["worker"].clock
  BY <1>0, <1>1
<1>8. Balance'
  BY <1>6, <1>7 DEF IndInv, Balance, clockVars, InHand
<1> QED
  BY <1>1, <1>5, <1>8 DEF IndInv

-----------------------------------------------------------------------------
(* Writing to the client.                                                  *)

\* A return from a write or a test of the client is ordinary.
LEMMA ReturnOrdinary ==
  ASSUME IndInv, NEW t \in ThreadIds, thread[t].at \in {"write", "readClient", "send"}
                                      \cup (IF mode = "tcp" THEN {} ELSE {"dropTest"}),
         Return(t), UNCHANGED <<fixed, client, open, accepted, session>>,
         connected' = connected \/ (mode = "tcp" /\ connected' = FALSE)
  PROVE  Moves(t)
<1> DEFINE q == thread[t]
           r == [q EXCEPT !.at = q.back, !.back = "none", !.hand = NoClient]
<1>0. q \in Thread /\ Shape(t, q) /\ mode \in {"tcp", "uds"}
  BY ThreadSound DEF IndInv, Typed
<1>1. q.at \in Writing
  BY <1>0 DEF Writing, Dropping
<1>2. /\ r \in Thread /\ Shape(t, r) /\ r.hand <= accepted
      /\ r.at \in {"closed", "count"} /\ r.back = "none"
      /\ r.at = thread[t].back /\ r.clock = thread[t].clock
  BY <1>1, ReturnShape
<1>3. thread' = [thread EXCEPT ![t] = r]
  BY DEF Return, Become
<1> HIDE DEF r
<1>4. t = "stopper" => r.at = "closed" /\ q.at \in Encoding \cup Dropping
  BY <1>0, <1>2 DEF Shape, Encoding, Dropping
<1>5. Ordinary(t, r)
  BY <1>2, <1>3, <1>4 DEF Ordinary, Encoding
<1>6. InHand(r) <=> InHand(q)
  BY <1>0, <1>2 DEF InHand
<1> QED
  BY <1>2, <1>5, <1>6 DEF Moves

\* A move inside the encoder, the write, the drop or the accept is ordinary.
LEMMA GoToOrdinary ==
  ASSUME IndInv, NEW t \in ThreadIds, NEW at \in Reach(t) \cap Steps, GoTo(t, at),
         at \in Writing <=> thread[t].at \in Writing,
         at \in {"closeEncoder", "closed"} <=> thread[t].at \in {"closeEncoder", "closed"},
         thread[t].at \in Encoding \cup Failing \cup Dropping
                          \cup {"testConnected", "loop", "openEncoder"},
         at \notin {"none", "store", "announce", "dropClear", "dropMark", "process", "count"},
         mode = "uds" /\ at = "dropClose" => connected,
         mode = "uds" /\ at = "accept" => ~connected,
         t = "stopper" => at \in Encoding \cup Failing \cup Dropping,
         UNCHANGED <<fixed, client, open, accepted, session>>,
         connected' = connected \/ (mode = "tcp" /\ connected' = FALSE)
  PROVE  Moves(t)
<1> DEFINE q == thread[t]
           r == [q EXCEPT !.at = at]
<1>0. q \in Thread /\ Shape(t, q)
  BY ThreadSound
<1>2. /\ r \in Thread /\ Shape(t, r) /\ r.hand <= accepted
      /\ r.at = at /\ r.back = q.back /\ r.clock = q.clock
  BY GoToShape
<1>3. thread' = [thread EXCEPT ![t] = r]
  BY DEF GoTo, Become
<1> HIDE DEF r
<1>4. q.at \notin {"none", "exited", "store", "announce", "process", "count"}
  BY DEF Encoding, Failing, Dropping
<1>5. t = "stopper" => q.at \in Encoding \cup Failing \cup Dropping /\ at # "null"
  BY <1>0 DEF Shape, Reach, Encoding, Failing, Dropping
<1>6. Ordinary(t, r)
  BY <1>2, <1>3, <1>4, <1>5 DEF Ordinary
<1>7. InHand(r) <=> InHand(q)
  BY <1>2, <1>4 DEF InHand
<1> QED
  BY <1>2, <1>6, <1>7 DEF Moves

\* Going back to the loop a thread came from is ordinary.
LEMMA ResumeOrdinary ==
  ASSUME IndInv, NEW t \in {"worker", "acceptor"}, Resume(t),
         thread[t].at \in {"closeEncoder", "closed", "openEncoder", "testConnected", "accept"}
                          \cup (IF mode = "tcp" THEN {"dropTest"} ELSE {}),
         UNCHANGED <<fixed, client, open, accepted, connected>>,
         session' = session \/ session' = Closed \/ thread[t].at = "openEncoder"
  PROVE  Moves(t)
<1> DEFINE q == thread[t]
           r == [NoThread EXCEPT !.at = IF t = "worker" THEN "peek" ELSE "loop", !.clock = q.clock]
<1>0. q \in Thread /\ Shape(t, q) /\ mode \in {"tcp", "uds"}
  BY ThreadSound DEF IndInv, Typed
<1>1. /\ r \in Thread /\ Shape(t, r) /\ r.hand <= accepted
      /\ r.at = (IF t = "worker" THEN "peek" ELSE "loop")
      /\ r.back = "none" /\ r.clock = q.clock
  BY ResumeShape
<1>2. thread' = [thread EXCEPT ![t] = r]
  BY DEF Resume, Become
<1> HIDE DEF r
<1>3. q.back = "none" /\ q.at \notin {"none", "exited", "store", "announce", "process", "count"}
  BY <1>0 DEF Shape, Writing, Failing, Dropping
<1>4. q.at = "openEncoder" => mode = "tcp" \/ t = "worker"
  BY <1>0 DEF Shape, Reach, Accepting
<1>5. Ordinary(t, r)
  BY <1>1, <1>2, <1>3, <1>4 DEF Ordinary
<1>6. InHand(r) <=> InHand(q)
  BY <1>1, <1>3 DEF InHand
<1> QED
  BY <1>1, <1>5, <1>6 DEF Moves

\* BeginWrite preserves the invariant.
LEMMA BeginWriteInv ==
  ASSUME IndInv, NEW t \in ThreadIds, BeginWrite(t)
  PROVE  IndInv'
<1>0. /\ thread[t].at = "write" /\ Shape(t, thread[t])
      /\ UNCHANGED <<fixed, client, open, accepted, session, connected, seen, clockVars>>
  BY ThreadSound DEF BeginWrite, At, clientVars
<1>1. Moves(t)
  <2>1. CASE connected
    <3>1. GoTo(t, "readClient")
      BY <2>1 DEF BeginWrite
    <3>2. "readClient" \in Reach(t) \cap Steps
      BY <1>0 DEF Shape, Reach, Steps, Encoding, Failing, Dropping, Accepting
    <3> QED
      BY <1>0, <3>1, <3>2, GoToOrdinary DEF Writing, Encoding
  <2>2. CASE ~connected
    BY <1>0, <2>2, ReturnOrdinary DEF BeginWrite
  <2> QED
    BY <2>1, <2>2
<1> QED
  BY <1>0, <1>1, CallInv DEF IndInv, Typed

\* ReadClient preserves the invariant.
LEMMA ReadClientInv ==
  ASSUME IndInv, NEW t \in ThreadIds, ReadClient(t)
  PROVE  IndInv'
<1> DEFINE q == thread[t]
           r == [q EXCEPT !.at = "send", !.hand = client]
<1>0. /\ q.at = "readClient" /\ q \in Thread /\ Shape(t, q)
      /\ UNCHANGED <<fixed, client, open, accepted, session, seen, clockVars>>
  BY ThreadSound DEF ReadClient, At
<1>1. Moves(t)
  <2>1. CASE client # NoClient
    <3>1. client \in Nat /\ client <= accepted
      BY DEF IndInv, Typed
    <3>2. /\ r.at = "send" /\ r.back = q.back /\ r.then = q.then /\ r.hand = client
          /\ r.clock = q.clock
      BY <1>0 DEF Thread
    <3>3. r \in Thread
      BY <1>0, <3>1 DEF Thread, Steps, Encoding
    <3>4. thread' = [thread EXCEPT ![t] = r] /\ connected' = connected
      BY <2>1 DEF ReadClient, Become
    <3> HIDE DEF r
    <3>5. "send" \in Reach(t)
      BY <1>0 DEF Shape, Reach, Encoding, Failing, Dropping, Accepting
    <3>6. Shape(t, r)
      BY <1>0, <3>2, <3>5 DEF Shape, Writing
    <3>7. Ordinary(t, r)
      BY <1>0, <3>2, <3>3, <3>4, <3>6 DEF Ordinary, Encoding
    <3>8. InHand(r) <=> InHand(q)
      BY <1>0, <3>2 DEF InHand
    <3> QED
      BY <3>1, <3>2, <3>7, <3>8 DEF Moves
  <2>2. CASE client = NoClient
    <3>1. connected' = connected \/ (mode = "tcp" /\ connected' = FALSE)
      BY <2>2 DEF ReadClient, IndInv, Typed
    <3> QED
      BY <1>0, <2>2, <3>1, ReturnOrdinary DEF ReadClient
  <2> QED
    BY <2>1, <2>2
<1> QED
  BY <1>0, <1>1, CallInv DEF IndInv, Typed

\* Send preserves the invariant.
LEMMA SendInv ==
  ASSUME IndInv, NEW t \in ThreadIds, Send(t)
  PROVE  IndInv'
<1>0. /\ thread[t].at = "send" /\ Shape(t, thread[t]) /\ mode \in {"tcp", "uds"}
      /\ UNCHANGED <<fixed, client, open, accepted, session, connected, seen, clockVars>>
  BY ThreadSound DEF Send, At, clientVars, IndInv, Typed
<1>1. Moves(t)
  <2> DEFINE at == IF mode = "tcp" THEN "failMark" ELSE "dropTest"
  <2>1. CASE GoTo(t, at)
    <3>1. at \in Reach(t) \cap Steps
      BY <1>0 DEF Shape, Reach, Steps, Encoding, Failing, Dropping, Accepting
    <3>2. at \in Writing /\ at \in Failing \cup Dropping
      BY <1>0 DEF Writing, Failing, Dropping
    <3>3. at \in {"failMark", "dropTest"}
      OBVIOUS
    <3>4. thread[t].at \in Writing
      BY <1>0 DEF Writing
    <3> HIDE DEF at
    <3> QED
      BY <1>0, <2>1, <3>1, <3>2, <3>3, <3>4, GoToOrdinary DEF Encoding
  <2>2. CASE Return(t)
    BY <1>0, <2>2, ReturnOrdinary
  <2> QED
    BY <2>1, <2>2 DEF Send
<1> QED
  BY <1>0, <1>1, CallInv DEF IndInv, Typed

-----------------------------------------------------------------------------
(* The encoder, and the tests before a client is accepted or dropped.      *)

\* The end of closing the encoder is ordinary.
LEMMA ClosingOrdinary ==
  ASSUME IndInv, NEW t \in ThreadIds, thread[t].at \in {"closeEncoder", "closed"}, Closing(t),
         UNCHANGED <<fixed, client, open, accepted, connected>>, session' = Closed
  PROVE  Moves(t)
<1> DEFINE q == thread[t]
           r == [q EXCEPT !.at = q.then, !.then = "none"]
<1>0. /\ q \in Thread /\ Shape(t, q)
      /\ q.back = "none" /\ q.then \in {"openEncoder", "resume", "null"}
      /\ q.then = "null" <=> t = "stopper"
  BY ThreadSound DEF Shape, Writing, Failing, Dropping, Thread
<1>1. CASE q.then = "resume"
  BY <1>0, <1>1, ResumeOrdinary DEF Closing
<1>2. CASE q.then # "resume"
  <2>1. /\ r.at = q.then /\ r.back = "none" /\ r.then = "none" /\ r.hand = q.hand
        /\ r.clock = q.clock
    BY <1>0 DEF Thread
  <2>2. r \in Thread
    <3>1. q.then \in Steps
      BY <1>0, <1>2 DEF Steps
    <3> QED
      BY <1>0, <3>1 DEF Thread
  <2>3. thread' = [thread EXCEPT ![t] = r] /\ q.hand <= accepted
    BY <1>2 DEF Closing, Become, IndInv, Typed
  <2> HIDE DEF r
  <2>4. r.at \in Reach(t)
    BY <1>0, <1>2, <2>1 DEF Shape, Reach, Accepting
  <2>5. Shape(t, r)
    BY <1>0, <1>2, <2>1, <2>4 DEF Shape, Writing, Failing, Dropping
  <2>6. Ordinary(t, r)
    BY <1>0, <1>2, <2>1, <2>2, <2>3, <2>5 DEF Ordinary, Encoding
  <2>7. InHand(r) <=> InHand(q)
    BY <1>0, <1>2, <2>1 DEF InHand
  <2> QED
    BY <2>1, <2>3, <2>6, <2>7 DEF Moves
<1> QED
  BY <1>1, <1>2

\* FlushEncoder preserves the invariant.
LEMMA FlushEncoderInv ==
  ASSUME IndInv, NEW t \in ThreadIds, FlushEncoder(t)
  PROVE  IndInv'
<1> DEFINE q == thread[t]
           r == [q EXCEPT !.at = "write", !.back = "closed"]
<1>0. /\ q.at = "closeEncoder" /\ q \in Thread /\ Shape(t, q)
      /\ UNCHANGED <<fixed, client, open, accepted, session, connected, seen, clockVars>>
  BY ThreadSound DEF FlushEncoder, At, clientVars
<1>1. Moves(t)
  <2>1. CASE session = Closed /\ Closing(t)
    BY <1>0, <2>1, ClosingOrdinary
  <2>2. CASE Become(t, r)
    <3>1. /\ r.at = "write" /\ r.back = "closed" /\ r.then = q.then /\ r.hand = q.hand
          /\ r.clock = q.clock
      BY <1>0 DEF Thread
    <3>2. r \in Thread
      BY <1>0 DEF Thread, Steps, Encoding
    <3>3. thread' = [thread EXCEPT ![t] = r] /\ q.hand <= accepted
      BY <2>2 DEF Become, IndInv, Typed
    <3> HIDE DEF r
    <3>4. "write" \in Reach(t)
      BY <1>0 DEF Shape, Reach, Encoding, Failing, Dropping, Accepting
    <3>5. Shape(t, r) /\ q.back = "none"
      BY <1>0, <3>1, <3>4 DEF Shape, Writing, Failing, Dropping
    <3>6. Ordinary(t, r)
      BY <1>0, <3>1, <3>2, <3>3, <3>5 DEF Ordinary, Encoding
    <3>7. InHand(r) <=> InHand(q)
      BY <1>0, <3>1, <3>5 DEF InHand
    <3> QED
      BY <3>1, <3>3, <3>6, <3>7 DEF Moves
  <2>3. CASE GoTo(t, "closed")
    <3>1. "closed" \in Reach(t) \cap Steps
      BY <1>0 DEF Shape, Reach, Steps, Encoding, Failing, Dropping, Accepting
    <3> QED
      BY <1>0, <2>3, <3>1, GoToOrdinary DEF Encoding, Writing, Failing, Dropping
  <2> QED
    BY <2>1, <2>2, <2>3 DEF FlushEncoder
<1> QED
  BY <1>0, <1>1, CallInv DEF IndInv, Typed

\* EncoderClosed preserves the invariant.
LEMMA EncoderClosedInv ==
  ASSUME IndInv, NEW t \in ThreadIds, EncoderClosed(t)
  PROVE  IndInv'
<1>1. Moves(t)
  BY ClosingOrdinary DEF EncoderClosed, At
<1>2. 0 <= accepted /\ accepted \in Int
  BY DEF IndInv, Typed
<1> QED
  BY <1>1, <1>2, CallInv DEF IndInv, Typed, EncoderClosed

\* OpenEncoder preserves the invariant.
LEMMA OpenEncoderInv ==
  ASSUME IndInv, NEW t \in ThreadIds, OpenEncoder(t)
  PROVE  IndInv'
<1>0. /\ thread[t].at = "openEncoder" /\ Shape(t, thread[t])
      /\ UNCHANGED <<fixed, client, open, accepted, connected, clockVars>>
  BY ThreadSound DEF OpenEncoder, At
<1>1. t \in {"worker", "acceptor"}
  BY <1>0 DEF Shape, Reach, Encoding, Failing, Dropping
<1>2. Moves(t)
  <2>1. CASE Resume(t)
    BY <1>0, <1>1, <2>1, ResumeOrdinary
  <2>2. CASE mode = "tcp" /\ GoTo(t, "dropTest") /\ session' = session
    <3>1. "dropTest" \in Reach(t) \cap Steps
      BY <1>1, <2>2 DEF Reach, Steps, Dropping
    <3> QED
      BY <1>0, <1>1, <2>2, <3>1, GoToOrdinary DEF Writing, Failing, Dropping
  <2> QED
    BY <2>1, <2>2 DEF OpenEncoder
<1>3. seen' \in BOOLEAN
  BY DEF OpenEncoder, IndInv, Typed
<1>4. session' \in Closed .. accepted
  BY DEF OpenEncoder, IndInv, Typed
<1> QED
  BY <1>0, <1>2, <1>3, <1>4, CallInv

\* TestConnected preserves the invariant.
LEMMA TestConnectedInv ==
  ASSUME IndInv, NEW t \in ThreadIds, TestConnected(t)
  PROVE  IndInv'
<1>0. /\ thread[t].at = "testConnected" /\ Shape(t, thread[t])
      /\ UNCHANGED <<fixed, client, open, accepted, session, connected, seen, clockVars>>
  BY ThreadSound DEF TestConnected, At, clientVars
<1>1. t \in {"worker", "acceptor"}
  BY <1>0 DEF Shape, Reach, Encoding, Failing, Dropping
<1>2. Moves(t)
  <2>1. CASE connected
    BY <1>0, <1>1, <2>1, ResumeOrdinary DEF TestConnected
  <2>2. CASE ~connected
    <3>1. "accept" \in Reach(t) \cap Steps
      BY <1>0, <1>1 DEF Shape, Reach, Steps, Encoding, Failing, Dropping, Accepting
    <3> QED
      BY <1>0, <1>1, <2>2, <3>1, GoToOrdinary DEF TestConnected, Writing, Failing, Dropping
  <2> QED
    BY <2>1, <2>2
<1> QED
  BY <1>0, <1>2, CallInv DEF IndInv, Typed

-----------------------------------------------------------------------------
(* Steps that open, store or close a descriptor.                           *)

\* A step of the thread that replaces or drops the client keeps types, shapes, the balance of
\* frames and the order of the stop; the handshake is left to each step.
LEMMA DescriptorStep ==
  ASSUME IndInv, NEW t \in ThreadIds, NEW r \in Thread, Shape(t, r),
         thread' = [thread EXCEPT ![t] = r], UNCHANGED <<fixed, clockVars, session, seen>>,
         thread[t].at \in Failing \cup Dropping \cup {"accept", "store", "announce"},
         r.at \in Failing \cup Dropping
                  \cup {"closed", "count", "closeEncoder", "store", "announce", "peek", "loop"},
         r.clock = thread[t].clock, InHand(r) <=> InHand(thread[t]),
         accepted' \in accepted .. Clients, r.hand <= accepted',
         client' \in 0 .. accepted', open' \subseteq 1 .. accepted', connected' \in BOOLEAN
  PROVE  /\ Typed' /\ Shapes' /\ Balance' /\ StopOrder'
         /\ thread'[t] = r
         /\ \A s \in ThreadIds \ {t} : thread'[s] = thread[s]
<1>0. UNCHANGED <<mode, state, now, pushed, popped, sent, dropped, base, session, seen>>
  BY DEF fixed, clockVars
<1>1. /\ thread' \in [ThreadIds -> Thread]
      /\ thread'[t] = r
      /\ \A s \in ThreadIds \ {t} : thread'[s] = thread[s]
      /\ Shapes'
  BY <1>0, ThreadsMoved
<1>2. accepted' >= accepted /\ accepted \in Nat /\ accepted' \in 0 .. Clients
  BY DEF IndInv, Typed
<1>3. \A s \in ThreadIds : thread'[s].hand <= accepted'
  <2>1. \A s \in ThreadIds : thread[s].hand <= accepted /\ thread[s].hand \in Int
    BY DEF IndInv, Typed, Thread
  <2> QED
    BY <1>1, <1>2, <2>1
<1>4. session' \in Closed .. accepted'
  BY <1>0, <1>2 DEF IndInv, Typed
<1>5. Typed'
  BY <1>0, <1>1, <1>2, <1>3, <1>4 DEF IndInv, Typed
<1>6. /\ InHand(thread'["worker"]) <=> InHand(thread["worker"])
      /\ thread'["worker"].clock = thread["worker"].clock
  BY <1>1
<1>7. Balance'
  BY <1>0, <1>6 DEF IndInv, Balance, InHand
<1>8. /\ thread[t].at \notin {"none", "exited", "joinWorker", "joinAcceptor", "null", "cleanup",
                              "done"}
      /\ r.at \notin {"none", "exited", "joinWorker", "joinAcceptor", "null", "cleanup", "done"}
  BY DEF Failing, Dropping
<1>9. state \notin {"Idle", "Error", "Stopped"}
  BY <1>8 DEF IndInv, StopOrder, NothingStarted, StopEnded, WorkerJoined, AcceptorJoined
<1>10. NothingStarted' /\ StopEnded'
  BY <1>0, <1>1, <1>8, <1>9 DEF IndInv, StopOrder, NothingStarted, StopEnded
<1>11. WorkerJoined' /\ AcceptorJoined'
  BY <1>0, <1>1, <1>8 DEF IndInv, StopOrder, WorkerJoined, AcceptorJoined
<1>12. SessionEnded'
  BY <1>0, <1>1, <1>8 DEF IndInv, StopOrder, SessionEnded
<1> QED
  BY <1>1, <1>5, <1>7, <1>10, <1>11, <1>12 DEF StopOrder

\* A step of a write or of a disconnection leaves what is around it as it is.
LEMMA SameCall ==
  ASSUME IndInv, NEW t \in ThreadIds, NEW at \in Failing \cup Dropping, GoTo(t, at),
         {thread[t].at, at} \subseteq Failing \/ {thread[t].at, at} \subseteq Dropping
  PROVE  LET r == [thread[t] EXCEPT !.at = at] IN
         /\ thread' = [thread EXCEPT ![t] = r]
         /\ r \in Thread /\ Shape(t, r) /\ r.hand <= accepted /\ r.at = at
         /\ r.clock = thread[t].clock
         /\ InHand(r) <=> InHand(thread[t])
<1> DEFINE q == thread[t]
           r == [q EXCEPT !.at = at]
<1>0. Shape(t, q) /\ mode \in {"tcp", "uds"}
  BY ThreadSound DEF IndInv, Typed
<1>1. at \in Steps
  BY DEF Steps
<1>2. at \in Reach(t)
  BY <1>0 DEF Shape, Reach, Failing, Dropping, Encoding, Accepting
<1>3. at \in Writing <=> q.at \in Writing
  BY DEF Writing, Failing, Dropping
<1>4. /\ at \notin {"closeEncoder", "closed", "process", "count"}
      /\ q.at \notin {"closeEncoder", "closed", "process", "count"}
  BY DEF Failing, Dropping
<1>5. /\ r \in Thread /\ Shape(t, r) /\ r.hand <= accepted
      /\ r.at = at /\ r.back = q.back /\ r.clock = q.clock
  BY <1>1, <1>2, <1>3, <1>4, GoToShape
<1>6. thread' = [thread EXCEPT ![t] = r]
  BY DEF GoTo, Become
<1> HIDE DEF r
<1>7. InHand(r) <=> InHand(q)
  BY <1>4, <1>5 DEF InHand
<1> QED
  BY <1>5, <1>6, <1>7 DEF r

\* The end of a write, for the steps that touch a descriptor.
LEMMA ReturnStep ==
  ASSUME IndInv, NEW t \in ThreadIds, Return(t),
         thread[t].at \in Writing \ {"write", "readClient", "send"}
  PROVE  LET r == [thread[t] EXCEPT !.at = thread[t].back, !.back = "none", !.hand = NoClient] IN
         /\ thread' = [thread EXCEPT ![t] = r]
         /\ r \in Thread /\ Shape(t, r) /\ r.hand <= accepted /\ r.at \in {"closed", "count"}
         /\ r.clock = thread[t].clock
         /\ InHand(r) <=> InHand(thread[t])
<1> DEFINE q == thread[t]
           r == [q EXCEPT !.at = q.back, !.back = "none", !.hand = NoClient]
<1>1. /\ r \in Thread /\ Shape(t, r) /\ r.hand <= accepted
      /\ r.at \in {"closed", "count"} /\ r.back = "none"
      /\ r.at = q.back /\ r.clock = q.clock
  BY ReturnShape
<1>2. thread' = [thread EXCEPT ![t] = r]
  BY DEF Return, Become
<1>3. q.at \notin {"process", "count"}
  BY DEF Writing, Failing, Dropping
<1> HIDE DEF r
<1>4. InHand(r) <=> InHand(q)
  BY <1>1, <1>3 DEF InHand
<1> QED
  BY <1>1, <1>2, <1>4 DEF r

\* The present descriptors are within their bounds.
LEMMA DescriptorsTyped ==
  ASSUME IndInv
  PROVE  /\ accepted \in accepted .. Clients /\ 0 \in 0 .. accepted
         /\ client \in 0 .. accepted /\ open \subseteq 1 .. accepted /\ connected \in BOOLEAN
BY DEF IndInv, Typed

\* FailWrite preserves the invariant.
LEMMA FailWriteInv ==
  ASSUME IndInv, NEW t \in ThreadIds, FailWrite(t)
  PROVE  IndInv'
<1>0. /\ UNCHANGED <<fixed, clockVars, seen, accepted, session, mode>>
      /\ thread[t].at \in Failing /\ Shape(t, thread[t])
  BY ThreadSound DEF FailWrite, At, Failing, fixed
<1>1. mode = "tcp"
  BY <1>0 DEF Shape, Reach, Failing, Encoding, Dropping, Accepting, IndInv, Typed
<1>2. SocketHandshake'
  BY <1>0, <1>1 DEF SocketHandshake
<1>3. /\ accepted' \in accepted .. Clients /\ client' \in 0 .. accepted'
      /\ open' \subseteq 1 .. accepted' /\ connected' \in BOOLEAN
  <2>1. client' \in {0, client} /\ open' \subseteq open /\ connected' \in {FALSE, connected}
    BY DEF FailWrite
  <2> QED
    BY <1>0, <2>1, DescriptorsTyped
<1>4. Typed' /\ Shapes' /\ Balance' /\ StopOrder'
  <2>1. ASSUME NEW at \in Failing, GoTo(t, at)
        PROVE  Typed' /\ Shapes' /\ Balance' /\ StopOrder'
    <3> DEFINE r == [thread[t] EXCEPT !.at = at]
    <3>1. /\ thread' = [thread EXCEPT ![t] = r]
          /\ r \in Thread /\ Shape(t, r) /\ r.hand <= accepted /\ r.at = at
          /\ r.clock = thread[t].clock
          /\ InHand(r) <=> InHand(thread[t])
      <4>1. at \in Failing \cup Dropping /\ {thread[t].at, at} \subseteq Failing
        BY <1>0, <2>1
      <4> QED
        BY <2>1, <4>1, SameCall
    <3> HIDE DEF r
    <3> QED
      BY <1>0, <1>3, <2>1, <3>1, DescriptorStep
  <2>2. CASE Return(t)
    <3> DEFINE r == [thread[t] EXCEPT !.at = thread[t].back, !.back = "none", !.hand = NoClient]
    <3>0. thread[t].at \in Writing \ {"write", "readClient", "send"}
      BY <1>0 DEF Writing, Failing
    <3>1. /\ thread' = [thread EXCEPT ![t] = r]
          /\ r \in Thread /\ Shape(t, r) /\ r.hand <= accepted /\ r.at \in {"closed", "count"}
          /\ r.clock = thread[t].clock
          /\ InHand(r) <=> InHand(thread[t])
      BY <2>2, <3>0, ReturnStep
    <3> HIDE DEF r
    <3> QED
      BY <1>0, <1>3, <3>1, DescriptorStep
  <2> QED
    BY <2>1, <2>2 DEF FailWrite, Failing
<1> QED
  BY <1>2, <1>4 DEF IndInv

\* On a Unix socket the worker and the stopper are never in a disconnection together.
LEMMA OneDisconnection ==
  ASSUME IndInv, mode = "uds", NEW s \in ThreadIds, NEW t \in ThreadIds, s # t,
         thread[s].at \in Dropping
  PROVE  thread[t].at \notin Dropping
<1>1. /\ Shape("acceptor", thread["acceptor"])
      /\ WorkerJoined
  BY DEF IndInv, Shapes, StopOrder
<1>2. thread["acceptor"].at \notin Dropping
  BY <1>1 DEF Shape, Reach, Dropping, Accepting
<1>3. thread["stopper"].at \in Dropping => thread["worker"].at \notin Dropping
  BY <1>1 DEF WorkerJoined, Dropping
<1> QED
  BY <1>2, <1>3

\* DropTest preserves the invariant.
LEMMA DropTestInv ==
  ASSUME IndInv, NEW t \in ThreadIds, DropClient(t), thread[t].at = "dropTest"
  PROVE  IndInv'
<1>0. /\ UNCHANGED <<fixed, client, open, accepted, session, connected, seen, clockVars>>
      /\ Shape(t, thread[t]) /\ mode \in {"tcp", "uds"}
      /\ IF connected THEN GoTo(t, "dropClose")
         ELSE IF mode = "uds" THEN Return(t) ELSE Resume(t)
  BY ThreadSound DEF DropClient, At, IndInv, Typed
<1>1. Moves(t)
  <2>1. CASE connected
    <3>1. "dropClose" \in Reach(t) \cap Steps
      BY <1>0 DEF Shape, Reach, Steps, Encoding, Failing, Dropping, Accepting
    <3>2. "dropClose" \in Writing <=> thread[t].at \in Writing
      BY <1>0 DEF Writing, Failing, Dropping
    <3>3. {"dropClose", "dropTest"} \subseteq Dropping
      BY DEF Dropping
    <3> QED
      BY <1>0, <2>1, <3>1, <3>2, <3>3, GoToOrdinary
  <2>2. CASE ~connected /\ mode = "uds"
    BY <1>0, <2>2, ReturnOrdinary
  <2>3. CASE ~connected /\ mode = "tcp"
    <3>1. t \in {"worker", "acceptor"}
      BY <1>0, <2>3 DEF Shape, Reach, Encoding, Failing
    <3> QED
      BY <1>0, <2>3, <3>1, ResumeOrdinary
  <2> QED
    BY <1>0, <2>1, <2>2, <2>3
<1> QED
  BY <1>0, <1>1, CallInv DEF IndInv, Typed

\* The descriptor is closed, then forgotten.
LEMMA DropCloseInv ==
  ASSUME IndInv, NEW t \in ThreadIds, DropClient(t), thread[t].at \in {"dropClose", "dropClear"}
  PROVE  IndInv'
<1> DEFINE at == IF thread[t].at = "dropClose" THEN "dropClear" ELSE "dropMark"
           r == [thread[t] EXCEPT !.at = at]
<1>0. /\ UNCHANGED <<fixed, clockVars, seen, accepted, session>>
      /\ GoTo(t, at) /\ connected' = connected /\ mode' = mode
      /\ \/ thread[t].at = "dropClose" /\ client' = client /\ open' = open \ {client}
         \/ thread[t].at = "dropClear" /\ client' = 0 /\ open' = open
      /\ at \in {"dropClear", "dropMark"}
  BY DEF DropClient, At, fixed
<1>1. at \in Failing \cup Dropping /\ {thread[t].at, at} \subseteq Dropping
  BY DEF Dropping
<1>2. /\ accepted \in accepted .. Clients /\ client' \in 0 .. accepted
      /\ open' \subseteq 1 .. accepted /\ connected' \in BOOLEAN /\ accepted' = accepted
  BY <1>0, DescriptorsTyped
<1> HIDE DEF at
<1>3. /\ thread' = [thread EXCEPT ![t] = r]
      /\ r \in Thread /\ Shape(t, r) /\ r.hand <= accepted /\ r.at = at
      /\ r.clock = thread[t].clock
      /\ InHand(r) <=> InHand(thread[t])
  BY <1>0, <1>1, SameCall
<1> HIDE DEF r
<1>4. /\ Typed' /\ Shapes' /\ Balance' /\ StopOrder'
      /\ thread'[t] = r
      /\ \A s \in ThreadIds \ {t} : thread'[s] = thread[s]
  BY <1>0, <1>1, <1>2, <1>3, DescriptorStep
<1>5. SocketHandshake'
  <2>1. SUFFICES ASSUME mode = "uds" PROVE SocketHandshake'
    BY <1>0 DEF SocketHandshake
  <2>2. t \in {"worker", "stopper"}
    BY <2>1, ThreadSound DEF Shape, Reach, Accepting
  <2>3. connected /\ thread["acceptor"].at \notin {"accept", "store", "announce"}
    BY <2>1, <2>2 DEF IndInv, SocketHandshake
  <2>4. \A s \in ThreadIds \ {t} : thread[s].at \notin Dropping
    BY <1>1, <2>1, OneDisconnection
  <2>5. open \subseteq {client} /\ 0 \notin open
    BY <2>1, <2>3 DEF IndInv, SocketHandshake, Typed
  <2>6. client' \notin open' /\ open' = {}
    <3>1. thread[t].at = "dropClear" => client \notin open
      BY <2>1, <2>2 DEF IndInv, SocketHandshake
    <3> QED
      BY <1>0, <2>5, <3>1
  <2>7. thread'["acceptor"] = thread["acceptor"] /\ connected' /\ mode' = "uds"
    BY <1>0, <1>4, <2>1, <2>2, <2>3
  <2> QED
    BY <2>3, <2>6, <2>7 DEF SocketHandshake
<1> QED
  BY <1>4, <1>5 DEF IndInv

\* The end of the disconnection is marked last.
LEMMA DropMarkInv ==
  ASSUME IndInv, NEW t \in ThreadIds, DropClient(t), thread[t].at = "dropMark"
  PROVE  IndInv'
<1>0. /\ UNCHANGED <<fixed, clockVars, seen, accepted, session>>
      /\ IF mode = "uds" THEN Return(t) ELSE CloseEncoder(t, "resume")
      /\ connected' = FALSE /\ client' = client /\ open' = open /\ mode' = mode
      /\ mode \in {"tcp", "uds"}
  BY DEF DropClient, At, fixed, IndInv, Typed
<1>1. PICK r \in Thread : /\ thread' = [thread EXCEPT ![t] = r]
                          /\ Shape(t, r) /\ r.hand <= accepted
                          /\ r.at \in {"closed", "count", "closeEncoder"}
                          /\ r.clock = thread[t].clock
                          /\ InHand(r) <=> InHand(thread[t])
  <2>1. CASE mode = "uds"
    <3>1. thread[t].at \in Writing \ {"write", "readClient", "send"}
      BY <2>1 DEF Writing, Dropping
    <3> DEFINE r == [thread[t] EXCEPT !.at = thread[t].back, !.back = "none", !.hand = NoClient]
    <3>2. /\ thread' = [thread EXCEPT ![t] = r]
          /\ r \in Thread /\ Shape(t, r) /\ r.hand <= accepted /\ r.at \in {"closed", "count"}
          /\ r.clock = thread[t].clock
          /\ InHand(r) <=> InHand(thread[t])
      BY <1>0, <2>1, <3>1, ReturnStep
    <3> HIDE DEF r
    <3> QED
      BY <3>2
  <2>2. CASE mode = "tcp"
    <3> DEFINE r == [thread[t] EXCEPT !.at = "closeEncoder", !.then = "resume"]
    <3>1. t # "stopper" /\ "closeEncoder" \in Reach(t) /\ thread[t].back = "none"
      BY <2>2, ThreadSound DEF Shape, Reach, Encoding, Failing, Writing
    <3>2. thread[t].at \notin Writing
      BY <2>2 DEF Writing, Failing
    <3>3. /\ r \in Thread /\ Shape(t, r) /\ r.hand <= accepted /\ r.at = "closeEncoder"
          /\ r.back = "none" /\ r.clock = thread[t].clock
      BY <3>1, <3>2, CloseEncoderShape
    <3>4. thread' = [thread EXCEPT ![t] = r]
      BY <1>0, <2>2 DEF CloseEncoder, Become
    <3> HIDE DEF r
    <3>5. InHand(r) <=> InHand(thread[t])
      BY <3>1, <3>3 DEF InHand
    <3> QED
      BY <3>3, <3>4, <3>5
  <2> QED
    BY <1>0, <2>1, <2>2
<1>2. /\ accepted \in accepted .. Clients /\ client' \in 0 .. accepted
      /\ open' \subseteq 1 .. accepted /\ connected' \in BOOLEAN /\ accepted' = accepted
  BY <1>0, DescriptorsTyped
<1>3. thread[t].at \in Dropping
  BY DEF Dropping
<1>4. /\ Typed' /\ Shapes' /\ Balance' /\ StopOrder'
      /\ thread'[t] = r
      /\ \A s \in ThreadIds \ {t} : thread'[s] = thread[s]
  BY <1>0, <1>1, <1>2, <1>3, DescriptorStep
<1>5. SocketHandshake'
  <2>1. SUFFICES ASSUME mode = "uds" PROVE SocketHandshake'
    BY <1>0 DEF SocketHandshake
  <2>2. t \in {"worker", "stopper"}
    BY <2>1, ThreadSound DEF Shape, Reach, Accepting
  <2>3. \A s \in ThreadIds \ {t} : thread[s].at \notin Dropping
    BY <1>3, <2>1, OneDisconnection
  <2>4. thread["acceptor"].at # "store" /\ client \notin open
    BY <2>1, <2>2 DEF IndInv, SocketHandshake
  <2>5. thread'["acceptor"] = thread["acceptor"]
    BY <1>4, <2>2
  <2>6. \A s \in {"worker", "stopper"} : thread'[s].at \notin Dropping
    BY <1>1, <1>4, <2>3 DEF Dropping
  <2>7. open \subseteq {client}
    BY <2>1, <2>4 DEF IndInv, SocketHandshake
  <2> QED
    BY <1>0, <2>1, <2>4, <2>5, <2>6, <2>7 DEF SocketHandshake, Dropping
<1> QED
  BY <1>4, <1>5 DEF IndInv

\* DropClient preserves the invariant.
LEMMA DropClientInv ==
  ASSUME IndInv, NEW t \in ThreadIds, DropClient(t)
  PROVE  IndInv'
<1>1. thread[t].at \in {"dropTest", "dropClose", "dropClear", "dropMark"}
  BY DEF DropClient, At
<1> QED
  BY <1>1, DropTestInv, DropCloseInv, DropMarkInv

\* On a Unix socket nobody is connected while the accept thread stores a client.
LEMMA NobodyDisconnects ==
  ASSUME IndInv, mode = "uds", thread["acceptor"].at \in {"accept", "store", "announce"}
  PROVE  /\ ~connected
         /\ \A s \in {"worker", "stopper"} :
              thread[s].at \notin {"dropClose", "dropClear", "dropMark"}
BY DEF IndInv, SocketHandshake

\* Accept preserves the invariant.
LEMMA AcceptInv ==
  ASSUME IndInv, NEW t \in ThreadIds, Accept(t)
  PROVE  IndInv'
<1> DEFINE q == thread[t]
           r == [q EXCEPT !.at = "store", !.hand = accepted']
<1>0. /\ UNCHANGED <<fixed, clockVars, client, connected, seen, session>> /\ mode' = mode
      /\ q.at = "accept" /\ q \in Thread /\ Shape(t, q) /\ mode \in {"tcp", "uds"}
  BY ThreadSound DEF Accept, At, fixed, IndInv, Typed
<1>1. t \in {"worker", "acceptor"} /\ (mode = "uds" => t = "acceptor")
  BY <1>0 DEF Shape, Reach, Encoding, Failing, Dropping
<1>2. CASE Resume(t) /\ UNCHANGED <<accepted, open>>
  <2>1. Moves(t)
    BY <1>0, <1>1, <1>2, ResumeOrdinary
  <2> QED
    BY <1>0, <1>2, <2>1, CallInv DEF IndInv, Typed
<1>3. CASE /\ accepted < Clients
           /\ accepted' = accepted + 1
           /\ open' = open \cup {accepted'}
           /\ Become(t, r)
  <2>1. accepted \in Nat /\ accepted' \in Nat
    BY <1>3 DEF IndInv, Typed
  <2>2. /\ r.at = "store" /\ r.back = q.back /\ r.then = q.then /\ r.hand = accepted'
        /\ r.clock = q.clock
    BY <1>0 DEF Thread
  <2>3. r \in Thread
    <3>1. ASSUME NEW s \in Thread PROVE [s EXCEPT !.at = "store"] \in Thread
      BY DEF Thread, Steps, Accepting
    <3>2. ASSUME NEW s \in Thread PROVE [s EXCEPT !.hand = accepted'] \in Thread
      BY <2>1 DEF Thread
    <3> QED
      BY <1>0, <3>1, <3>2
  <2>4. thread' = [thread EXCEPT ![t] = r]
    BY <1>3 DEF Become
  <2> HIDE DEF r
  <2>5. "store" \in Reach(t)
    BY <1>0, <1>1 DEF Shape, Reach, Encoding, Failing, Dropping, Accepting
  <2>6. Shape(t, r) /\ (InHand(r) <=> InHand(q))
    BY <1>0, <2>2, <2>5 DEF Shape, Writing, Failing, Dropping, InHand
  <2>7. accepted' \in accepted .. Clients
    BY <1>3 DEF IndInv, Typed
  <2>8. client' \in 0 .. accepted' /\ open' \subseteq 1 .. accepted' /\ connected' \in BOOLEAN
    BY <1>0, <1>3, <2>1 DEF IndInv, Typed
  <2>9. /\ Typed' /\ Shapes' /\ Balance' /\ StopOrder'
        /\ thread'[t] = r
        /\ \A s \in ThreadIds \ {t} : thread'[s] = thread[s]
    <3>1. r.hand <= accepted'
      BY <2>1, <2>2
    <3> QED
      BY <1>0, <2>2, <2>3, <2>4, <2>6, <2>7, <2>8, <3>1, DescriptorStep
  <2>10. SocketHandshake'
    <3>1. SUFFICES ASSUME mode = "uds" PROVE SocketHandshake'
      BY <1>0 DEF SocketHandshake
    <3>2. /\ ~connected
          /\ \A s \in {"worker", "stopper"} :
               thread[s].at \notin {"dropClose", "dropClear", "dropMark"}
      BY <1>0, <1>1, <3>1, NobodyDisconnects
    <3>3. open = {}
      BY <1>0, <1>1, <3>1, <3>2 DEF IndInv, SocketHandshake
    <3>4. client' # accepted'
      BY <1>0, <1>3 DEF IndInv, Typed
    <3>5. /\ thread'["acceptor"].at = "store" /\ thread'["acceptor"].hand = accepted'
          /\ open' = {accepted'} /\ ~connected'
      BY <1>0, <1>1, <1>3, <2>2, <2>9, <3>1, <3>2, <3>3
    <3>6. \A s \in {"worker", "stopper"} : thread'[s] = thread[s]
      BY <1>1, <2>9, <3>1
    <3> QED
      BY <3>2, <3>4, <3>5, <3>6 DEF SocketHandshake
  <2> QED
    BY <2>9, <2>10 DEF IndInv
<1> QED
  BY <1>2, <1>3 DEF Accept

\* Store preserves the invariant.
LEMMA StoreInv ==
  ASSUME IndInv, NEW t \in ThreadIds, StoreClient(t), thread[t].at = "store"
  PROVE  IndInv'
<1> DEFINE q == thread[t]
           r == [q EXCEPT !.at = "announce", !.hand = NoClient]
<1>0. /\ UNCHANGED <<fixed, clockVars, seen, open, accepted, session>> /\ mode' = mode
      /\ client' = q.hand /\ connected' = connected
      /\ thread' = [thread EXCEPT ![t] = r]
      /\ q \in Thread /\ Shape(t, q) /\ q.hand <= accepted /\ mode \in {"tcp", "uds"}
  BY ThreadSound DEF StoreClient, At, Become, fixed, IndInv, Typed
<1>1. t \in {"worker", "acceptor"} /\ (mode = "uds" => t = "acceptor")
  BY <1>0 DEF Shape, Reach, Encoding, Failing, Dropping
<1>2. /\ r.at = "announce" /\ r.back = q.back /\ r.then = q.then /\ r.hand = 0
      /\ r.clock = q.clock
  BY <1>0 DEF Thread
<1>3. r \in Thread
  BY <1>0 DEF Thread, Steps, Accepting
<1> HIDE DEF r
<1>4. "announce" \in Reach(t)
  BY <1>0, <1>1 DEF Shape, Reach, Encoding, Failing, Dropping, Accepting
<1>5. Shape(t, r) /\ (InHand(r) <=> InHand(q))
  BY <1>0, <1>2, <1>4 DEF Shape, Writing, Failing, Dropping, InHand
<1>6. /\ accepted' \in accepted .. Clients /\ client' \in 0 .. accepted'
      /\ open' \subseteq 1 .. accepted' /\ connected' \in BOOLEAN /\ r.hand <= accepted'
  <2>1. q.hand \in 0 .. accepted
    BY <1>0 DEF Thread, IndInv, Typed
  <2> QED
    BY <1>0, <1>2, <2>1, DescriptorsTyped
<1>7. /\ Typed' /\ Shapes' /\ Balance' /\ StopOrder'
      /\ thread'[t] = r
      /\ \A s \in ThreadIds \ {t} : thread'[s] = thread[s]
  BY <1>0, <1>2, <1>3, <1>5, <1>6, DescriptorStep
<1>8. SocketHandshake'
  <2>1. SUFFICES ASSUME mode = "uds" PROVE SocketHandshake'
    BY <1>0 DEF SocketHandshake
  <2>2. /\ ~connected
        /\ \A s \in {"worker", "stopper"} :
             thread[s].at \notin {"dropClose", "dropClear", "dropMark"}
    BY <1>1, <2>1, NobodyDisconnects
  <2>3. open \subseteq {q.hand}
    BY <1>1, <2>1, <2>2 DEF IndInv, SocketHandshake
  <2>4. thread'["acceptor"].at = "announce" /\ ~connected' /\ open' \subseteq {client'}
    BY <1>0, <1>1, <1>2, <1>7, <2>1, <2>2, <2>3
  <2>5. \A s \in {"worker", "stopper"} : thread'[s] = thread[s]
    BY <1>1, <1>7, <2>1
  <2> QED
    BY <2>2, <2>4, <2>5 DEF SocketHandshake
<1> QED
  BY <1>7, <1>8 DEF IndInv

\* A client is announced; on TCP the encoder is opened for it.
LEMMA AnnounceInv ==
  ASSUME IndInv, NEW t \in ThreadIds, StoreClient(t), thread[t].at = "announce"
  PROVE  IndInv'
<1> DEFINE q == thread[t]
<1>0. /\ UNCHANGED <<fixed, clockVars, seen, open, accepted, session, client>> /\ mode' = mode
      /\ IF mode = "tcp" THEN CloseEncoder(t, "openEncoder") ELSE Resume(t)
      /\ connected' = TRUE
      /\ q \in Thread /\ Shape(t, q) /\ q.back = "none" /\ mode \in {"tcp", "uds"}
  BY ThreadSound DEF StoreClient, At, fixed, IndInv, Typed, Shape, Writing, Failing, Dropping
<1>1. t \in {"worker", "acceptor"} /\ (mode = "uds" => t = "acceptor")
  BY <1>0 DEF Shape, Reach, Encoding, Failing, Dropping
<1>2. PICK r \in Thread : /\ thread' = [thread EXCEPT ![t] = r]
                          /\ Shape(t, r) /\ r.hand <= accepted
                          /\ r.at \in {"closeEncoder", "peek", "loop"}
                          /\ r.clock = q.clock /\ r.back = "none"
  <2>1. CASE mode = "tcp"
    <3> DEFINE r == [q EXCEPT !.at = "closeEncoder", !.then = "openEncoder"]
    <3>1. "closeEncoder" \in Reach(t) /\ q.at \notin Writing
      BY <1>1, <2>1 DEF Reach, Encoding, Writing, Failing
    <3>2. /\ r \in Thread /\ Shape(t, r) /\ r.hand <= accepted /\ r.at = "closeEncoder"
          /\ r.back = "none" /\ r.clock = thread[t].clock
      BY <1>1, <3>1, CloseEncoderShape
    <3>3. thread' = [thread EXCEPT ![t] = r]
      BY <1>0, <2>1 DEF CloseEncoder, Become
    <3> HIDE DEF r
    <3> QED
      BY <3>2, <3>3
  <2>2. CASE mode = "uds"
    <3> DEFINE r == [NoThread EXCEPT !.at = IF t = "worker" THEN "peek" ELSE "loop",
                                     !.clock = q.clock]
    <3>1. /\ r \in Thread /\ Shape(t, r) /\ r.hand <= accepted
          /\ r.at = (IF t = "worker" THEN "peek" ELSE "loop")
          /\ r.back = "none" /\ r.clock = q.clock
      BY <1>1, ResumeShape
    <3>2. thread' = [thread EXCEPT ![t] = r]
      BY <1>0, <2>2 DEF Resume, Become
    <3> HIDE DEF r
    <3> QED
      BY <3>1, <3>2
  <2> QED
    BY <1>0, <2>1, <2>2
<1>3. /\ accepted' \in accepted .. Clients /\ client' \in 0 .. accepted' /\ accepted' = accepted
      /\ open' \subseteq 1 .. accepted' /\ connected' \in BOOLEAN
  BY <1>0, DescriptorsTyped
<1>4. InHand(r) <=> InHand(q)
  BY <1>0, <1>2 DEF InHand
<1>5. /\ Typed' /\ Shapes' /\ Balance' /\ StopOrder'
      /\ thread'[t] = r
      /\ \A s \in ThreadIds \ {t} : thread'[s] = thread[s]
  BY <1>0, <1>2, <1>3, <1>4, DescriptorStep
<1>6. SocketHandshake'
  <2>1. SUFFICES ASSUME mode = "uds" PROVE SocketHandshake'
    BY <1>0 DEF SocketHandshake
  <2>2. \A s \in {"worker", "stopper"} :
          thread[s].at \notin {"dropClose", "dropClear", "dropMark"}
    BY <1>1, <2>1, NobodyDisconnects
  <2>3. open \subseteq {client}
    BY <1>1, <2>1 DEF IndInv, SocketHandshake
  <2>4. thread'["acceptor"].at \in {"closeEncoder", "peek", "loop"}
    BY <1>1, <1>2, <1>5, <2>1
  <2>5. \A s \in {"worker", "stopper"} : thread'[s] = thread[s]
    BY <1>1, <1>5, <2>1
  <2> QED
    BY <1>0, <2>2, <2>3, <2>4, <2>5 DEF SocketHandshake
<1> QED
  BY <1>5, <1>6 DEF IndInv

\* AcceptLoop preserves the invariant.
LEMMA AcceptLoopInv ==
  ASSUME IndInv, AcceptLoop
  PROVE  IndInv'
<1> DEFINE q == thread["acceptor"]
<1>0. /\ q.at = "loop" /\ Shape("acceptor", q)
      /\ UNCHANGED <<fixed, client, open, accepted, session, connected, seen, clockVars, mode>>
      /\ GoTo("acceptor", IF acceptStop THEN "exited" ELSE "testConnected")
  BY ThreadSound DEF AcceptLoop, At, clientVars, fixed
<1> DEFINE at == IF acceptStop THEN "exited" ELSE "testConnected"
           r == [q EXCEPT !.at = at]
<1>1. at \in Reach("acceptor") \cap Steps /\ at \in {"exited", "testConnected"}
  BY DEF Reach, Steps, Accepting
<1>2. thread' = [thread EXCEPT !["acceptor"] = r]
  BY <1>0 DEF GoTo, Become
<1> HIDE DEF at
<1>3. q.at \notin Writing /\ at \notin Writing
  BY <1>0, <1>1 DEF Writing, Failing, Dropping
<1>4. /\ r \in Thread /\ Shape("acceptor", r) /\ r.hand <= accepted
      /\ r.at = at /\ r.back = q.back /\ r.clock = q.clock
  BY <1>0, <1>1, <1>3, GoToShape
<1> HIDE DEF r
<1>5. Ordinary("acceptor", r)
  BY <1>0, <1>1, <1>2, <1>4 DEF Ordinary
<1>6. InHand(r) <=> InHand(q)
  BY <1>0, <1>1, <1>4 DEF InHand
<1>7. Moves("acceptor")
  BY <1>4, <1>5, <1>6 DEF Moves
<1> QED
  BY <1>0, <1>7, CallInv DEF IndInv, Typed

-----------------------------------------------------------------------------
(* The worker's loop.                                                      *)

\* Taking frames out keeps the backlog within the capacity.
LEMMA FewerFrames ==
  ASSUME NEW m \in Nat, NEW n \in 0 .. m, m - n <= Capacity, NEW k \in n .. m
  PROVE  k \in 0 .. m /\ m - k <= Capacity
OBVIOUS

\* A step of the worker that takes frames out or counts them.
LEMMA WorkerStep ==
  ASSUME IndInv, NEW r, Ordinary("worker", r), r.hand <= accepted, r.clock <= now,
         UNCHANGED <<now, pushed, seen, session>>, connected' = connected,
         popped' \in popped .. pushed, sent' \in Nat, dropped' \in Nat, base' \in Int,
         InHand(r) => popped' = sent' + dropped' + 1,
         ~InHand(r) => popped' = sent' + dropped'
  PROVE  IndInv'
<1>1. /\ thread' \in [ThreadIds -> Thread]
      /\ thread'["worker"] = r
      /\ \A s \in ThreadIds \ {"worker"} : thread'[s] = thread[s]
      /\ Shapes' /\ SocketHandshake' /\ StopOrder'
  BY OrdinaryStep
<1>2. UNCHANGED <<mode, state, client, open, accepted>>
  BY DEF Ordinary, fixed
<1>3. \A s \in ThreadIds : thread'[s].hand <= accepted
  BY <1>1 DEF IndInv, Typed
<1>4. popped' \in 0 .. pushed /\ pushed - popped' <= Capacity
  <2>1. pushed \in Nat /\ popped \in 0 .. pushed /\ pushed - popped <= Capacity
    BY DEF IndInv, Typed
  <2> QED
    BY <2>1, FewerFrames
<1>5. Typed'
  BY <1>1, <1>2, <1>3, <1>4 DEF IndInv, Typed
<1>6. Balance'
  BY <1>1 DEF Balance, InHand
<1> QED
  BY <1>1, <1>5, <1>6 DEF IndInv

\* The worker's moves between polling, waiting and processing are ordinary.
LEMMA ContinueOrdinary ==
  ASSUME IndInv, NEW step \in {"top", "wait", "process"}, Continue(step),
         thread["worker"].at \in {"peek", "wait"},
         UNCHANGED <<fixed, client, open, accepted, connected, session>>
  PROVE  \E r : /\ Ordinary("worker", r) /\ r.hand <= accepted /\ r.clock <= now
                /\ InHand(r) <=> step = "process"
<1> DEFINE r == [NoThread EXCEPT !.at = step]
<1>1. r.at = step /\ r.back = "none" /\ r.then = "none" /\ r.hand = 0 /\ r.clock = 0
  BY DEF NoThread
<1>2. r \in Thread
  BY DEF NoThread, Thread, Steps
<1>3. thread' = [thread EXCEPT !["worker"] = r]
  BY DEF Continue, Become
<1>4. 0 <= accepted /\ 0 <= now
  BY DEF IndInv, Typed
<1> HIDE DEF r
<1>5. Shape("worker", r)
  BY <1>1 DEF Shape, Reach, Writing, Failing, Dropping
<1>6. Ordinary("worker", r)
  BY <1>1, <1>2, <1>3, <1>5 DEF Ordinary
<1>7. InHand(r) <=> step = "process"
  BY <1>1 DEF InHand
<1> QED
  BY <1>1, <1>4, <1>6, <1>7

\* WorkerTop preserves the invariant.
LEMMA WorkerTopInv ==
  ASSUME IndInv, WorkerTop
  PROVE  IndInv'
<1> DEFINE q == thread["worker"]
<1>0. /\ q.at = "top" /\ q \in Thread /\ Shape("worker", q) /\ q.back = "none"
      /\ UNCHANGED <<fixed, client, open, accepted, session, connected, seen, clockVars>>
      /\ mode \in {"tcp", "uds"} /\ now \in Nat /\ q.hand <= accepted
  BY ThreadSound DEF WorkerTop, At, clientVars, IndInv, Typed, Shape, Writing, Failing, Dropping
<1>1. PICK r \in Thread :
        /\ r.at \in {"exited", "testConnected", "poll"}
        /\ r.at = "testConnected" => mode = "tcp"
        /\ r.at = "poll" => mode = "uds"
        /\ thread' = [thread EXCEPT !["worker"] = r]
        /\ r.back = q.back /\ r.then = q.then /\ r.hand = q.hand
        /\ r.clock <= now
  <2>1. CASE stop
    <3> DEFINE r == [q EXCEPT !.at = "exited"]
    <3>1. /\ r.at = "exited" /\ r.back = q.back /\ r.then = q.then /\ r.hand = q.hand
          /\ r.clock = q.clock
      BY <1>0 DEF Thread
    <3>2. r \in Thread
      BY <1>0 DEF Thread, Steps
    <3>3. thread' = [thread EXCEPT !["worker"] = r] /\ q.clock <= now
      BY <2>1 DEF WorkerTop, GoTo, Become, IndInv, Balance
    <3> HIDE DEF r
    <3> QED
      BY <3>1, <3>2, <3>3
  <2>2. CASE ~stop
    <3> DEFINE at == IF mode = "tcp" THEN "testConnected" ELSE "poll"
               q1 == [q EXCEPT !.at = at]
               r == [q1 EXCEPT !.clock = now]
    <3>1. at \in Steps
      BY DEF Steps, Accepting
    <3>2. thread' = [thread EXCEPT !["worker"] = r]
      BY <2>2 DEF WorkerTop, Become
    <3>3. /\ at = "testConnected" => mode = "tcp"
          /\ at = "poll" => mode = "uds"
          /\ at \in {"exited", "testConnected", "poll"}
      BY <1>0
    <3> HIDE DEF at
    <3>4. /\ r.at = at /\ r.back = q.back /\ r.then = q.then /\ r.hand = q.hand
          /\ r.clock = now
      BY <1>0 DEF Thread
    <3>5. r \in Thread
      <4>1. q1 \in Thread
        BY <1>0, <3>1 DEF Thread
      <4> HIDE DEF q1
      <4> QED
        BY <1>0, <4>1 DEF Thread
    <3> HIDE DEF r
    <3>6. r.clock <= now
      BY <1>0, <3>4
    <3> QED
      BY <3>2, <3>3, <3>4, <3>5, <3>6
  <2> QED
    BY <2>1, <2>2
<1>2. r.at \in Reach("worker")
  BY <1>1 DEF Reach, Accepting
<1>3. Shape("worker", r)
  BY <1>0, <1>1, <1>2 DEF Shape, Writing, Failing, Dropping
<1>4. Ordinary("worker", r)
  BY <1>0, <1>1, <1>3 DEF Ordinary
<1>5. ~InHand(r) /\ ~InHand(q)
  BY <1>0, <1>1 DEF InHand
<1>6. /\ popped = sent + dropped /\ popped \in popped .. pushed
      /\ sent \in Nat /\ dropped \in Nat /\ base \in Int
  BY <1>5 DEF IndInv, Balance, Typed
<1>7. UNCHANGED <<now, pushed, popped, sent, dropped, base>> /\ r.hand <= accepted
  BY <1>0, <1>1 DEF clockVars
<1> QED
  BY <1>0, <1>1, <1>4, <1>5, <1>6, <1>7, WorkerStep

\* PollClient preserves the invariant.
LEMMA PollClientInv ==
  ASSUME IndInv, PollClient
  PROVE  IndInv'
<1> DEFINE q == thread["worker"]
<1>0. /\ q.at = "poll" /\ q \in Thread /\ Shape("worker", q) /\ q.back = "none"
      /\ UNCHANGED <<fixed, client, open, accepted, session, connected, clockVars>>
      /\ seen' = connected
  BY ThreadSound DEF PollClient, At, Shape, Writing, Failing, Dropping
<1>1. PICK r : /\ r \in Thread /\ Shape("worker", r) /\ r.hand <= accepted
               /\ r.at \in {"peek", "closeEncoder"}
               /\ r.back = "none" /\ r.clock = q.clock
               /\ thread' = [thread EXCEPT !["worker"] = r]
  <2>1. CASE GoTo("worker", "peek")
    <3> DEFINE r == [q EXCEPT !.at = "peek"]
    <3>1. /\ "peek" \in Reach("worker") \cap Steps
          /\ "peek" \notin Writing /\ q.at \notin Writing
      BY <1>0 DEF Reach, Steps, Writing, Failing, Dropping
    <3>2. /\ r \in Thread /\ Shape("worker", r) /\ r.hand <= accepted /\ r.at = "peek"
          /\ r.back = q.back /\ r.clock = q.clock
      BY <1>0, <3>1, GoToShape
    <3>3. thread' = [thread EXCEPT !["worker"] = r]
      BY <2>1 DEF GoTo, Become
    <3> HIDE DEF r
    <3> QED
      BY <1>0, <3>2, <3>3
  <2>2. ASSUME NEW then \in {"openEncoder", "resume"}, CloseEncoder("worker", then)
        PROVE  \E r : /\ r \in Thread /\ Shape("worker", r) /\ r.hand <= accepted
                      /\ r.at \in {"peek", "closeEncoder"}
                      /\ r.back = "none" /\ r.clock = q.clock
                      /\ thread' = [thread EXCEPT !["worker"] = r]
    <3> DEFINE r == [q EXCEPT !.at = "closeEncoder", !.then = then]
    <3>1. "closeEncoder" \in Reach("worker") /\ q.at \notin Writing
      BY <1>0 DEF Reach, Encoding, Writing, Failing, Dropping
    <3>2. /\ r \in Thread /\ Shape("worker", r) /\ r.hand <= accepted /\ r.at = "closeEncoder"
          /\ r.back = "none" /\ r.clock = q.clock
      BY <2>2, <3>1, CloseEncoderShape
    <3>3. thread' = [thread EXCEPT !["worker"] = r]
      BY <2>2 DEF CloseEncoder, Become
    <3> HIDE DEF r
    <3> QED
      BY <3>2, <3>3
  <2> QED
    BY <2>1, <2>2 DEF PollClient
<1>2. Ordinary("worker", r)
  BY <1>0, <1>1 DEF Ordinary
<1>3. InHand(r) <=> InHand(q)
  BY <1>0, <1>1 DEF InHand
<1>4. Moves("worker")
  BY <1>1, <1>2, <1>3 DEF Moves
<1> QED
  BY <1>0, <1>4, CallInv DEF IndInv, Typed

\* What is done with the frame at the head of the ring.
LEMMA PeekInv ==
  ASSUME IndInv,
         \/ HandleBufferUnderflow \/ DropLateFrame \/ WaitForFrame \/ EmitFrame
  PROVE  IndInv'
<1>0. /\ thread["worker"].at = "peek" /\ Shape("worker", thread["worker"])
      /\ UNCHANGED <<fixed, now, pushed, client, connected, seen, open, accepted, session>>
  BY ThreadSound DEF HandleBufferUnderflow, DropLateFrame, WaitForFrame, EmitFrame, PeekFrame,
                     At, clientVars
<1>1. ~InHand(thread["worker"]) /\ thread["worker"].clock \in Nat
  BY <1>0, ThreadSound DEF InHand, Shape, Writing, Failing, Dropping, Thread
<1>2. /\ popped = sent + dropped /\ popped \in Nat /\ sent \in Nat /\ dropped \in Nat
      /\ pushed \in Nat /\ popped <= pushed /\ base \in Int
  BY <1>1 DEF IndInv, Balance, Typed
<1>3. CASE HandleBufferUnderflow \/ WaitForFrame
  <2>1. /\ Continue("top") \/ Continue("wait")
        /\ UNCHANGED <<popped, sent, dropped, base>>
    BY <1>3 DEF HandleBufferUnderflow, WaitForFrame
  <2>2. PICK r : /\ Ordinary("worker", r) /\ r.hand <= accepted /\ r.clock <= now
                 /\ ~InHand(r)
    <3>1. CASE Continue("top")
      BY <1>0, <3>1, ContinueOrdinary
    <3>2. CASE Continue("wait")
      BY <1>0, <3>2, ContinueOrdinary
    <3> QED
      BY <2>1, <3>1, <3>2
  <2>3. popped \in popped .. pushed
    BY <1>2
  <2> QED
    BY <1>0, <1>2, <2>1, <2>2, <2>3, WorkerStep
<1>4. CASE DropLateFrame
  <2>1. /\ Continue("top") /\ popped' = popped + 1 /\ dropped' = dropped + 1
        /\ popped < pushed /\ UNCHANGED <<sent, base>>
    BY <1>4 DEF DropLateFrame
  <2>2. PICK r : /\ Ordinary("worker", r) /\ r.hand <= accepted /\ r.clock <= now
                 /\ ~InHand(r)
    BY <1>0, <2>1, ContinueOrdinary
  <2> QED
    BY <1>0, <1>2, <2>1, <2>2, WorkerStep
<1>5. CASE EmitFrame
  <2>1. /\ Continue("process") /\ popped' = popped + 1 /\ dropped' = dropped
        /\ popped < pushed /\ sent' = sent
    BY <1>5 DEF EmitFrame
  <2>2. base' \in Int
    BY <1>1, <1>2, <1>5 DEF EmitFrame, Age
  <2>3. PICK r : /\ Ordinary("worker", r) /\ r.hand <= accepted /\ r.clock <= now
                 /\ InHand(r)
    BY <1>0, <2>1, ContinueOrdinary
  <2> QED
    BY <1>0, <1>2, <2>1, <2>2, <2>3, WorkerStep
<1> QED
  BY <1>3, <1>4, <1>5

\* EndOfWait preserves the invariant.
LEMMA EndOfWaitInv ==
  ASSUME IndInv, EndOfWait
  PROVE  IndInv'
<1>0. /\ thread["worker"].at = "wait" /\ Shape("worker", thread["worker"]) /\ Continue("top")
      /\ UNCHANGED <<fixed, client, connected, seen, open, accepted, session, clockVars>>
  BY ThreadSound DEF EndOfWait, At, clientVars
<1>1. ~InHand(thread["worker"])
  BY <1>0 DEF InHand, Shape, Writing, Failing, Dropping
<1>2. PICK r : /\ Ordinary("worker", r) /\ r.hand <= accepted /\ r.clock <= now
               /\ ~InHand(r)
  BY <1>0, ContinueOrdinary
<1> QED
  BY <1>0, <1>1, <1>2, WorkerStep DEF IndInv, Balance, Typed, clockVars

\* ProcessFrame preserves the invariant.
LEMMA ProcessFrameInv ==
  ASSUME IndInv, ProcessFrame
  PROVE  IndInv'
<1> DEFINE q == thread["worker"]
<1>0. /\ q.at = "process" /\ q \in Thread /\ Shape("worker", q) /\ q.hand <= accepted
      /\ q.then = "none" /\ q.back = "none"
      /\ UNCHANGED <<fixed, client, connected, seen, open, accepted, session, clockVars>>
  BY ThreadSound DEF ProcessFrame, At, clientVars, Shape, IndInv, Typed, Writing, Failing, Dropping
<1>1. Moves("worker")
  <2>1. CASE Become("worker", [q EXCEPT !.at = "write", !.back = "count"])
    <3> DEFINE r == [q EXCEPT !.at = "write", !.back = "count"]
    <3>1. /\ r.at = "write" /\ r.back = "count" /\ r.then = q.then /\ r.hand = q.hand
          /\ r.clock = q.clock
      BY <1>0 DEF Thread
    <3>2. r \in Thread
      BY <1>0 DEF Thread, Steps, Encoding
    <3>3. thread' = [thread EXCEPT !["worker"] = r]
      BY <2>1 DEF Become
    <3> HIDE DEF r
    <3>4. Shape("worker", r)
      BY <1>0, <3>1 DEF Shape, Reach, Encoding, Writing
    <3>5. Ordinary("worker", r)
      BY <1>0, <3>1, <3>2, <3>3, <3>4 DEF Ordinary
    <3>6. InHand(r) <=> InHand(q)
      BY <1>0, <3>1 DEF InHand
    <3> QED
      BY <1>0, <3>1, <3>5, <3>6 DEF Moves
  <2>2. CASE GoTo("worker", "count")
    <3> DEFINE r == [q EXCEPT !.at = "count"]
    <3>1. /\ "count" \in Reach("worker") \cap Steps
          /\ "count" \notin Writing /\ q.at \notin Writing
      BY <1>0 DEF Reach, Steps, Writing, Failing, Dropping
    <3>2. /\ r \in Thread /\ Shape("worker", r) /\ r.hand <= accepted /\ r.at = "count"
          /\ r.back = q.back /\ r.clock = q.clock
      BY <1>0, <3>1, GoToShape
    <3>3. thread' = [thread EXCEPT !["worker"] = r]
      BY <2>2 DEF GoTo, Become
    <3> HIDE DEF r
    <3>4. Ordinary("worker", r)
      BY <1>0, <3>2, <3>3 DEF Ordinary
    <3>5. InHand(r) <=> InHand(q)
      BY <1>0, <3>2 DEF InHand
    <3> QED
      BY <3>2, <3>4, <3>5 DEF Moves
  <2> QED
    BY <2>1, <2>2 DEF ProcessFrame
<1> QED
  BY <1>0, <1>1, CallInv DEF IndInv, Typed

\* CountFrame preserves the invariant.
LEMMA CountFrameInv ==
  ASSUME IndInv, CountFrame
  PROVE  IndInv'
<1> DEFINE q == thread["worker"]
           r == [q EXCEPT !.at = "top"]
<1>0. /\ q.at = "count" /\ q \in Thread /\ Shape("worker", q) /\ q.back = "none"
      /\ UNCHANGED <<fixed, client, connected, seen, open, accepted, session>>
      /\ UNCHANGED <<now, pushed, popped, dropped, base>> /\ sent' = sent + 1
      /\ thread' = [thread EXCEPT !["worker"] = r]
  BY ThreadSound DEF CountFrame, At, clientVars, GoTo, Become, Shape, Writing, Failing, Dropping
<1>1. /\ "top" \in Reach("worker") \cap Steps
      /\ "top" \notin Writing /\ q.at \notin Writing
  BY <1>0 DEF Reach, Steps, Writing, Failing, Dropping
<1>2. /\ r \in Thread /\ Shape("worker", r) /\ r.hand <= accepted /\ r.at = "top"
      /\ r.back = q.back /\ r.clock = q.clock
  BY <1>0, <1>1, GoToShape
<1> HIDE DEF r
<1>3. Ordinary("worker", r)
  BY <1>0, <1>2 DEF Ordinary
<1>4. ~InHand(r) /\ InHand(q)
  BY <1>0, <1>2 DEF InHand
<1>5. q.clock <= now
  BY DEF IndInv, Balance
<1>6. /\ popped = sent + dropped + 1 /\ sent \in Nat /\ dropped \in Nat
      /\ popped \in popped .. pushed /\ base \in Int
  BY <1>4 DEF IndInv, Balance, Typed
<1> QED
  BY <1>0, <1>2, <1>3, <1>4, <1>5, <1>6, WorkerStep

-----------------------------------------------------------------------------
(* start and stop.                                                         *)

\* Start preserves the invariant.
LEMMA StartInv ==
  ASSUME IndInv, Start
  PROVE  IndInv'
<1>0. /\ state = "Idle" /\ state' \in {"Running", "Error"} /\ mode' = mode
      /\ UNCHANGED <<now, pushed, popped, sent, dropped, base>>
      /\ UNCHANGED <<client, connected, seen, open, accepted, session>>
  BY DEF Start, InitializeSocket, InitializeUdsSink, clockVars, clientVars
<1>1. \A t \in ThreadIds :
        thread[t].at = "none" /\ thread[t].back = "none" /\ thread[t].then = "none"
  BY <1>0, ThreadSound DEF IndInv, StopOrder, NothingStarted, Shape, Writing, Failing, Dropping
<1>2. CASE thread' = thread
  BY <1>0, <1>1, <1>2 DEF IndInv, Typed, Shapes, Shape, Reach, Writing, Balance, InHand,
       SocketHandshake, StopOrder, NothingStarted, WorkerJoined, AcceptorJoined, SessionEnded,
       StopEnded
<1>3. CASE /\ thread' = [thread EXCEPT !["worker"].at = "top", !["acceptor"].at = "loop"]
           /\ state' = "Running"
  <2> DEFINE w == [thread["worker"] EXCEPT !.at = "top"]
             a == [thread["acceptor"] EXCEPT !.at = "loop"]
  <2>1. /\ w \in Thread /\ a \in Thread
        /\ w.at = "top" /\ w.back = "none" /\ w.then = "none"
        /\ w.hand = thread["worker"].hand /\ w.clock = thread["worker"].clock
        /\ a.at = "loop" /\ a.back = "none" /\ a.then = "none"
        /\ a.hand = thread["acceptor"].hand
    BY <1>1, ThreadSound DEF Thread, Steps
  <2>2. /\ thread' \in [ThreadIds -> Thread]
        /\ thread'["worker"] = w /\ thread'["acceptor"] = a
        /\ thread'["stopper"] = thread["stopper"]
    BY <1>3, <2>1 DEF IndInv, Typed
  <2> HIDE DEF w, a
  <2>3. \A t \in ThreadIds : thread'[t].hand <= accepted
    BY <2>1, <2>2 DEF IndInv, Typed
  <2>4. Typed'
    BY <1>0, <2>2, <2>3 DEF IndInv, Typed
  <2>5. Shape("worker", w) /\ Shape("acceptor", a) /\ Shape("stopper", thread["stopper"])
    BY <2>1, ThreadSound DEF Shape, Reach, Writing, Failing, Dropping
  <2>6. \A t \in ThreadIds : Shape(t, thread'[t])
    BY <2>2, <2>5
  <2>7. Shapes'
    BY <1>0, <2>6 DEF Shapes, Shape, Reach, Writing
  <2>8. Balance'
    BY <1>0, <1>1, <2>1, <2>2 DEF IndInv, Balance, InHand
  <2>9. SocketHandshake'
    BY <1>0, <1>1, <2>1, <2>2 DEF IndInv, SocketHandshake
  <2>10. StopOrder'
    BY <1>0, <1>1, <1>3, <2>2 DEF IndInv, StopOrder, NothingStarted, WorkerJoined, AcceptorJoined,
         SessionEnded, StopEnded
  <2> QED
    BY <2>4, <2>7, <2>8, <2>9, <2>10 DEF IndInv
<1> QED
  BY <1>0, <1>2, <1>3 DEF Start

\* A step of stop() itself, which is not in a call.
LEMMA StopperStep ==
  ASSUME IndInv, NEW r \in Thread, Shape("stopper", r), r.hand <= accepted,
         thread' = [thread EXCEPT !["stopper"] = r],
         UNCHANGED <<mode, clockVars, accepted, session, seen>>,
         state' \in {"Running", "Stopped"},
         r.at \notin Dropping,
         \/ UNCHANGED <<client, open, connected>>
         \/ client' = 0 /\ open' = open \ {client} /\ connected' = FALSE
            /\ thread["worker"].at = "exited" /\ thread["acceptor"].at = "exited",
         thread["stopper"].at \in {"none", "joinWorker"} => r.at \in {"none", "joinWorker"}
                                                         \/ thread["worker"].at = "exited",
         r.at \in {"null", "cleanup", "done"} \/ (mode = "uds" /\ r.at = "joinAcceptor")
           => session = Closed,
         state' = "Stopped" <=> r.at = "done",
         r.at = "done" => connected' = FALSE,
         r.at = "done" /\ mode = "uds" => open' = {},
         r.at \in {"cleanup", "done"} => thread["acceptor"].at = "exited",
         mode = "tcp" /\ r.at \notin {"none", "joinWorker", "joinAcceptor"}
           => thread["acceptor"].at = "exited"
  PROVE  IndInv'
<1>0. UNCHANGED <<mode, accepted, session, seen, now, pushed, popped, sent, dropped, base>>
  BY DEF clockVars
<1>1. /\ thread' \in [ThreadIds -> Thread]
      /\ thread'["stopper"] = r
      /\ thread'["worker"] = thread["worker"] /\ thread'["acceptor"] = thread["acceptor"]
      /\ Shapes'
  BY <1>0, ThreadsMoved
<1>2. \A t \in ThreadIds : thread'[t].hand <= accepted
  BY <1>1 DEF IndInv, Typed
<1>3. client' \in 0 .. accepted /\ open' \subseteq 1 .. accepted /\ connected' \in BOOLEAN
  BY DescriptorsTyped
<1>4. Typed'
  BY <1>0, <1>1, <1>2, <1>3 DEF IndInv, Typed
<1>5. Balance'
  BY <1>0, <1>1 DEF IndInv, Balance, InHand
<1>6. SocketHandshake'
  <2>1. CASE UNCHANGED <<client, open, connected>>
    BY <1>0, <1>1, <2>1 DEF IndInv, SocketHandshake, Dropping
  <2>2. CASE client' = 0 /\ open' = open \ {client} /\ connected' = FALSE
             /\ thread["worker"].at = "exited" /\ thread["acceptor"].at = "exited"
    <3>1. 0 \notin open
      BY DescriptorsTyped
    <3>2. mode = "uds" => open \subseteq {client}
      BY <2>2 DEF IndInv, SocketHandshake
    <3>3. 0 \notin open' /\ (mode = "uds" => open' = {})
      BY <2>2, <3>1, <3>2
    <3> QED
      BY <1>0, <1>1, <2>2, <3>3 DEF SocketHandshake, Dropping
  <2> QED
    BY <2>1, <2>2
<1>7. StopOrder'
  <2>1. NothingStarted' /\ StopEnded'
    BY <1>0, <1>1 DEF NothingStarted, StopEnded
  <2>2. WorkerJoined'
    BY <1>1 DEF IndInv, StopOrder, WorkerJoined
  <2>3. AcceptorJoined' /\ SessionEnded'
    BY <1>0, <1>1 DEF AcceptorJoined, SessionEnded
  <2> QED
    BY <2>1, <2>2, <2>3 DEF StopOrder
<1> QED
  BY <1>1, <1>4, <1>5, <1>6, <1>7 DEF IndInv

\* The stopping thread moves on to a sound record.
LEMMA StopperGoes ==
  ASSUME IndInv, NEW at \in {"joinWorker", "joinAcceptor", "null", "cleanup", "done"},
         GoTo("stopper", at),
         thread["stopper"].at \in {"none", "joinWorker", "joinAcceptor", "null", "cleanup"}
  PROVE  \E r \in Thread : /\ Shape("stopper", r) /\ r.hand <= accepted /\ r.at = at
                           /\ thread' = [thread EXCEPT !["stopper"] = r]
<1> DEFINE r == [thread["stopper"] EXCEPT !.at = at]
<1>1. /\ at \in Reach("stopper") \cap Steps
      /\ at \notin Writing /\ thread["stopper"].at \notin Writing
  BY DEF Reach, Steps, Writing, Failing, Dropping
<1>2. r \in Thread /\ Shape("stopper", r) /\ r.hand <= accepted /\ r.at = at
  BY <1>1, GoToShape
<1>3. thread' = [thread EXCEPT !["stopper"] = r]
  BY DEF GoTo, Become
<1> HIDE DEF r
<1> QED
  BY <1>2, <1>3

\* The stopping thread enters the closing of the encoder with a sound record.
LEMMA StopperCloses ==
  ASSUME IndInv, CloseEncoder("stopper", "null"),
         thread["stopper"].at \in {"joinWorker", "joinAcceptor"}
  PROVE  \E r \in Thread : /\ Shape("stopper", r) /\ r.hand <= accepted /\ r.at = "closeEncoder"
                           /\ thread' = [thread EXCEPT !["stopper"] = r]
<1> DEFINE r == [thread["stopper"] EXCEPT !.at = "closeEncoder", !.then = "null"]
<1>1. "closeEncoder" \in Reach("stopper") /\ thread["stopper"].at \notin Writing
  BY DEF Reach, Encoding, Writing, Failing, Dropping
<1>2. r \in Thread /\ Shape("stopper", r) /\ r.hand <= accepted /\ r.at = "closeEncoder"
  BY <1>1, CloseEncoderShape
<1>3. thread' = [thread EXCEPT !["stopper"] = r]
  BY DEF CloseEncoder, Become
<1> HIDE DEF r
<1> QED
  BY <1>2, <1>3

\* While stop() is at work the sink still counts as running.
LEMMA StillRunning ==
  ASSUME IndInv, thread["stopper"].at \in {"joinWorker", "joinAcceptor", "null", "cleanup"}
  PROVE  state = "Running"
BY DEF IndInv, Typed, StopOrder, NothingStarted, StopEnded

\* Stop preserves the invariant.
LEMMA StopInv ==
  ASSUME IndInv, Stop
  PROVE  IndInv'
<1>0. /\ state = "Running" /\ state' = state /\ thread["stopper"].at = "none"
      /\ GoTo("stopper", "joinWorker")
      /\ UNCHANGED <<mode, client, connected, seen, open, accepted, session, clockVars>>
  BY DEF Stop, At, clientVars
<1>1. PICK r \in Thread : /\ Shape("stopper", r) /\ r.hand <= accepted /\ r.at = "joinWorker"
                          /\ thread' = [thread EXCEPT !["stopper"] = r]
  BY <1>0, StopperGoes
<1> QED
  BY <1>0, <1>1, StopperStep DEF Dropping

\* JoinWorker preserves the invariant.
LEMMA JoinWorkerInv ==
  ASSUME IndInv, JoinWorker
  PROVE  IndInv'
<1>0. /\ thread["stopper"].at = "joinWorker" /\ thread["worker"].at = "exited"
      /\ IF mode = "tcp" THEN GoTo("stopper", "joinAcceptor") ELSE CloseEncoder("stopper", "null")
      /\ UNCHANGED <<mode, state, client, connected, seen, open, accepted, session, clockVars>>
      /\ state = "Running" /\ mode \in {"tcp", "uds"}
  BY StillRunning DEF JoinWorker, At, clientVars, fixed, IndInv, Typed
<1>1. CASE mode = "tcp"
  <2>1. PICK r \in Thread : /\ Shape("stopper", r) /\ r.hand <= accepted /\ r.at = "joinAcceptor"
                            /\ thread' = [thread EXCEPT !["stopper"] = r]
    BY <1>0, <1>1, StopperGoes
  <2> QED
    BY <1>0, <1>1, <2>1, StopperStep DEF Dropping
<1>2. CASE mode = "uds"
  <2>1. PICK r \in Thread : /\ Shape("stopper", r) /\ r.hand <= accepted /\ r.at = "closeEncoder"
                            /\ thread' = [thread EXCEPT !["stopper"] = r]
    BY <1>0, <1>2, StopperCloses
  <2> QED
    BY <1>0, <1>2, <2>1, StopperStep DEF Dropping
<1> QED
  BY <1>0, <1>1, <1>2

\* JoinAcceptor preserves the invariant.
LEMMA JoinAcceptorInv ==
  ASSUME IndInv, JoinAcceptor
  PROVE  IndInv'
<1>0. /\ thread["stopper"].at = "joinAcceptor" /\ thread["acceptor"].at = "exited"
      /\ IF mode = "tcp" THEN CloseEncoder("stopper", "null") ELSE GoTo("stopper", "cleanup")
      /\ UNCHANGED <<mode, state, client, connected, seen, open, accepted, session, clockVars>>
      /\ state = "Running" /\ mode \in {"tcp", "uds"}
  BY StillRunning DEF JoinAcceptor, At, clientVars, fixed, IndInv, Typed
<1>1. CASE mode = "tcp"
  <2>1. PICK r \in Thread : /\ Shape("stopper", r) /\ r.hand <= accepted /\ r.at = "closeEncoder"
                            /\ thread' = [thread EXCEPT !["stopper"] = r]
    BY <1>0, <1>1, StopperCloses
  <2> QED
    BY <1>0, <1>1, <2>1, StopperStep DEF Dropping
<1>2. CASE mode = "uds"
  <2>1. PICK r \in Thread : /\ Shape("stopper", r) /\ r.hand <= accepted /\ r.at = "cleanup"
                            /\ thread' = [thread EXCEPT !["stopper"] = r]
    BY <1>0, <1>2, StopperGoes
  <2>2. session = Closed
    BY <1>0, <1>2 DEF IndInv, StopOrder, SessionEnded
  <2> QED
    BY <1>0, <1>2, <2>1, <2>2, StopperStep DEF Dropping
<1> QED
  BY <1>0, <1>1, <1>2

\* NullPacket preserves the invariant.
LEMMA NullPacketInv ==
  ASSUME IndInv, NullPacket
  PROVE  IndInv'
<1>0. /\ thread["stopper"].at = "null"
      /\ GoTo("stopper", IF mode = "tcp" THEN "cleanup" ELSE "joinAcceptor")
      /\ UNCHANGED <<mode, state, client, connected, seen, open, accepted, session, clockVars>>
      /\ state = "Running" /\ mode \in {"tcp", "uds"}
  BY StillRunning DEF NullPacket, At, clientVars, IndInv, Typed
<1>1. session = Closed /\ (mode = "tcp" => thread["acceptor"].at = "exited")
  BY <1>0 DEF IndInv, StopOrder, SessionEnded, AcceptorJoined
<1>2. CASE mode = "tcp"
  <2>1. PICK r \in Thread : /\ Shape("stopper", r) /\ r.hand <= accepted /\ r.at = "cleanup"
                            /\ thread' = [thread EXCEPT !["stopper"] = r]
    BY <1>0, <1>2, StopperGoes
  <2> QED
    BY <1>0, <1>1, <1>2, <2>1, StopperStep DEF Dropping
<1>3. CASE mode = "uds"
  <2>1. PICK r \in Thread : /\ Shape("stopper", r) /\ r.hand <= accepted /\ r.at = "joinAcceptor"
                            /\ thread' = [thread EXCEPT !["stopper"] = r]
    BY <1>0, <1>3, StopperGoes
  <2> QED
    BY <1>0, <1>1, <1>3, <2>1, StopperStep DEF Dropping
<1> QED
  BY <1>0, <1>2, <1>3

\* CleanupSocket preserves the invariant.
LEMMA CleanupSocketInv ==
  ASSUME IndInv, CleanupSocket
  PROVE  IndInv'
<1>0. /\ thread["stopper"].at = "cleanup"
      /\ GoTo("stopper", "done") /\ state' = "Stopped"
      /\ open' = open \ {client} /\ client' = 0 /\ connected' = FALSE
      /\ UNCHANGED <<mode, seen, accepted, session, clockVars>>
  BY DEF CleanupSocket, At
<1>1. PICK r \in Thread : /\ Shape("stopper", r) /\ r.hand <= accepted /\ r.at = "done"
                          /\ thread' = [thread EXCEPT !["stopper"] = r]
  BY <1>0, StopperGoes
<1>2. /\ session = Closed
      /\ thread["acceptor"].at = "exited" /\ thread["worker"].at = "exited"
  BY <1>0 DEF IndInv, StopOrder, SessionEnded, AcceptorJoined, WorkerJoined
<1>3. mode = "uds" => open' = {}
  BY <1>0, <1>2 DEF IndInv, SocketHandshake
<1> QED
  BY <1>0, <1>1, <1>2, <1>3, StopperStep DEF Dropping

-----------------------------------------------------------------------------
(* The whole system.                                                       *)

\* Push preserves the invariant.
LEMMA PushInv ==
  ASSUME IndInv, Push
  PROVE  IndInv'
<1>0. /\ pushed' = pushed + 1 /\ pushed < MaxFrames /\ pushed - popped < Capacity
      /\ UNCHANGED <<mode, state, thread, now, popped, sent, dropped, base>>
      /\ UNCHANGED <<client, connected, seen, open, accepted, session>>
  BY DEF Push, fixed, clientVars
<1>1. /\ pushed' \in 0 .. MaxFrames /\ popped \in 0 .. pushed' /\ pushed' - popped <= Capacity
  BY <1>0 DEF IndInv, Typed
<1>2. Typed'
  BY <1>0, <1>1 DEF IndInv, Typed
<1>3. Shapes' /\ Balance' /\ SocketHandshake' /\ StopOrder'
  BY <1>0 DEF IndInv, Shapes, Shape, Reach, Writing, Balance, InHand, SocketHandshake, StopOrder,
       NothingStarted, WorkerJoined, AcceptorJoined, SessionEnded, StopEnded
<1> QED
  BY <1>2, <1>3 DEF IndInv

\* Tick preserves the invariant.
LEMMA TickInv ==
  ASSUME IndInv, Tick
  PROVE  IndInv'
<1>0. /\ now' = now + 1 /\ (now < Horizon - (MaxFrames - 1) \/ now < Horizon)
      /\ UNCHANGED <<mode, state, thread, pushed, popped, sent, dropped, base>>
      /\ UNCHANGED <<client, connected, seen, open, accepted, session>>
  BY DEF Tick, fixed, clientVars
<1>1. now' \in 0 .. Horizon /\ now <= now'
  BY <1>0 DEF IndInv, Typed
<1>2. Typed'
  BY <1>0, <1>1 DEF IndInv, Typed
<1>3. thread["worker"].clock <= now'
  BY <1>0, <1>1, ThreadSound DEF IndInv, Balance, Typed, Thread
<1>4. Shapes' /\ Balance' /\ SocketHandshake' /\ StopOrder'
  BY <1>0, <1>3 DEF IndInv, Shapes, Shape, Reach, Writing, Balance, InHand, SocketHandshake,
       StopOrder, NothingStarted, WorkerJoined, AcceptorJoined, SessionEnded, StopEnded
<1> QED
  BY <1>2, <1>4 DEF IndInv

\* A stuttering step preserves the invariant.
LEMMA StutterInv ==
  ASSUME IndInv, UNCHANGED vars
  PROVE  IndInv'
<1>0. /\ UNCHANGED <<mode, state, thread, now, pushed, popped, sent, dropped, base>>
      /\ UNCHANGED <<client, connected, seen, open, accepted, session>>
  BY DEF vars, clockVars, clientVars
<1> QED
  BY <1>0 DEF IndInv, Typed, Shapes, Shape, Reach, Writing, Balance, InHand, SocketHandshake,
       StopOrder, NothingStarted, WorkerJoined, AcceptorJoined, SessionEnded, StopEnded

\* The invariant holds initially.
LEMMA InitInv == Init => IndInv
<1> SUFFICES ASSUME Init PROVE IndInv
  OBVIOUS
<1>0. NoThread \in Thread /\ NoThread.at = "none" /\ NoThread.back = "none"
      /\ NoThread.then = "none" /\ NoThread.hand = 0 /\ NoThread.clock = 0
  BY DEF NoThread, Thread, Steps
<1>1. \A t \in ThreadIds : thread[t] = NoThread
  BY DEF Init
<1>2. Typed
  <2>1. thread \in [ThreadIds -> Thread] /\ \A t \in ThreadIds : thread[t].hand <= accepted
    BY <1>0, <1>1 DEF Init
  <2>2. accepted = 0 /\ client = 0 /\ open = {} /\ session = -1 /\ base = -1
    BY DEF Init
  <2>3. Clients \in Nat /\ Capacity \in Nat /\ MaxFrames \in Nat /\ Horizon \in Nat
    OBVIOUS
  <2>4. /\ accepted \in 0 .. Clients /\ client \in 0 .. accepted /\ open \subseteq 1 .. accepted
        /\ session \in Closed .. accepted /\ base \in Int
    BY <2>2, <2>3
  <2>5. /\ mode \in {"tcp", "uds"} /\ state = "Idle" /\ now = 0
        /\ pushed = 0 /\ popped = 0 /\ sent = 0 /\ dropped = 0
        /\ connected = FALSE /\ seen = FALSE
    BY DEF Init
  <2>6. /\ now \in 0 .. Horizon /\ pushed \in 0 .. MaxFrames /\ popped \in 0 .. pushed
        /\ pushed - popped <= Capacity
    BY <2>3, <2>5
  <2> QED
    BY <2>1, <2>4, <2>5, <2>6 DEF Typed
<1>3. Shapes
  BY <1>0, <1>1 DEF Shapes, Shape, Reach, Writing, Failing, Dropping
<1>4. Balance /\ SocketHandshake
  BY <1>0, <1>1 DEF Init, Balance, InHand, SocketHandshake
<1>5. StopOrder
  BY <1>0, <1>1 DEF Init, StopOrder, NothingStarted, WorkerJoined, AcceptorJoined, SessionEnded,
       StopEnded
<1> QED
  BY <1>2, <1>3, <1>4, <1>5 DEF IndInv

\* Every step preserves the invariant.
LEMMA StepInv == IndInv /\ [Next]_vars => IndInv'
<1> SUFFICES ASSUME IndInv, [Next]_vars PROVE IndInv'
  OBVIOUS
<1>1. ASSUME NEW t \in ThreadIds, Call(t) PROVE IndInv'
  BY <1>1, BeginWriteInv, ReadClientInv, SendInv, FailWriteInv, DropClientInv, FlushEncoderInv,
     EncoderClosedInv, OpenEncoderInv, TestConnectedInv, AcceptInv, StoreInv, AnnounceInv
     DEF Call, StoreClient, At
<1>2. CASE Worker
  BY <1>2, WorkerTopInv, PollClientInv, PeekInv, EndOfWaitInv, ProcessFrameInv, CountFrameInv
     DEF Worker
<1>3. CASE Stopper
  BY <1>3, JoinWorkerInv, JoinAcceptorInv, NullPacketInv, CleanupSocketInv DEF Stopper
<1> QED
  BY <1>1, <1>2, <1>3, AcceptLoopInv, StartInv, StopInv, PushInv, TickInv, StutterInv DEF Next

\* The invariant holds in every state of the sink, for every mode, number of frames and of
\* clients and every capacity of the frame queue.
THEOREM IndInvHolds == Spec => []IndInv
BY InitInv, StepInv, PTL DEF Spec

-----------------------------------------------------------------------------

\* Threads, counters and descriptors stay in their domains, for any number of frames
\* and clients.
THEOREM TypeCorrect == Spec => []TypeOK
<1>1. IndInv => TypeOK
  <2> SUFFICES ASSUME IndInv PROVE TypeOK
    OBVIOUS
  <2>1. ASSUME NEW t \in ThreadIds
        PROVE  thread[t].at \in Places[t] /\ thread[t].hand \in 0 .. accepted
    <3>1. thread[t].at \in Reach(t) /\ mode \in {"tcp", "uds"}
      BY ThreadSound DEF Shape, IndInv, Typed
    <3>2. Reach(t) \subseteq Places[t]
      <4>1. CASE t = "worker"
        BY <4>1 DEF Reach, Places, Busy, Encoding, Failing, Dropping, Accepting
      <4>2. CASE t = "acceptor"
        BY <4>2 DEF Reach, Places, Busy, Encoding, Failing, Dropping, Accepting
      <4>3. CASE t = "stopper"
        BY <4>3 DEF Reach, Places, Busy, Encoding, Failing, Dropping
      <4> QED
        BY <4>1, <4>2, <4>3
    <3>3. thread[t].hand \in 0 .. accepted
      BY ThreadSound DEF Thread, IndInv, Typed
    <3> QED
      BY <3>1, <3>2, <3>3
  <2> QED
    BY <2>1 DEF TypeOK, IndInv, Typed
<1> QED
  BY <1>1, IndInvHolds, PTL

\* Every frame that left the ring is in the worker's hand or counted once, whatever
\* clients come, fail and go meanwhile.
THEOREM FramesCounted == Spec => []FramesAccounted
<1>1. IndInv => FramesAccounted
  BY DEF IndInv, Balance, InHand, FramesAccounted
<1> QED
  BY <1>1, IndInvHolds, PTL

\* On a Unix socket the order of handleClientDisconnect and tryAcceptClient is enough
\* to keep every descriptor, without a lock.
THEOREM DescriptorsKept == Spec => []SocketKeepsDescriptors
<1>1. IndInv => SocketKeepsDescriptors
  BY DEF IndInv, SocketHandshake, SocketKeepsDescriptors, At
<1> QED
  BY <1>1, IndInvHolds, PTL

\* stop() leaves no thread, no session and, on a Unix socket, no descriptor behind.
THEOREM StopReleasesAll == Spec => []StopReleases
<1>1. IndInv => StopReleases
  BY DEF IndInv, StopOrder, StopEnded, WorkerJoined, AcceptorJoined, SessionEnded, StopReleases, At
<1> QED
  BY <1>1, IndInvHolds, PTL

-----------------------------------------------------------------------------

\* A call of some thread is a step of this thread only, and not of the worker's loop.
LEMMA CallMoves ==
  ASSUME NEW t \in ThreadIds, Call(t)
  PROVE  thread[t].at # "peek" /\ \E r : thread' = [thread EXCEPT ![t] = r]
<1>1. CASE BeginWrite(t) \/ ReadClient(t) \/ Send(t)
  BY <1>1 DEF BeginWrite, ReadClient, Send, At, GoTo, Return, Become
<1>2. CASE FailWrite(t) \/ DropClient(t)
  BY <1>2 DEF FailWrite, DropClient, At, GoTo, Return, Resume, CloseEncoder, Become
<1>3. CASE FlushEncoder(t) \/ EncoderClosed(t) \/ OpenEncoder(t)
  BY <1>3 DEF FlushEncoder, EncoderClosed, OpenEncoder, Closing, At, GoTo, Resume, Become
<1>4. CASE TestConnected(t) \/ Accept(t) \/ StoreClient(t)
  BY <1>4 DEF TestConnected, Accept, StoreClient, At, GoTo, Resume, CloseEncoder, Become
<1> QED
  BY <1>1, <1>2, <1>3, <1>4 DEF Call

\* No frame is emitted a tick or more before its time, although the worker decides by
\* a time it sampled before it accepted clients and closed encoders: that time is never
\* ahead of the clock.
THEOREM EmittedOnTime == Spec => NeverEarly
<1> DEFINE Emitted == At("worker", "peek") /\ At("worker", "process")'
           Early == Emitted => now >= base' + popped
<1>1. IndInv /\ [Next]_vars => Early
  <2> SUFFICES ASSUME IndInv, [Next]_vars, Emitted PROVE now >= base' + popped
    OBVIOUS
  <2>0. /\ thread \in [ThreadIds -> Thread] /\ thread["worker"].at = "peek"
        /\ thread'["worker"].at = "process"
    BY DEF IndInv, Typed, At
  <2>1. EmitFrame
    <3>1. ASSUME NEW t \in ThreadIds, Call(t) PROVE FALSE
      BY <2>0, <3>1, CallMoves
    <3>2. ~UNCHANGED vars /\ ~Push /\ ~Tick
      BY <2>0 DEF vars, Push, Tick
    <3>3. ~AcceptLoop /\ ~Stop
      BY <2>0 DEF AcceptLoop, Stop, GoTo, Become
    <3>4. ~Start
      <4>1. state # "Idle"
        BY <2>0 DEF IndInv, StopOrder, NothingStarted
      <4> QED
        BY <4>1 DEF Start
    <3>5. ~Stopper
      BY <2>0 DEF Stopper, JoinWorker, JoinAcceptor, NullPacket, CleanupSocket, GoTo, CloseEncoder,
           Become
    <3>6. ~WorkerTop /\ ~PollClient /\ ~EndOfWait /\ ~ProcessFrame /\ ~CountFrame
      BY <2>0 DEF WorkerTop, PollClient, EndOfWait, ProcessFrame, CountFrame, At
    <3>7. ~HandleBufferUnderflow /\ ~DropLateFrame /\ ~WaitForFrame
      BY <2>0 DEF HandleBufferUnderflow, DropLateFrame, WaitForFrame, Continue, Become, NoThread
    <3> QED
      BY <3>1, <3>2, <3>3, <3>4, <3>5, <3>6, <3>7 DEF Next, Worker
  <2>2. /\ thread["worker"].clock <= now /\ thread["worker"].clock \in Nat /\ now \in Nat
        /\ popped \in Nat /\ base \in Int
    BY ThreadSound DEF IndInv, Typed, Balance, Thread
  <2>3. base' + popped <= thread["worker"].clock
    BY <2>1, <2>2 DEF EmitFrame, Age, Gap
  <2>4. base' \in Int
    BY <2>1, <2>2 DEF EmitFrame, Age
  <2> QED
    BY <2>2, <2>3, <2>4
<1>2. Early => [Early]_vars
  OBVIOUS
<1> QED
  BY <1>1, IndInvHolds, PTL DEF Spec, NeverEarly
=============================================================================
