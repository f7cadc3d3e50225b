--------------------------- MODULE MetricsExporter ---------------------------
(***************************************************************************)
(* MetricsExporter: threads submit events, through a lock-free queue that a *)
(* worker thread empties while the exporter runs, and directly while it     *)
(* does not.  Another thread starts and stops the exporter.  The exported   *)
(* tables are those of one channel, one descriptor and one transport.       *)
(***************************************************************************)
EXTENDS Integers, Sequences, SequencesExt

CONSTANTS Submitters,   \* threads that submit
          QueueSlots,   \* capacity_ of EventQueue, one more than it holds
          Script,       \* bound: the kinds of event that a thread's first, second, ...
                        \* submission may have
          MaxStarts     \* bound: calls of Start

Kinds == {"update", "remove", "register", "deprecate", "record"}

ASSUME QueueAssumption == QueueSlots \in Nat \ {0, 1}
ASSUME ScriptAssumption == Script \in Seq(SUBSET Kinds)
ASSUME BoundAssumption == MaxStarts \in Nat

VARIABLES running, stop_requested,
          head, tail, buffer,       \* event_queue_
          queue_overflow_total, submitted_events, processed_events,
          metrics,                  \* the tables under metrics_mutex_
          worker, event,            \* the worker thread, and the event it popped
          control, starts,          \* the thread in Start and Stop
          pc, ev, loaded,           \* submitters: place, event, index or count read
          log,                      \* history: events accepted, in order
          queued,                   \* history: those that went through the queue
          popped,                   \* history: number of events popped
          owed,                     \* history: events queued when Stop began
          overtaken                 \* history: a direct write passed a queued event

queueVars == <<head, tail, buffer>>
countVars == <<queue_overflow_total, submitted_events, processed_events>>
workerVars == <<worker, event>>
controlVars == <<running, stop_requested, control, starts, owed>>
submitVars == <<pc, ev, loaded>>
historyVars == <<log, queued, popped, overtaken>>
vars == <<queueVars, countVars, metrics, workerVars, controlVars, submitVars, historyVars>>

QueueSlot == 0 .. QueueSlots - 1
Events == [by: Submitters, n: 1 .. Len(Script), kind: Kinds, path: {"queue", "direct"}]
NoEvent == [by |-> "none", n |-> 0, kind |-> "none", path |-> "none"]

NoMetrics ==
  [channel |-> NoEvent, version |-> NoEvent, deprecated |-> FALSE, recorded |-> 0]

Init ==
  /\ running = FALSE /\ stop_requested = FALSE
  /\ head = 0 /\ tail = 0 /\ buffer = [i \in QueueSlot |-> NoEvent]
  /\ queue_overflow_total = 0 /\ submitted_events = 0 /\ processed_events = 0
  /\ metrics = NoMetrics
  /\ worker = "none" /\ event = NoEvent
  /\ control = "idle" /\ starts = 0
  /\ pc = [s \in Submitters |-> "idle"]
  /\ ev = [s \in Submitters |-> NoEvent]
  /\ loaded = [s \in Submitters |-> 0]
  /\ log = << >> /\ queued = << >> /\ popped = 0 /\ owed = 0 /\ overtaken = FALSE

\* Faulty variant: the index is not taken modulo the capacity.
NextSlotNoWrap(i) == i + 1

NextSlot(i) == (i + 1) % QueueSlots

\* The queued events, oldest first.
Pending == [i \in 1 .. (tail - head) % QueueSlots |-> buffer[(head + i - 1) % QueueSlots]]

-----------------------------------------------------------------------------
(* The tables.                                                             *)

\* Faulty variant: registering a descriptor again leaves it deprecated.
ProcessEventKeepsFlag(m, e) ==
  CASE e.kind = "update"    -> [m EXCEPT !.channel = e]
    [] e.kind = "remove"    -> [m EXCEPT !.channel = NoEvent]
    [] e.kind = "register"  -> [m EXCEPT !.version = e]
    [] e.kind = "deprecate" -> [m EXCEPT !.deprecated = TRUE]
    [] e.kind = "record"    -> [m EXCEPT !.recorded = @ + 1]

\* ProcessEvent, and the same assignments on the direct path.
ProcessEvent(m, e) ==
  CASE e.kind = "update"    -> [m EXCEPT !.channel = e]
    [] e.kind = "remove"    -> [m EXCEPT !.channel = NoEvent]
    [] e.kind = "register"  -> [m EXCEPT !.version = e, !.deprecated = FALSE]
    [] e.kind = "deprecate" -> [m EXCEPT !.deprecated = TRUE]
    [] e.kind = "record"    -> [m EXCEPT !.recorded = @ + 1]

-----------------------------------------------------------------------------
(* Submitters.                                                             *)

Goto(s, from, to) == pc[s] = from /\ pc' = [pc EXCEPT ![s] = to]

\* A submission begins by reading running_.
Submit(s, kind) ==
  /\ Goto(s, "idle", IF running THEN "push" ELSE "direct")
  /\ ev[s].n < Len(Script) /\ kind \in Script[ev[s].n + 1]
  /\ ev' = [ev EXCEPT ![s] = [by |-> s, n |-> @.n + 1, kind |-> kind,
                              path |-> IF running THEN "queue" ELSE "direct"]]
  /\ UNCHANGED <<queueVars, countVars, metrics, workerVars, controlVars, loaded,
                 historyVars>>

SubmitChannelMetrics(s) == Submit(s, "update")
SubmitChannelRemoval(s) == Submit(s, "remove")
RegisterMetricDescriptor(s) == Submit(s, "register")
DeprecateMetricDescriptor(s) == Submit(s, "deprecate")
RecordDeliveryStatus(s) == Submit(s, "record")

\* Not running: the tables are written by the caller.
SubmitDirect(s) ==
  /\ Goto(s, "direct", "idle")
  /\ metrics' = ProcessEvent(metrics, ev[s])
  /\ log' = Append(log, ev[s])
  /\ overtaken' = (overtaken \/ Pending # << >> \/ worker = "apply")
  /\ UNCHANGED <<queueVars, countVars, workerVars, controlVars, ev, loaded, queued, popped>>

\* EventQueue::Push: load tail_, load head_ and compare, copy, store.
PushLoad(s) ==
  /\ Goto(s, "push", "check")
  /\ loaded' = [loaded EXCEPT ![s] = tail]
  /\ UNCHANGED <<queueVars, countVars, metrics, workerVars, controlVars, ev, historyVars>>

\* Faulty variant: the queue is never found full.
PushCheckNeverFull(s) ==
  /\ Goto(s, "check", "copy")
  /\ UNCHANGED <<queueVars, countVars, metrics, workerVars, controlVars, ev, loaded,
                 historyVars>>

\* A full queue refuses the event, and the overflow is counted.
PushCheck(s) ==
  /\ \/ /\ NextSlot(loaded[s]) = head /\ Goto(s, "check", "idle")
        /\ loaded' = [loaded EXCEPT ![s] = 0]
        /\ queue_overflow_total' = queue_overflow_total + 1
     \/ /\ NextSlot(loaded[s]) # head /\ Goto(s, "check", "copy")
        /\ UNCHANGED <<loaded, queue_overflow_total>>
  /\ UNCHANGED <<queueVars, submitted_events, processed_events, metrics, workerVars,
                 controlVars, ev, historyVars>>

PushCopy(s) ==
  /\ Goto(s, "copy", "store")
  /\ buffer' = [buffer EXCEPT ![loaded[s]] = ev[s]]
  /\ UNCHANGED <<head, tail, countVars, metrics, workerVars, controlVars, ev, loaded,
                 historyVars>>

PushStore(s) ==
  /\ Goto(s, "store", "count")
  /\ tail' = NextSlot(loaded[s])
  /\ loaded' = [loaded EXCEPT ![s] = 0]
  /\ log' = Append(log, ev[s]) /\ queued' = Append(queued, ev[s])
  /\ UNCHANGED <<head, buffer, countVars, metrics, workerVars, controlVars, ev, popped,
                 overtaken>>

\* The submission is counted after it has been queued, and true is returned.
CountSubmitted(s) ==
  /\ Goto(s, "count", "idle")
  /\ submitted_events' = submitted_events + 1
  /\ UNCHANGED <<queueVars, queue_overflow_total, processed_events, metrics, workerVars,
                 controlVars, ev, loaded, historyVars>>

\* WaitUntilDrainedForTest answers true at once while the exporter is not
\* running; else it polls until its deadline: read processed_events_, compare
\* it with submitted_events_, look whether the queue is empty.
WaitUntilDrained(s) ==
  /\ running
  /\ Goto(s, "idle", "waitLoad")
  /\ UNCHANGED <<queueVars, countVars, metrics, workerVars, controlVars, ev, loaded,
                 historyVars>>

WaitLoad(s) ==
  /\ Goto(s, "waitLoad", "waitCompare")
  /\ loaded' = [loaded EXCEPT ![s] = processed_events]
  /\ UNCHANGED <<queueVars, countVars, metrics, workerVars, controlVars, ev, historyVars>>

\* Faulty variant: an empty queue is taken for a drained one.
WaitCompareSkipped(s) ==
  /\ Goto(s, "waitCompare", "waitEmpty")
  /\ UNCHANGED <<queueVars, countVars, metrics, workerVars, controlVars, ev, loaded,
                 historyVars>>

WaitCompare(s) ==
  /\ \/ loaded[s] >= submitted_events /\ Goto(s, "waitCompare", "waitEmpty")
     \/ /\ loaded[s] < submitted_events
        /\ \E next \in {"waitLoad", "idle"} : Goto(s, "waitCompare", next)
  /\ loaded' = [loaded EXCEPT ![s] = 0]
  /\ UNCHANGED <<queueVars, countVars, metrics, workerVars, controlVars, ev, historyVars>>

WaitEmpty(s) ==
  /\ \/ head = tail /\ Goto(s, "waitEmpty", "idle")
     \/ /\ head # tail
        /\ \E next \in {"waitLoad", "idle"} : Goto(s, "waitEmpty", next)
  /\ UNCHANGED <<queueVars, countVars, metrics, workerVars, controlVars, ev, loaded,
                 historyVars>>

Call(s) ==
  \/ SubmitChannelMetrics(s) \/ SubmitChannelRemoval(s) \/ RegisterMetricDescriptor(s)
  \/ DeprecateMetricDescriptor(s) \/ RecordDeliveryStatus(s) \/ WaitUntilDrained(s)

InCall(s) ==
  \/ SubmitDirect(s) \/ PushLoad(s) \/ PushCheck(s) \/ PushCopy(s) \/ PushStore(s)
  \/ CountSubmitted(s) \/ WaitLoad(s) \/ WaitCompare(s) \/ WaitEmpty(s)

-----------------------------------------------------------------------------
(* The worker.                                                             *)

WorkerGoto(from, to) == worker = from /\ worker' = to

\* Faulty variant: the worker leaves as soon as it is asked to.
TestStopAtOnce ==
  /\ WorkerGoto("test", IF stop_requested THEN "exited" ELSE "pop")
  /\ UNCHANGED <<queueVars, countVars, metrics, event, controlVars, submitVars,
                 historyVars>>

TestStop ==
  /\ WorkerGoto("test", IF stop_requested THEN "testEmpty" ELSE "pop")
  /\ UNCHANGED <<queueVars, countVars, metrics, event, controlVars, submitVars,
                 historyVars>>

TestEmpty ==
  /\ WorkerGoto("testEmpty", IF head = tail THEN "exited" ELSE "pop")
  /\ UNCHANGED <<queueVars, countVars, metrics, event, controlVars, submitVars,
                 historyVars>>

\* Pop, or the wait for queue_cv_ that ends after 50 ms in any case.
PopEvent ==
  /\ WorkerGoto("pop", IF head = tail THEN "test" ELSE "apply")
  /\ IF head = tail
     THEN UNCHANGED <<queueVars, event, popped>>
     ELSE /\ event' = buffer[head]
          /\ head' = NextSlot(head)
          /\ popped' = popped + 1
          /\ UNCHANGED <<tail, buffer>>
  /\ UNCHANGED <<countVars, metrics, controlVars, submitVars, log, queued, overtaken>>

ApplyEvent ==
  /\ WorkerGoto("apply", "count")
  /\ metrics' = ProcessEvent(metrics, event)
  /\ event' = NoEvent
  /\ UNCHANGED <<queueVars, countVars, controlVars, submitVars, historyVars>>

CountProcessed ==
  /\ WorkerGoto("count", "test")
  /\ processed_events' = processed_events + 1
  /\ UNCHANGED <<queueVars, queue_overflow_total, submitted_events, metrics, event,
                 controlVars, submitVars,
                 historyVars>>

WorkerLoop == TestStop \/ TestEmpty \/ PopEvent \/ ApplyEvent \/ CountProcessed

-----------------------------------------------------------------------------
(* Start and Stop, from one thread.                                        *)

ControlGoto(from, to) == control = from /\ control' = to

\* Start of an exporter that does not run; otherwise it returns false.
Start ==
  /\ ~running /\ running' = TRUE
  /\ ControlGoto("idle", "starting")
  /\ starts < MaxStarts /\ starts' = starts + 1
  /\ UNCHANGED <<queueVars, countVars, metrics, workerVars, stop_requested, owed,
                 submitVars,
                 historyVars>>

\* Faulty variant: the request of the last Stop stays.
StartResetForgotten ==
  /\ ControlGoto("starting", "spawning")
  /\ UNCHANGED <<queueVars, countVars, metrics, workerVars, running, stop_requested, starts,
                 owed, submitVars, historyVars>>

StartReset ==
  /\ stop_requested' = FALSE
  /\ ControlGoto("starting", "spawning")
  /\ UNCHANGED <<queueVars, countVars, metrics, workerVars, running, starts, owed,
                 submitVars,
                 historyVars>>

\* The HTTP server cannot be started, and the exporter runs no more; or the
\* worker starts.
StartWorker ==
  /\ ControlGoto("spawning", "idle")
  /\ \/ running' = FALSE /\ UNCHANGED worker
     \/ worker' = "test" /\ UNCHANGED running
  /\ UNCHANGED <<queueVars, countVars, metrics, event, stop_requested, starts, owed,
                 submitVars,
                 historyVars>>

Stop ==
  /\ running /\ running' = FALSE
  /\ ControlGoto("idle", "stopping")
  /\ owed' = Len(queued)
  /\ UNCHANGED <<queueVars, countVars, metrics, workerVars, stop_requested, starts,
                 submitVars,
                 historyVars>>

\* Faulty variant: the worker is not told.
StopRequestForgotten ==
  /\ ControlGoto("stopping", "joining")
  /\ UNCHANGED <<queueVars, countVars, metrics, workerVars, running, stop_requested, starts,
                 owed, submitVars, historyVars>>

StopRequest ==
  /\ stop_requested' = TRUE
  /\ ControlGoto("stopping", "joining")
  /\ UNCHANGED <<queueVars, countVars, metrics, workerVars, running, starts, owed,
                 submitVars,
                 historyVars>>

StopJoin ==
  /\ worker \in {"none", "exited"} /\ worker' = "none"
  /\ ControlGoto("joining", "idle")
  /\ UNCHANGED <<queueVars, countVars, metrics, event, running, stop_requested, starts,
                 owed,
                 submitVars, historyVars>>

Controller == StartReset \/ StartWorker \/ StopRequest \/ StopJoin

Next ==
  \/ \E s \in Submitters : Call(s) \/ InCall(s)
  \/ WorkerLoop
  \/ Start \/ Stop \/ Controller

Spec == Init /\ [][Next]_vars

\* Every thread goes on with what it has begun; nobody has to submit, start or
\* stop.
Fairness ==
  /\ WF_vars(WorkerLoop) /\ WF_vars(Controller)
  /\ \A s \in Submitters : WF_vars(InCall(s))

LiveSpec == Spec /\ Fairness

-----------------------------------------------------------------------------
(* Properties.                                                             *)

WorkerPoints == {"none", "test", "testEmpty", "pop", "apply", "count", "exited"}
SubmitPoints == {"idle", "direct", "push", "check", "copy", "store", "count",
                 "waitLoad", "waitCompare", "waitEmpty"}
Cells == Events \cup {NoEvent}

\* Every variable stays in its domain.
TypeOK ==
  /\ running \in BOOLEAN /\ stop_requested \in BOOLEAN
  /\ head \in QueueSlot /\ tail \in QueueSlot
  /\ \A i \in QueueSlot : buffer[i] \in Cells
  /\ queue_overflow_total \in Nat /\ submitted_events \in Nat /\ processed_events \in Nat
  /\ metrics.channel \in Cells /\ metrics.version \in Cells
  /\ worker \in WorkerPoints /\ event \in Cells
  /\ control \in {"idle", "starting", "spawning", "stopping", "joining"}
  /\ \A s \in Submitters : pc[s] \in SubmitPoints /\ ev[s] \in Cells
  /\ popped \in 0 .. Len(queued) /\ owed \in 0 .. Len(queued)

\* What Push accepted and the worker has not popped is in the queue, in the
\* order of acceptance: no event is lost, duplicated or replaced, also when the
\* exporter is stopped and started again with events still queued.
NothingLost == Pending = SubSeq(queued, popped + 1, Len(queued))

\* The last of these events that is of one of these kinds.
LastOf(events, kinds) ==
  LET at == {i \in DOMAIN events : events[i].kind \in kinds}
  IN IF at = {} THEN NoEvent ELSE events[Max(at)]

\* What these events say, in the order of their submission.
Expected(events) ==
  LET last == LastOf(events, {"update", "remove"}) IN
  [channel    |-> IF last.kind = "update" THEN last ELSE NoEvent,
   version    |-> LastOf(events, {"register"}),
   deprecated |-> LastOf(events, {"register", "deprecate"}).kind = "deprecate",
   recorded   |-> Cardinality({i \in DOMAIN events : events[i].kind = "record"})]

\* Once no event is queued or in the worker's hand, the tables say what the
\* accepted events say, whichever path each took and however often the exporter
\* was stopped and started, unless a direct write has passed a queued event.
SettledTablesAgree ==
  ~overtaken /\ Pending = << >> /\ worker # "apply" => metrics = Expected(log)

\* Stop() flushes: when it has joined the worker, every event that was queued
\* when it began has been popped and is in the tables.
StopFlushes == control = "idle" /\ ~running /\ worker = "none" => popped >= owed

\* When WaitUntilDrainedForTest answers true, the caller's accepted events are
\* in the tables: the worker holds none that it has popped and not applied.
DrainedMeansApplied ==
  \A s \in Submitters : pc[s] = "waitEmpty" /\ head = tail => worker # "apply"

\* Stop() returns: the worker leaves its loop although threads that saw the
\* exporter running still push.
StopReturns == control = "stopping" ~> control = "idle"

\* While the exporter runs, an accepted event is eventually processed.
AcceptedIsProcessed ==
  \A n \in 1 .. Len(Script) :
    Len(queued) >= n ~> popped >= n \/ ~running
=============================================================================
