--------------------------- MODULE PlayoutControl ---------------------------
(***************************************************************************)
(* PlayoutControlStateMachine: the per-channel control state, its command  *)
(* handlers (commands carry an id and are deduplicated), the handlers of   *)
(* buffer and back-pressure events, and the telemetry they keep.  Every    *)
(* handler runs under mutex_, so each is one action.  UTC times are        *)
(* abstracted to whether a command took effect later than its threshold;   *)
(* a latency vector is abstracted to its length.                           *)
(***************************************************************************)
EXTENDS Integers

CONSTANTS Commands,   \* command ids
          NoId,       \* the empty command id, which is never deduplicated
          MaxPts,     \* bound: seek targets are 0 .. MaxPts
          MaxEvents   \* bound: number of handler calls

ASSUME CommandAssumption == NoId \notin Commands
ASSUME BoundAssumption   == MaxPts \in Nat /\ MaxEvents \in Nat

VARIABLES state, processed_commands, current_pts,
          transitions,  \* transitions_[from, to]
          samples,      \* lengths of the latency vectors (pause_deviation_ms_
                        \* grows with pause_latencies_ms_)
          total,        \* the *_total_ counters
          applied,      \* history: how often a command id took effect
          acked,        \* history: ids whose caller was answered true
          events        \* number of handler calls so far

vars == <<state, processed_commands, current_pts, transitions, samples, total,
          applied, acked, events>>

States == {"Idle", "Buffering", "Ready", "Playing", "Paused", "Stopping", "Error"}
Vectors == {"pause", "resume", "seek", "stop"}
Counters == {"illegal", "latency", "timeout", "overflow", "recover", "lateSeek"}
Ids == Commands \cup {NoId}
kReadinessThresholdFrames == 3
Depths == 0 .. kReadinessThresholdFrames + 1

Init ==
  /\ state = "Idle"
  /\ processed_commands = {}
  /\ current_pts = 0
  /\ transitions = [e \in States \X States |-> 0]
  /\ samples = [v \in Vectors |-> 0]
  /\ total = [n \in Counters |-> 0]
  /\ applied = [id \in Commands |-> 0]
  /\ acked = {}
  /\ events = 0

-----------------------------------------------------------------------------
(* Building blocks.                                                        *)

\* TransitionLocked along a path given by its edges, ending in to: every edge
\* that changes the state is counted.
TransitionLocked(edges, to) ==
  /\ state' = to
  /\ transitions' = [e \in States \X States |->
       transitions[e] + (IF e \in edges /\ e[1] # e[2] THEN 1 ELSE 0)]

Count(n) == total' = [total EXCEPT ![n] = @ + 1]

\* A latency sample, and whether it exceeds the command's threshold.
RecordLatencyLocked(v, late) ==
  /\ samples' = [samples EXCEPT ![v] = @ + 1]
  /\ total' = [total EXCEPT !["latency"] = @ + (IF late THEN 1 ELSE 0)]

\* Faulty variant: the duplicate check without the insertion result.
AlwaysFresh(id) == TRUE

\* RegisterCommandLocked's answer: the empty id is always new.
RegisterCommandLocked(id) == id = NoId \/ id \notin processed_commands

\* Faulty variant: the empty id is registered like any other.
RememberEmptyToo(id) == processed_commands' = processed_commands \cup {id}

Remember(id) == processed_commands' = processed_commands \cup ({id} \ {NoId})

\* A handler call, within the bound.
Handle == events < MaxEvents /\ events' = events + 1

\* A duplicate command is acknowledged with true and does nothing.
Duplicate(id) ==
  /\ ~RegisterCommandLocked(id)
  /\ acked' = acked \cup {id}
  /\ UNCHANGED <<state, processed_commands, current_pts, transitions, samples,
                 total, applied>>

\* Faulty variant: a rejected command is only counted, its edge is not.
RejectUncounted(id, to) ==
  /\ RegisterCommandLocked(id) /\ Remember(id)
  /\ transitions' = [transitions EXCEPT ![<<state, to>>] = @ + 1]
  /\ UNCHANGED <<state, current_pts, samples, total, applied, acked>>

\* RecordIllegalTransitionLocked, and false: the id is used up, and the edge
\* that was not taken is counted in transitions_ as well.
Reject(id, to) ==
  /\ RegisterCommandLocked(id) /\ Remember(id)
  /\ Count("illegal")
  /\ transitions' = [transitions EXCEPT ![<<state, to>>] = @ + 1]
  /\ UNCHANGED <<state, current_pts, samples, applied, acked>>

\* A fresh command that takes effect and is answered with true.
Accept(id) ==
  /\ RegisterCommandLocked(id) /\ Remember(id)
  /\ acked' = acked \cup ({id} \ {NoId})
  /\ applied' = IF id = NoId THEN applied ELSE [applied EXCEPT ![id] = @ + 1]

-----------------------------------------------------------------------------
(* Command handlers.                                                       *)

BeginSession(id) ==
  /\ Handle
  /\ \/ Duplicate(id)
     \/ state # "Idle" /\ Reject(id, "Buffering")
     \/ /\ state = "Idle" /\ Accept(id)
        /\ TransitionLocked({<<state, "Buffering">>}, "Buffering")
        /\ UNCHANGED <<current_pts, samples, total>>

\* Faulty variant: the latency sample is recorded before the state check.
PauseSamplesFirst(id, late) ==
  /\ Handle
  /\ \/ Duplicate(id)
     \/ /\ state # "Playing" /\ RegisterCommandLocked(id) /\ Remember(id)
        /\ RecordLatencyLocked("pause", late)
        /\ transitions' = [transitions EXCEPT ![<<state, "Paused">>] = @ + 1]
        /\ UNCHANGED <<state, current_pts, applied, acked>>
     \/ /\ state = "Playing" /\ Accept(id)
        /\ RecordLatencyLocked("pause", late)
        /\ TransitionLocked({<<state, "Paused">>}, "Paused")
        /\ UNCHANGED current_pts

Pause(id, late) ==
  /\ Handle
  /\ \/ Duplicate(id)
     \/ state # "Playing" /\ Reject(id, "Paused")
     \/ /\ state = "Playing" /\ Accept(id)
        /\ RecordLatencyLocked("pause", late)
        /\ TransitionLocked({<<state, "Paused">>}, "Paused")
        /\ UNCHANGED current_pts

Resume(id, late) ==
  /\ Handle
  /\ \/ Duplicate(id)
     \/ state # "Paused" /\ Reject(id, "Playing")
     \/ /\ state = "Paused" /\ Accept(id)
        /\ RecordLatencyLocked("resume", late)
        /\ TransitionLocked({<<state, "Playing">>}, "Playing")
        /\ UNCHANGED current_pts

\* A target behind the current position is late before anything else is
\* looked at.  An accepted seek passes through Buffering and Ready at once.
Seek(id, target, late) ==
  /\ Handle
  /\ \/ Duplicate(id)
     \/ /\ target < current_pts
        /\ RegisterCommandLocked(id) /\ Remember(id)
        /\ Count("lateSeek")
        /\ UNCHANGED <<state, current_pts, transitions, samples, applied, acked>>
     \/ /\ target >= current_pts /\ state \notin {"Playing", "Paused"}
        /\ Reject(id, "Buffering")
     \/ /\ target >= current_pts /\ state \in {"Playing", "Paused"} /\ Accept(id)
        /\ RecordLatencyLocked("seek", late)
        /\ TransitionLocked({<<state, "Buffering">>, <<"Buffering", "Ready">>,
                             <<"Ready", "Playing">>}, "Playing")
        /\ current_pts' = target

\* Stop is legal everywhere but in Idle, in Error too; the session's position
\* and its command ids survive it.
Stop(id, late) ==
  /\ Handle
  /\ \/ Duplicate(id)
     \/ state = "Idle" /\ Reject(id, "Stopping")
     \/ /\ state # "Idle" /\ Accept(id)
        /\ RecordLatencyLocked("stop", late)
        /\ TransitionLocked({<<state, "Stopping">>, <<"Stopping", "Idle">>}, "Idle")
        /\ UNCHANGED current_pts

\* Faulty variant: recovery resumes playback directly.
RecoverToPlaying(id) ==
  /\ Handle
  /\ \/ Duplicate(id)
     \/ state # "Error" /\ Reject(id, "Buffering")
     \/ /\ state = "Error" /\ Accept(id)
        /\ TransitionLocked({<<state, "Playing">>}, "Playing")
        /\ Count("recover")
        /\ UNCHANGED <<current_pts, samples>>

Recover(id) ==
  /\ Handle
  /\ \/ Duplicate(id)
     \/ state # "Error" /\ Reject(id, "Buffering")
     \/ /\ state = "Error" /\ Accept(id)
        /\ TransitionLocked({<<state, "Buffering">>}, "Buffering")
        /\ Count("recover")
        /\ UNCHANGED <<current_pts, samples>>

-----------------------------------------------------------------------------
(* Event handlers.                                                         *)

\* Faulty variant: the second transition is forgotten.
OnBufferDepthStopsAtReady(depth, capacity) ==
  /\ Handle
  /\ capacity # 0 /\ state = "Buffering" /\ depth >= kReadinessThresholdFrames
  /\ TransitionLocked({<<"Buffering", "Ready">>}, "Ready")
  /\ UNCHANGED <<processed_commands, current_pts, samples, total, applied, acked>>

OnBufferDepth(depth, capacity) ==
  /\ Handle
  /\ \/ /\ capacity # 0 /\ state = "Buffering" /\ depth >= kReadinessThresholdFrames
        /\ TransitionLocked({<<"Buffering", "Ready">>, <<"Ready", "Playing">>}, "Playing")
     \/ /\ capacity # 0 /\ state = "Playing" /\ depth = 0
        /\ TransitionLocked({<<"Playing", "Buffering">>}, "Buffering")
     \/ /\ \/ capacity = 0
           \/ state = "Buffering" /\ depth < kReadinessThresholdFrames
           \/ state = "Playing" /\ depth # 0
           \/ state \notin {"Buffering", "Playing"}
        /\ UNCHANGED <<state, transitions>>
  /\ UNCHANGED <<processed_commands, current_pts, samples, total, applied, acked>>

OnBackPressureEvent(event) ==
  /\ Handle
  /\ \/ /\ event = "underrun" /\ state = "Playing"
        /\ TransitionLocked({<<"Playing", "Buffering">>}, "Buffering")
        /\ UNCHANGED total
     \/ /\ event = "overrun"
        /\ Count("overflow")
        /\ UNCHANGED <<state, transitions>>
     \/ /\ event = "stall" \/ (event = "underrun" /\ state # "Playing")
        /\ UNCHANGED <<state, transitions, total>>
  /\ UNCHANGED <<processed_commands, current_pts, samples, applied, acked>>

\* No depth is looked at: any buffering phase ends here.
OnBackPressureCleared ==
  /\ Handle
  /\ \/ /\ state = "Buffering"
        /\ TransitionLocked({<<"Buffering", "Ready">>, <<"Ready", "Playing">>}, "Playing")
     \/ state # "Buffering" /\ UNCHANGED <<state, transitions>>
  /\ UNCHANGED <<processed_commands, current_pts, samples, total, applied, acked>>

OnExternalTimeout ==
  /\ Handle
  /\ Count("timeout")
  /\ TransitionLocked({<<state, "Error">>}, "Error")
  /\ UNCHANGED <<processed_commands, current_pts, samples, applied, acked>>

OnQueueOverflow ==
  /\ Handle
  /\ Count("overflow")
  /\ UNCHANGED <<state, processed_commands, current_pts, transitions, samples,
                 applied, acked>>

-----------------------------------------------------------------------------

Command(id) ==
  \/ BeginSession(id)
  \/ Recover(id)
  \/ \E late \in BOOLEAN : \/ Pause(id, late) \/ Resume(id, late) \/ Stop(id, late)
                           \/ \E target \in 0 .. MaxPts : Seek(id, target, late)

Event ==
  \/ \E depth \in Depths, capacity \in {0, 1} : OnBufferDepth(depth, capacity)
  \/ \E event \in {"underrun", "overrun", "stall"} : OnBackPressureEvent(event)
  \/ OnBackPressureCleared
  \/ OnExternalTimeout
  \/ OnQueueOverflow

Next == (\E id \in Ids : Command(id)) \/ Event

Spec == Init /\ [][Next]_vars

-----------------------------------------------------------------------------
(* Properties.                                                             *)

\* Every field stays in its domain.
TypeOK ==
  /\ state \in States
  /\ processed_commands \subseteq Commands
  /\ current_pts \in 0 .. MaxPts
  /\ transitions \in [States \X States -> Nat]
  /\ samples \in [Vectors -> Nat]
  /\ total \in [Counters -> Nat]
  /\ applied \in [Commands -> Nat]
  /\ acked \subseteq Commands
  /\ events \in 0 .. MaxEvents

\* Ready and Stopping are only passed through inside one handler call: no
\* other thread ever sees them from state() or Snapshot(), whatever sequence
\* of commands and events led there.
TransientStatesInvisible == state \notin {"Ready", "Stopping"}

\* The latency vectors and the transition map are kept by different code and
\* rejected commands are counted in the map too; still each pause, resume and
\* stop sample belongs to exactly one counted transition that only that
\* command makes.
SamplesMatchTransitions ==
  /\ samples["pause"] = transitions[<<"Playing", "Paused">>]
  /\ samples["resume"] = transitions[<<"Paused", "Playing">>]
  /\ samples["stop"] = transitions[<<"Stopping", "Idle">>]

\* Transitions in and out of a state.
InOf(s) == transitions[<<"Idle", s>>] + transitions[<<"Buffering", s>>]
           + transitions[<<"Ready", s>>] + transitions[<<"Playing", s>>]
           + transitions[<<"Paused", s>>] + transitions[<<"Stopping", s>>]
           + transitions[<<"Error", s>>]
OutOf(s) == transitions[<<s, "Idle">>] + transitions[<<s, "Buffering">>]
            + transitions[<<s, "Ready">>] + transitions[<<s, "Playing">>]
            + transitions[<<s, "Paused">>] + transitions[<<s, "Stopping">>]
            + transitions[<<s, "Error">>]
IsWalk ==
  \A s \in States :
    InOf(s) - OutOf(s) = (IF s = state THEN 1 ELSE 0) - (IF s = "Idle" THEN 1 ELSE 0)

\* Every handler counts its edges by itself, some of them several at once.  As
\* long as no command has been rejected the counters reconstruct the channel's
\* path: the counted edges form a walk from Idle to the current state, so
\* whatever enters a state other than these two also leaves it.  (A rejected
\* command counts an edge that was not taken.)
WalkUnlessRejected == total["illegal"] = 0 => IsWalk

\* A command id takes effect at most once, however often it is resent and
\* whatever happens in between, sessions included.
EffectAtMostOnce == \A id \in Commands : applied[id] <= 1

\* No buffer or back-pressure event revives a channel in Error: it is left
\* only by Recover (counted) into Buffering or by Stop (sampled) into Idle.
ErrorLeftOnlyByCommand ==
  [][state = "Error" /\ state' # "Error"
       => \/ state' = "Buffering" /\ total'["recover"] = total["recover"] + 1
          \/ state' = "Idle" /\ samples'["stop"] = samples["stop"] + 1]_vars

=============================================================================
