------------------------ MODULE PlayoutControlProofs ------------------------
(***************************************************************************)
(* Proofs about PlayoutControl for every set of command ids and every      *)
(* length of the command history.                                          *)
(***************************************************************************)
EXTENDS PlayoutControl, TLAPS

\* A command id that took effect is registered, and took effect once.
AppliedAreRegistered ==
  \A id \in Commands : /\ applied[id] \in {0, 1}
                       /\ applied[id] = 1 => id \in processed_commands

IndInv == /\ TypeOK
          /\ TransientStatesInvisible
          /\ SamplesMatchTransitions
          /\ AppliedAreRegistered

-----------------------------------------------------------------------------
(* What the building blocks do to the transition map.                      *)

\* The map is counted up exactly on the edges of the path.
LEMMA TransitionCounts ==
  ASSUME TypeOK, NEW edges, NEW to \in States, TransitionLocked(edges, to)
  PROVE  /\ transitions' \in [States \X States -> Nat]
         /\ \A a, b \in States :
              transitions'[<<a, b>>] =
                transitions[<<a, b>>] + (IF <<a, b>> \in edges /\ a # b THEN 1 ELSE 0)
<1>1. transitions \in [States \X States -> Nat]
  BY DEF TypeOK
<1>2. transitions' = [e \in States \X States |->
        transitions[e] + (IF e \in edges /\ e[1] # e[2] THEN 1 ELSE 0)]
  BY DEF TransitionLocked
<1>3. ASSUME NEW e \in States \X States
      PROVE  transitions[e] + (IF e \in edges /\ e[1] # e[2] THEN 1 ELSE 0) \in Nat
  BY <1>1
<1>4. ASSUME NEW a \in States, NEW b \in States
      PROVE  /\ <<a, b>> \in States \X States
             /\ <<a, b>>[1] = a /\ <<a, b>>[2] = b
  OBVIOUS
<1>5. QED BY <1>2, <1>3, <1>4

\* A rejected command counts the one edge it did not take.
LEMMA RejectCounts ==
  ASSUME TypeOK, NEW id \in Ids, NEW to \in States, Reject(id, to)
  PROVE  /\ transitions' \in [States \X States -> Nat]
         /\ \A a, b \in States :
              transitions'[<<a, b>>] =
                transitions[<<a, b>>] + (IF a = state /\ b = to THEN 1 ELSE 0)
<1>1. transitions \in [States \X States -> Nat] /\ <<state, to>> \in States \X States
  BY DEF TypeOK
<1>2. transitions' = [transitions EXCEPT ![<<state, to>>] = @ + 1]
  BY DEF Reject
<1>3. ASSUME NEW a \in States, NEW b \in States
      PROVE  /\ <<a, b>> \in States \X States
             /\ <<a, b>> = <<state, to>> <=> a = state /\ b = to
  OBVIOUS
<1>4. transitions[<<state, to>>] \in Nat
  BY <1>1
<1>5. QED BY <1>1, <1>2, <1>3, <1>4

\* A call that is handled stays within the bound on calls.
LEMMA HandleBound == ASSUME TypeOK, Handle PROVE events' \in 0 .. MaxEvents
BY BoundAssumption DEF TypeOK, Handle

\* A duplicate changes nothing the invariant speaks of but acked.
LEMMA DuplicateKeeps ==
  ASSUME IndInv, Handle, NEW id \in Ids, Duplicate(id)
  PROVE  IndInv'
<1>1. id \in Commands
  BY DEF Duplicate, RegisterCommandLocked, Ids
<1>2. TypeOK'
  BY <1>1, HandleBound DEF IndInv, TypeOK, Duplicate
<1>3. TransientStatesInvisible' /\ SamplesMatchTransitions'
  BY DEF IndInv, TransientStatesInvisible, SamplesMatchTransitions, Duplicate
<1>4. AppliedAreRegistered'
  BY DEF IndInv, AppliedAreRegistered, Duplicate
<1>5. QED BY <1>2, <1>3, <1>4 DEF IndInv

\* Remembering an id keeps the registered ids among the commands.
LEMMA RememberType ==
  ASSUME TypeOK, NEW id \in Ids, Remember(id)
  PROVE  /\ processed_commands' \subseteq Commands
         /\ processed_commands \subseteq processed_commands'
BY DEF TypeOK, Remember, Ids

\* A rejected command preserves the invariant, provided the edge it counts is
\* not one that the latency samples are compared with.
LEMMA RejectKeeps ==
  ASSUME IndInv, Handle, NEW id \in Ids, NEW to \in States, Reject(id, to),
         ~(state = "Playing" /\ to = "Paused"),
         ~(state = "Paused" /\ to = "Playing")
  PROVE  IndInv'
<1> USE DEF IndInv
<1>1. /\ transitions' \in [States \X States -> Nat]
      /\ \A a, b \in States :
           transitions'[<<a, b>>] =
             transitions[<<a, b>>] + (IF a = state /\ b = to THEN 1 ELSE 0)
  BY RejectCounts
<1>2. /\ UNCHANGED <<state, current_pts, samples, applied, acked>>
      /\ Remember(id) /\ Count("illegal")
  BY DEF Reject
<1>3. total' \in [Counters -> Nat]
  BY <1>2 DEF TypeOK, Count, Counters
<1>4. TypeOK'
  BY <1>1, <1>2, <1>3, HandleBound, RememberType DEF TypeOK
<1>5. TransientStatesInvisible'
  BY <1>2 DEF TransientStatesInvisible
<1>6. /\ transitions'[<<"Playing", "Paused">>] = transitions[<<"Playing", "Paused">>]
      /\ transitions'[<<"Paused", "Playing">>] = transitions[<<"Paused", "Playing">>]
      /\ transitions'[<<"Stopping", "Idle">>] = transitions[<<"Stopping", "Idle">>]
  <2>1. {"Playing", "Paused", "Stopping", "Idle"} \subseteq States
    BY DEF States
  <2>2. state # "Stopping"
    BY DEF TransientStatesInvisible
  <2>3. \A a, b \in States : transitions[<<a, b>>] \in Nat
    BY DEF TypeOK
  <2>4. QED BY <1>1, <2>1, <2>2, <2>3
<1>7. SamplesMatchTransitions'
  BY <1>2, <1>6 DEF SamplesMatchTransitions
<1>8. AppliedAreRegistered'
  BY <1>2, RememberType DEF AppliedAreRegistered
<1>9. QED BY <1>4, <1>5, <1>7, <1>8

\* An accepted id was not registered, so it had not taken effect.
LEMMA AcceptKeeps ==
  ASSUME IndInv, NEW id \in Ids, Accept(id)
  PROVE  /\ AppliedAreRegistered'
         /\ processed_commands' \subseteq Commands
         /\ acked' \subseteq Commands
         /\ applied' \in [Commands -> Nat]
<1> USE DEF IndInv
<1>1. CASE id = NoId
  BY <1>1, CommandAssumption, RememberType DEF Accept, Remember, AppliedAreRegistered, TypeOK
<1>2. CASE id # NoId
  <2>1. id \in Commands /\ id \notin processed_commands
    BY <1>2 DEF Ids, Accept, RegisterCommandLocked
  <2>2. processed_commands' = processed_commands \cup {id}
    BY <1>2 DEF Accept, Remember
  <2>3. applied' = [applied EXCEPT ![id] = @ + 1] /\ applied \in [Commands -> Nat]
    BY <1>2 DEF Accept, TypeOK
  <2>4. applied[id] = 0
    BY <2>1 DEF AppliedAreRegistered
  <2>5. applied' = [applied EXCEPT ![id] = 1]
    BY <2>3, <2>4
  <2>6. AppliedAreRegistered'
    BY <2>1, <2>2, <2>3, <2>5 DEF AppliedAreRegistered
  <2>7. acked' \subseteq Commands
    BY <2>1 DEF Accept, TypeOK
  <2>8. QED BY <2>1, <2>2, <2>3, <2>5, <2>6, <2>7 DEF TypeOK
<1>3. QED BY <1>1, <1>2

-----------------------------------------------------------------------------
(* The inductive invariant.                                                *)

\* The initial state satisfies it.
LEMMA InitIndInv == Init => IndInv
<1> SUFFICES ASSUME Init PROVE IndInv
  OBVIOUS
<1>1. transitions \in [States \X States -> Nat]
  BY DEF Init
<1>2. \A a, b \in States : transitions[<<a, b>>] = 0
  <2>1. \A a, b \in States : <<a, b>> \in States \X States
    OBVIOUS
  <2>2. QED BY <2>1 DEF Init
<1>3. state \in States /\ state = "Idle"
  BY DEF Init, States
<1>4. applied \in [Commands -> Nat] /\ \A id \in Commands : applied[id] = 0
  BY DEF Init
<1>5. samples \in [Vectors -> Nat] /\ total \in [Counters -> Nat]
  BY DEF Init
<1>6. current_pts \in 0 .. MaxPts /\ events \in 0 .. MaxEvents
  BY BoundAssumption DEF Init
<1>7. processed_commands \subseteq Commands /\ acked \subseteq Commands
  BY DEF Init
<1>8. TypeOK
  BY <1>1, <1>3, <1>4, <1>5, <1>6, <1>7 DEF TypeOK
<1>9. TransientStatesInvisible
  BY <1>3 DEF TransientStatesInvisible
<1>10. AppliedAreRegistered
  <2>1. ASSUME NEW id \in Commands
        PROVE  applied[id] \in {0, 1} /\ applied[id] # 1
    <3>1. applied[id] = 0
      BY <1>4
    <3>2. QED BY <3>1
  <2>2. QED BY <2>1 DEF AppliedAreRegistered
<1>11. SamplesMatchTransitions
  BY <1>2 DEF Init, SamplesMatchTransitions, States, Vectors
<1>12. QED BY <1>8, <1>9, <1>10, <1>11 DEF IndInv

\* Facts shared by the steps of the handlers that reach another state: the
\* edges they count are the ones the samples are compared with, or neither.
LEMMA AcceptedStepKeeps ==
  ASSUME IndInv, Handle, TypeOK', state' \notin {"Ready", "Stopping"},
         AppliedAreRegistered',
         NEW edges, TransitionLocked(edges, state'),
         samples'["pause"] = samples["pause"]
           + (IF <<"Playing", "Paused">> \in edges THEN 1 ELSE 0),
         samples'["resume"] = samples["resume"]
           + (IF <<"Paused", "Playing">> \in edges THEN 1 ELSE 0),
         samples'["stop"] = samples["stop"]
           + (IF <<"Stopping", "Idle">> \in edges THEN 1 ELSE 0)
  PROVE  IndInv'
<1>1. \A a, b \in States :
        transitions'[<<a, b>>] =
          transitions[<<a, b>>] + (IF <<a, b>> \in edges /\ a # b THEN 1 ELSE 0)
  <2>1. state' \in States /\ TypeOK
    BY DEF IndInv, TypeOK
  <2>2. QED BY <2>1, TransitionCounts
<1>2. {"Playing", "Paused", "Stopping", "Idle"} \subseteq States
  BY DEF States
<1>3. SamplesMatchTransitions'
  BY <1>1, <1>2 DEF IndInv, SamplesMatchTransitions
<1>4. QED BY <1>3 DEF IndInv, TransientStatesInvisible

\* Recording a latency counts the sample of its own vector only.
LEMMA LatencyCounts ==
  ASSUME TypeOK, NEW v \in Vectors, NEW late \in BOOLEAN, RecordLatencyLocked(v, late)
  PROVE  /\ samples' \in [Vectors -> Nat]
         /\ total' \in [Counters -> Nat]
         /\ \A w \in Vectors : samples'[w] = samples[w] + (IF w = v THEN 1 ELSE 0)
<1>1. samples \in [Vectors -> Nat] /\ samples' = [samples EXCEPT ![v] = @ + 1]
  BY DEF TypeOK, RecordLatencyLocked
<1>2. total \in [Counters -> Nat] /\ "latency" \in Counters
  BY DEF TypeOK, Counters
<1>3. total' = [total EXCEPT !["latency"] = @ + (IF late THEN 1 ELSE 0)]
  BY DEF RecordLatencyLocked
<1>4. total["latency"] + (IF late THEN 1 ELSE 0) \in Nat
  BY <1>2
<1>5. total' \in [Counters -> Nat]
  BY <1>2, <1>3, <1>4
<1>6. QED BY <1>1, <1>5

\* The names of states and of vectors that the handlers mention.
LEMMA Names ==
  /\ {"Idle", "Buffering", "Ready", "Playing", "Paused", "Stopping", "Error"} = States
  /\ {"pause", "resume", "seek", "stop"} = Vectors
  /\ {"illegal", "latency", "timeout", "overflow", "recover", "lateSeek"} = Counters
BY DEF States, Vectors, Counters

\* Counting keeps the type of the counters.
LEMMA CountType ==
  ASSUME TypeOK, NEW n \in Counters, Count(n)
  PROVE  total' \in [Counters -> Nat]
BY DEF TypeOK, Count

-----------------------------------------------------------------------------
(* One lemma per command handler: a duplicate, a rejected and an accepted  *)
(* call each preserve the invariant.                                       *)

\* BeginSession.
LEMMA BeginSessionKeeps ==
  ASSUME IndInv, NEW id \in Ids, BeginSession(id)
  PROVE  IndInv'
<1>1. Handle /\ TypeOK
  BY DEF BeginSession, IndInv
<1>2. CASE Duplicate(id)
  BY <1>1, <1>2, DuplicateKeeps
<1>3. CASE state # "Idle" /\ Reject(id, "Buffering")
  BY <1>1, <1>3, Names, RejectKeeps
<1>4. CASE state = "Idle" /\ Accept(id) /\ ~Duplicate(id)
  <2>1. TransitionLocked({<<state, "Buffering">>}, "Buffering")
    BY <1>4 DEF BeginSession, Accept, Reject, Duplicate
  <2>2. UNCHANGED <<current_pts, samples, total>>
    BY <1>4 DEF BeginSession, Accept, Reject, Duplicate
  <2>3. samples' \in [Vectors -> Nat] /\ total' \in [Counters -> Nat]
    BY <1>1, <2>2 DEF TypeOK
  <2>4. state' = "Buffering" /\ state' \in States
    BY <2>1, Names DEF TransitionLocked
  <2>5. transitions' \in [States \X States -> Nat]
    BY <1>1, <2>1, <2>4, TransitionCounts
  <2>6. TypeOK'
    BY <1>1, <1>4, <2>2, <2>3, <2>4, <2>5, HandleBound, AcceptKeeps DEF TypeOK
  <2>7. \A v \in Vectors : samples[v] \in Nat
    BY <1>1 DEF TypeOK
  <2>8. state # "Stopping" /\ state # "Ready"
    BY DEF IndInv, TransientStatesInvisible
  <2> DEFINE edges == {<<state, "Buffering">>}
  <2>9. /\ samples'["pause"] = samples["pause"]
             + (IF <<"Playing", "Paused">> \in edges THEN 1 ELSE 0)
        /\ samples'["resume"] = samples["resume"]
             + (IF <<"Paused", "Playing">> \in edges THEN 1 ELSE 0)
        /\ samples'["stop"] = samples["stop"]
             + (IF <<"Stopping", "Idle">> \in edges THEN 1 ELSE 0)
    BY <1>4, <2>2, <2>3, <2>7, <2>8, Names
  <2>10. TransitionLocked(edges, state')
    BY <2>1, <2>4
  <2> HIDE DEF edges
  <2>11. QED
    BY <1>1, <1>4, <2>4, <2>6, <2>9, <2>10, AcceptKeeps, AcceptedStepKeeps
<1>5. QED BY <1>2, <1>3, <1>4 DEF BeginSession

\* Pause.
LEMMA PauseKeeps ==
  ASSUME IndInv, NEW id \in Ids, NEW late \in BOOLEAN, Pause(id, late)
  PROVE  IndInv'
<1>1. Handle /\ TypeOK
  BY DEF Pause, IndInv
<1>2. CASE Duplicate(id)
  BY <1>1, <1>2, DuplicateKeeps
<1>3. CASE state # "Playing" /\ Reject(id, "Paused")
  BY <1>1, <1>3, Names, RejectKeeps
<1>4. CASE state = "Playing" /\ Accept(id) /\ ~Duplicate(id)
  <2>1. TransitionLocked({<<state, "Paused">>}, "Paused")
    BY <1>4 DEF Pause, Accept, Reject, Duplicate
  <2>2. RecordLatencyLocked("pause", late) /\ UNCHANGED current_pts
    BY <1>4 DEF Pause, Accept, Reject, Duplicate
  <2>3. /\ samples' \in [Vectors -> Nat] /\ total' \in [Counters -> Nat]
        /\ \A w \in Vectors : samples'[w] = samples[w] + (IF w = "pause" THEN 1 ELSE 0)
    BY <1>1, <2>2, Names, LatencyCounts
  <2>4. state' = "Paused" /\ state' \in States
    BY <2>1, Names DEF TransitionLocked
  <2>5. transitions' \in [States \X States -> Nat]
    BY <1>1, <2>1, <2>4, TransitionCounts
  <2>6. TypeOK'
    BY <1>1, <1>4, <2>2, <2>3, <2>4, <2>5, HandleBound, AcceptKeeps DEF TypeOK
  <2>7. \A v \in Vectors : samples[v] \in Nat
    BY <1>1 DEF TypeOK
  <2>8. state # "Stopping" /\ state # "Ready"
    BY DEF IndInv, TransientStatesInvisible
  <2> DEFINE edges == {<<state, "Paused">>}
  <2>9. /\ samples'["pause"] = samples["pause"]
             + (IF <<"Playing", "Paused">> \in edges THEN 1 ELSE 0)
        /\ samples'["resume"] = samples["resume"]
             + (IF <<"Paused", "Playing">> \in edges THEN 1 ELSE 0)
        /\ samples'["stop"] = samples["stop"]
             + (IF <<"Stopping", "Idle">> \in edges THEN 1 ELSE 0)
    BY <1>4, <2>2, <2>3, <2>7, <2>8, Names
  <2>10. TransitionLocked(edges, state')
    BY <2>1, <2>4
  <2> HIDE DEF edges
  <2>11. QED
    BY <1>1, <1>4, <2>4, <2>6, <2>9, <2>10, AcceptKeeps, AcceptedStepKeeps
<1>5. QED BY <1>2, <1>3, <1>4 DEF Pause

\* Resume.
LEMMA ResumeKeeps ==
  ASSUME IndInv, NEW id \in Ids, NEW late \in BOOLEAN, Resume(id, late)
  PROVE  IndInv'
<1>1. Handle /\ TypeOK
  BY DEF Resume, IndInv
<1>2. CASE Duplicate(id)
  BY <1>1, <1>2, DuplicateKeeps
<1>3. CASE state # "Paused" /\ Reject(id, "Playing")
  BY <1>1, <1>3, Names, RejectKeeps
<1>4. CASE state = "Paused" /\ Accept(id) /\ ~Duplicate(id)
  <2>1. TransitionLocked({<<state, "Playing">>}, "Playing")
    BY <1>4 DEF Resume, Accept, Reject, Duplicate
  <2>2. RecordLatencyLocked("resume", late) /\ UNCHANGED current_pts
    BY <1>4 DEF Resume, Accept, Reject, Duplicate
  <2>3. /\ samples' \in [Vectors -> Nat] /\ total' \in [Counters -> Nat]
        /\ \A w \in Vectors : samples'[w] = samples[w] + (IF w = "resume" THEN 1 ELSE 0)
    BY <1>1, <2>2, Names, LatencyCounts
  <2>4. state' = "Playing" /\ state' \in States
    BY <2>1, Names DEF TransitionLocked
  <2>5. transitions' \in [States \X States -> Nat]
    BY <1>1, <2>1, <2>4, TransitionCounts
  <2>6. TypeOK'
    BY <1>1, <1>4, <2>2, <2>3, <2>4, <2>5, HandleBound, AcceptKeeps DEF TypeOK
  <2>7. \A v \in Vectors : samples[v] \in Nat
    BY <1>1 DEF TypeOK
  <2>8. state # "Stopping" /\ state # "Ready"
    BY DEF IndInv, TransientStatesInvisible
  <2> DEFINE edges == {<<state, "Playing">>}
  <2>9. /\ samples'["pause"] = samples["pause"]
             + (IF <<"Playing", "Paused">> \in edges THEN 1 ELSE 0)
        /\ samples'["resume"] = samples["resume"]
             + (IF <<"Paused", "Playing">> \in edges THEN 1 ELSE 0)
        /\ samples'["stop"] = samples["stop"]
             + (IF <<"Stopping", "Idle">> \in edges THEN 1 ELSE 0)
    BY <1>4, <2>2, <2>3, <2>7, <2>8, Names
  <2>10. TransitionLocked(edges, state')
    BY <2>1, <2>4
  <2> HIDE DEF edges
  <2>11. QED
    BY <1>1, <1>4, <2>4, <2>6, <2>9, <2>10, AcceptKeeps, AcceptedStepKeeps
<1>5. QED BY <1>2, <1>3, <1>4 DEF Resume

\* Stop.
LEMMA StopKeeps ==
  ASSUME IndInv, NEW id \in Ids, NEW late \in BOOLEAN, Stop(id, late)
  PROVE  IndInv'
<1>1. Handle /\ TypeOK
  BY DEF Stop, IndInv
<1>2. CASE Duplicate(id)
  BY <1>1, <1>2, DuplicateKeeps
<1>3. CASE state = "Idle" /\ Reject(id, "Stopping")
  BY <1>1, <1>3, Names, RejectKeeps
<1>4. CASE state # "Idle" /\ Accept(id) /\ ~Duplicate(id)
  <2>1. TransitionLocked({<<state, "Stopping">>, <<"Stopping", "Idle">>}, "Idle")
    BY <1>4 DEF Stop, Accept, Reject, Duplicate
  <2>2. RecordLatencyLocked("stop", late) /\ UNCHANGED current_pts
    BY <1>4 DEF Stop, Accept, Reject, Duplicate
  <2>3. /\ samples' \in [Vectors -> Nat] /\ total' \in [Counters -> Nat]
        /\ \A w \in Vectors : samples'[w] = samples[w] + (IF w = "stop" THEN 1 ELSE 0)
    BY <1>1, <2>2, Names, LatencyCounts
  <2>4. state' = "Idle" /\ state' \in States
    BY <2>1, Names DEF TransitionLocked
  <2>5. transitions' \in [States \X States -> Nat]
    BY <1>1, <2>1, <2>4, TransitionCounts
  <2>6. TypeOK'
    BY <1>1, <1>4, <2>2, <2>3, <2>4, <2>5, HandleBound, AcceptKeeps DEF TypeOK
  <2>7. \A v \in Vectors : samples[v] \in Nat
    BY <1>1 DEF TypeOK
  <2>8. state # "Stopping" /\ state # "Ready"
    BY DEF IndInv, TransientStatesInvisible
  <2> DEFINE edges == {<<state, "Stopping">>, <<"Stopping", "Idle">>}
  <2>9. /\ samples'["pause"] = samples["pause"]
             + (IF <<"Playing", "Paused">> \in edges THEN 1 ELSE 0)
        /\ samples'["resume"] = samples["resume"]
             + (IF <<"Paused", "Playing">> \in edges THEN 1 ELSE 0)
        /\ samples'["stop"] = samples["stop"]
             + (IF <<"Stopping", "Idle">> \in edges THEN 1 ELSE 0)
    BY <1>4, <2>2, <2>3, <2>7, <2>8, Names
  <2>10. TransitionLocked(edges, state')
    BY <2>1, <2>4
  <2> HIDE DEF edges
  <2>11. QED
    BY <1>1, <1>4, <2>4, <2>6, <2>9, <2>10, AcceptKeeps, AcceptedStepKeeps
<1>5. QED BY <1>2, <1>3, <1>4 DEF Stop

\* Recover.
LEMMA RecoverKeeps ==
  ASSUME IndInv, NEW id \in Ids, Recover(id)
  PROVE  IndInv'
<1>1. Handle /\ TypeOK
  BY DEF Recover, IndInv
<1>2. CASE Duplicate(id)
  BY <1>1, <1>2, DuplicateKeeps
<1>3. CASE state # "Error" /\ Reject(id, "Buffering")
  BY <1>1, <1>3, Names, RejectKeeps
<1>4. CASE state = "Error" /\ Accept(id) /\ ~Duplicate(id)
  <2>1. TransitionLocked({<<state, "Buffering">>}, "Buffering")
    BY <1>4 DEF Recover, Accept, Reject, Duplicate
  <2>2. Count("recover") /\ UNCHANGED <<current_pts, samples>>
    BY <1>4 DEF Recover, Accept, Reject, Duplicate
  <2>3. samples' \in [Vectors -> Nat] /\ total' \in [Counters -> Nat]
    BY <1>1, <2>2, Names, CountType DEF TypeOK
  <2>4. state' = "Buffering" /\ state' \in States
    BY <2>1, Names DEF TransitionLocked
  <2>5. transitions' \in [States \X States -> Nat]
    BY <1>1, <2>1, <2>4, TransitionCounts
  <2>6. TypeOK'
    BY <1>1, <1>4, <2>2, <2>3, <2>4, <2>5, HandleBound, AcceptKeeps DEF TypeOK
  <2>7. \A v \in Vectors : samples[v] \in Nat
    BY <1>1 DEF TypeOK
  <2>8. state # "Stopping" /\ state # "Ready"
    BY DEF IndInv, TransientStatesInvisible
  <2> DEFINE edges == {<<state, "Buffering">>}
  <2>9. /\ samples'["pause"] = samples["pause"]
             + (IF <<"Playing", "Paused">> \in edges THEN 1 ELSE 0)
        /\ samples'["resume"] = samples["resume"]
             + (IF <<"Paused", "Playing">> \in edges THEN 1 ELSE 0)
        /\ samples'["stop"] = samples["stop"]
             + (IF <<"Stopping", "Idle">> \in edges THEN 1 ELSE 0)
    BY <1>4, <2>2, <2>3, <2>7, <2>8, Names
  <2>10. TransitionLocked(edges, state')
    BY <2>1, <2>4
  <2> HIDE DEF edges
  <2>11. QED
    BY <1>1, <1>4, <2>4, <2>6, <2>9, <2>10, AcceptKeeps, AcceptedStepKeeps
<1>5. QED BY <1>2, <1>3, <1>4 DEF Recover

\* Seek, which also has a late outcome and a path of three edges.
LEMMA SeekKeeps ==
  ASSUME IndInv, NEW id \in Ids, NEW late \in BOOLEAN, NEW target \in 0 .. MaxPts,
         Seek(id, target, late)
  PROVE  IndInv'
<1>1. Handle /\ TypeOK
  BY DEF Seek, IndInv
<1>2. CASE Duplicate(id)
  BY <1>1, <1>2, DuplicateKeeps
<1>3. CASE /\ Remember(id) /\ Count("lateSeek")
           /\ UNCHANGED <<state, current_pts, transitions, samples, applied, acked>>
  <2>1. total' \in [Counters -> Nat]
    BY <1>1, <1>3, Names, CountType
  <2>2. TypeOK'
    BY <1>1, <1>3, <2>1, HandleBound, RememberType DEF TypeOK
  <2>3. TransientStatesInvisible' /\ SamplesMatchTransitions'
    BY <1>3 DEF IndInv, TransientStatesInvisible, SamplesMatchTransitions
  <2>4. AppliedAreRegistered'
    BY <1>1, <1>3, RememberType DEF IndInv, AppliedAreRegistered
  <2>5. QED BY <2>2, <2>3, <2>4 DEF IndInv
<1>4. CASE state \notin {"Playing", "Paused"} /\ Reject(id, "Buffering")
  BY <1>1, <1>4, Names, RejectKeeps
<1>5. CASE /\ Accept(id) /\ RecordLatencyLocked("seek", late)
           /\ TransitionLocked({<<state, "Buffering">>, <<"Buffering", "Ready">>,
                                <<"Ready", "Playing">>}, "Playing")
           /\ current_pts' = target
  <2> DEFINE edges == {<<state, "Buffering">>, <<"Buffering", "Ready">>,
                       <<"Ready", "Playing">>}
  <2>1. /\ samples' \in [Vectors -> Nat] /\ total' \in [Counters -> Nat]
        /\ \A w \in Vectors : samples'[w] = samples[w] + (IF w = "seek" THEN 1 ELSE 0)
    BY <1>1, <1>5, Names, LatencyCounts
  <2>2. state' = "Playing" /\ state' \in States
    BY <1>5, Names DEF TransitionLocked
  <2>3. transitions' \in [States \X States -> Nat]
    BY <1>1, <1>5, <2>2, TransitionCounts
  <2>4. TypeOK'
    BY <1>1, <1>5, <2>1, <2>2, <2>3, HandleBound, AcceptKeeps DEF TypeOK
  <2>5. \A v \in Vectors : samples[v] \in Nat
    BY <1>1 DEF TypeOK
  <2>6. /\ <<"Playing", "Paused">> \notin edges
        /\ <<"Paused", "Playing">> \notin edges
        /\ <<"Stopping", "Idle">> \notin edges
    OBVIOUS
  <2>7. TransitionLocked(edges, state')
    BY <1>5, <2>2
  <2> HIDE DEF edges
  <2>8. /\ samples'["pause"] = samples["pause"]
             + (IF <<"Playing", "Paused">> \in edges THEN 1 ELSE 0)
        /\ samples'["resume"] = samples["resume"]
             + (IF <<"Paused", "Playing">> \in edges THEN 1 ELSE 0)
        /\ samples'["stop"] = samples["stop"]
             + (IF <<"Stopping", "Idle">> \in edges THEN 1 ELSE 0)
    BY <2>1, <2>5, <2>6, Names
  <2>9. QED
    BY <1>1, <1>5, <2>2, <2>4, <2>7, <2>8, AcceptKeeps, AcceptedStepKeeps
<1>6. QED BY <1>2, <1>3, <1>4, <1>5 DEF Seek

-----------------------------------------------------------------------------
(* The event handlers and the inductive step.                              *)

\* An event that leaves commands and samples alone and follows edges that the
\* samples are not compared with, or none, preserves the invariant.
LEMMA EventKeeps ==
  ASSUME IndInv, Handle, total' \in [Counters -> Nat],
         UNCHANGED <<processed_commands, current_pts, samples, applied, acked>>,
         \/ UNCHANGED <<state, transitions>>
         \/ /\ state' \in States \ {"Ready", "Stopping"}
            /\ \E edges : /\ TransitionLocked(edges, state')
                          /\ <<"Playing", "Paused">> \notin edges
                          /\ <<"Paused", "Playing">> \notin edges
                          /\ <<"Stopping", "Idle">> \notin edges
  PROVE  IndInv'
<1>1. TypeOK
  BY DEF IndInv
<1>2. AppliedAreRegistered'
  BY DEF IndInv, AppliedAreRegistered
<1>3. CASE UNCHANGED <<state, transitions>>
  <2>1. TypeOK'
    BY <1>1, <1>3, HandleBound DEF TypeOK
  <2>2. TransientStatesInvisible' /\ SamplesMatchTransitions'
    BY <1>3 DEF IndInv, TransientStatesInvisible, SamplesMatchTransitions
  <2>3. QED BY <1>2, <2>1, <2>2 DEF IndInv
<1>4. ASSUME NEW edges, state' \in States \ {"Ready", "Stopping"},
             TransitionLocked(edges, state'),
             <<"Playing", "Paused">> \notin edges,
             <<"Paused", "Playing">> \notin edges,
             <<"Stopping", "Idle">> \notin edges
      PROVE  IndInv'
  <2>1. transitions' \in [States \X States -> Nat]
    BY <1>1, <1>4, TransitionCounts
  <2>2. TypeOK'
    BY <1>1, <1>4, <2>1, HandleBound DEF TypeOK
  <2>3. \A v \in Vectors : samples[v] \in Nat
    BY <1>1 DEF TypeOK
  <2>4. /\ samples'["pause"] = samples["pause"]
             + (IF <<"Playing", "Paused">> \in edges THEN 1 ELSE 0)
        /\ samples'["resume"] = samples["resume"]
             + (IF <<"Paused", "Playing">> \in edges THEN 1 ELSE 0)
        /\ samples'["stop"] = samples["stop"]
             + (IF <<"Stopping", "Idle">> \in edges THEN 1 ELSE 0)
    BY <1>4, <2>3, Names
  <2>5. QED
    BY <1>2, <1>4, <2>2, <2>4, AcceptedStepKeeps
<1>5. QED BY <1>3, <1>4

\* Every handler call preserves the invariant.
LEMMA StepIndInv == IndInv /\ [Next]_vars => IndInv'
<1> SUFFICES ASSUME IndInv, [Next]_vars PROVE IndInv'
  OBVIOUS
<1>1. TypeOK
  BY DEF IndInv
<1>2. ASSUME NEW id \in Ids, Command(id) PROVE IndInv'
  BY <1>2, BeginSessionKeeps, RecoverKeeps, PauseKeeps, ResumeKeeps, StopKeeps, SeekKeeps
     DEF Command
<1>3. ASSUME NEW depth \in Depths, NEW capacity \in {0, 1}, OnBufferDepth(depth, capacity)
      PROVE  IndInv'
  <2>1. Handle /\ UNCHANGED <<processed_commands, current_pts, samples, total, applied, acked>>
    BY <1>3 DEF OnBufferDepth
  <2>2. total' \in [Counters -> Nat]
    BY <1>1, <1>3 DEF OnBufferDepth, TypeOK
  <2>3. CASE UNCHANGED <<state, transitions>>
    BY <2>1, <2>2, <2>3, EventKeeps
  <2>4. CASE TransitionLocked({<<"Buffering", "Ready">>, <<"Ready", "Playing">>}, "Playing")
    <3>1. state' = "Playing" BY <2>4 DEF TransitionLocked
    <3>2. QED BY <2>1, <2>2, <2>4, <3>1, Names, EventKeeps
  <2>5. CASE TransitionLocked({<<"Playing", "Buffering">>}, "Buffering")
    <3>1. state' = "Buffering" BY <2>5 DEF TransitionLocked
    <3>2. QED BY <2>1, <2>2, <2>5, <3>1, Names, EventKeeps
  <2>6. QED BY <1>3, <2>3, <2>4, <2>5 DEF OnBufferDepth
<1>4. ASSUME NEW event, OnBackPressureEvent(event) PROVE IndInv'
  <2>1. Handle /\ UNCHANGED <<processed_commands, current_pts, samples, applied, acked>>
    BY <1>4 DEF OnBackPressureEvent
  <2>2. total' \in [Counters -> Nat]
    BY <1>1, <1>4, Names, CountType DEF OnBackPressureEvent, TypeOK
  <2>3. CASE UNCHANGED <<state, transitions>>
    BY <2>1, <2>2, <2>3, EventKeeps
  <2>4. CASE TransitionLocked({<<"Playing", "Buffering">>}, "Buffering")
    <3>1. state' = "Buffering" BY <2>4 DEF TransitionLocked
    <3>2. QED BY <2>1, <2>2, <2>4, <3>1, Names, EventKeeps
  <2>5. QED BY <1>4, <2>3, <2>4 DEF OnBackPressureEvent
<1>5. CASE OnBackPressureCleared
  <2>1. /\ Handle
        /\ UNCHANGED <<processed_commands, current_pts, samples, total, applied, acked>>
    BY <1>5 DEF OnBackPressureCleared
  <2>2. total' \in [Counters -> Nat]
    BY <1>1, <2>1 DEF TypeOK
  <2>3. CASE UNCHANGED <<state, transitions>>
    BY <2>1, <2>2, <2>3, EventKeeps
  <2>4. CASE TransitionLocked({<<"Buffering", "Ready">>, <<"Ready", "Playing">>}, "Playing")
    <3>1. state' = "Playing" BY <2>4 DEF TransitionLocked
    <3>2. QED BY <2>1, <2>2, <2>4, <3>1, Names, EventKeeps
  <2>5. QED BY <1>5, <2>3, <2>4 DEF OnBackPressureCleared
<1>6. CASE OnExternalTimeout
  <2>1. total' \in [Counters -> Nat]
    BY <1>1, <1>6, Names, CountType DEF OnExternalTimeout, TypeOK
  <2>2. state' = "Error" /\ TransitionLocked({<<state, "Error">>}, "Error")
    BY <1>6 DEF OnExternalTimeout, TransitionLocked
  <2>3. QED BY <1>6, <2>1, <2>2, Names, EventKeeps DEF OnExternalTimeout
<1>7. CASE OnQueueOverflow
  <2>1. total' \in [Counters -> Nat]
    BY <1>1, <1>7, Names, CountType DEF OnQueueOverflow, TypeOK
  <2>2. QED BY <1>7, <2>1, EventKeeps DEF OnQueueOverflow
<1>8. CASE UNCHANGED vars
  <2>1. TypeOK'
    BY <1>1, <1>8 DEF TypeOK, vars
  <2>2. QED BY <1>8, <2>1
     DEF vars, IndInv, TransientStatesInvisible, SamplesMatchTransitions, AppliedAreRegistered
<1>9. QED BY <1>2, <1>3, <1>4, <1>5, <1>6, <1>7, <1>8 DEF Next, Event

\* The invariant the theorems below are read off from: types, no transient
\* state between calls, samples in step with the counted edges, and an
\* applied id registered.
THEOREM IndInvHolds == Spec => []IndInv
<1>1. QED BY InitIndInv, StepIndInv, PTL DEF Spec

\* Every field of the control state stays in its domain, for every set of
\* command ids and every number of calls.
THEOREM TypeCorrect == Spec => []TypeOK
<1>1. IndInv => TypeOK
  BY DEF IndInv
<1>2. QED BY <1>1, IndInvHolds, PTL

\* Ready and Stopping are never the state another thread reads.
THEOREM NoTransientState == Spec => []TransientStatesInvisible
<1>1. IndInv => TransientStatesInvisible
  BY DEF IndInv
<1>2. QED BY <1>1, IndInvHolds, PTL

\* Pause, resume and stop samples match the edges in the transition map.
THEOREM SamplesAgree == Spec => []SamplesMatchTransitions
<1>1. IndInv => SamplesMatchTransitions
  BY DEF IndInv
<1>2. QED BY <1>1, IndInvHolds, PTL

\* No resending of a command id makes it take effect twice.
THEOREM CommandsOnce == Spec => []EffectAtMostOnce
<1>1. IndInv => EffectAtMostOnce
  <2>1. ASSUME IndInv, NEW id \in Commands PROVE applied[id] <= 1
    <3>1. applied[id] = 0 \/ applied[id] = 1
      BY <2>1 DEF IndInv, AppliedAreRegistered
    <3>2. QED BY <3>1
  <2>2. QED BY <2>1 DEF EffectAtMostOnce
<1>2. QED BY <1>1, IndInvHolds, PTL

\* No event, and no command but Recover and Stop, takes a channel out of
\* Error, and each of the two leaves its own trace in the telemetry.
THEOREM ErrorIsSticky == Spec => ErrorLeftOnlyByCommand
<1>1. ASSUME TypeOK, [Next]_vars, state = "Error", state' # "Error"
      PROVE  \/ state' = "Buffering" /\ total'["recover"] = total["recover"] + 1
             \/ state' = "Idle" /\ samples'["stop"] = samples["stop"] + 1
  <2> USE <1>1
  <2>1. state' # state
    OBVIOUS
  <2>2. ASSUME NEW id \in Ids, Command(id)
        PROVE  Recover(id) \/ \E late \in BOOLEAN : Stop(id, late)
    BY <2>1, <2>2 DEF Command, BeginSession, Pause, Resume, Seek, Reject, Duplicate
  <2>3. ASSUME NEW id \in Ids, Recover(id)
        PROVE  state' = "Buffering" /\ total'["recover"] = total["recover"] + 1
    <3>1. TransitionLocked({<<state, "Buffering">>}, "Buffering") /\ Count("recover")
      BY <2>1, <2>3 DEF Recover, Duplicate
    <3>2. total \in [Counters -> Nat]
      BY DEF TypeOK
    <3>3. QED BY <3>1, <3>2, Names DEF TransitionLocked, Count
  <2>4. ASSUME NEW id \in Ids, NEW late \in BOOLEAN, Stop(id, late)
        PROVE  state' = "Idle" /\ samples'["stop"] = samples["stop"] + 1
    <3>1. RecordLatencyLocked("stop", late) /\ state' = "Idle"
      BY <2>1, <2>4 DEF Stop, Duplicate, TransitionLocked
    <3>2. samples \in [Vectors -> Nat]
      BY DEF TypeOK
    <3>3. QED BY <3>1, <3>2, Names DEF RecordLatencyLocked
  <2>5. ~Event
    BY <2>1 DEF Event, OnBufferDepth, OnBackPressureEvent, OnBackPressureCleared,
                OnExternalTimeout, OnQueueOverflow, TransitionLocked
  <2>6. QED BY <2>1, <2>2, <2>3, <2>4, <2>5 DEF Next, vars
<1>2. TypeOK /\ [Next]_vars =>
        [state = "Error" /\ state' # "Error"
           => \/ state' = "Buffering" /\ total'["recover"] = total["recover"] + 1
              \/ state' = "Idle" /\ samples'["stop"] = samples["stop"] + 1]_vars
  BY <1>1
<1>3. QED BY <1>2, TypeCorrect, PTL DEF Spec, ErrorLeftOnlyByCommand

-----------------------------------------------------------------------------
(* The counted edges as a walk.                                            *)

\* Edges into and out of a state, for any map of counted edges.
InOfMap(t, s) ==
  t[<<"Idle", s>>] + t[<<"Buffering", s>>] + t[<<"Ready", s>>] + t[<<"Playing", s>>]
  + t[<<"Paused", s>>] + t[<<"Stopping", s>>] + t[<<"Error", s>>]
OutOfMap(t, s) ==
  t[<<s, "Idle">>] + t[<<s, "Buffering">>] + t[<<s, "Ready">>] + t[<<s, "Playing">>]
  + t[<<s, "Paused">>] + t[<<s, "Stopping">>] + t[<<s, "Error">>]
Maps == [States \X States -> Nat]

\* A walk from Idle to this state.
WalkTo(t, to) ==
  \A s \in States :
    InOfMap(t, s) - OutOfMap(t, s) = (IF s = to THEN 1 ELSE 0) - (IF s = "Idle" THEN 1 ELSE 0)

\* u counts one edge more than t, if the edge changes the state.
OneMore(t, u, a, b) ==
  \A x, y \in States :
    u[<<x, y>>] = t[<<x, y>>] + (IF x = a /\ y = b /\ a # b THEN 1 ELSE 0)

\* Counting one edge raises the entries into its target, unless it is a loop.
LEMMA InAfterEdge ==
  ASSUME NEW t \in Maps, NEW u \in Maps, NEW a \in States, NEW b \in States,
         OneMore(t, u, a, b), NEW s \in States
  PROVE  InOfMap(u, s) = InOfMap(t, s) + (IF s = b /\ a # b THEN 1 ELSE 0)
<1>1. \A x \in States : t[<<x, s>>] \in Nat /\ u[<<x, s>>] \in Nat
  BY DEF Maps
<1>2. CASE s = b /\ a # b
  <2>1. \A x \in States : u[<<x, s>>] = t[<<x, s>>] + (IF x = a THEN 1 ELSE 0)
    BY <1>2 DEF OneMore
  <2> QED
    BY <1>1, <1>2, <2>1 DEF States, InOfMap
<1>3. CASE ~(s = b /\ a # b)
  <2>1. \A x \in States : u[<<x, s>>] = t[<<x, s>>]
    BY <1>1, <1>3 DEF OneMore
  <2> QED
    BY <1>1, <1>3, <2>1 DEF States, InOfMap
<1> QED
  BY <1>2, <1>3

\* Counting one edge raises the exits from its source, unless it is a loop.
LEMMA OutAfterEdge ==
  ASSUME NEW t \in Maps, NEW u \in Maps, NEW a \in States, NEW b \in States,
         OneMore(t, u, a, b), NEW s \in States
  PROVE  OutOfMap(u, s) = OutOfMap(t, s) + (IF s = a /\ a # b THEN 1 ELSE 0)
<1>1. \A y \in States : t[<<s, y>>] \in Nat /\ u[<<s, y>>] \in Nat
  BY DEF Maps
<1>2. CASE s = a /\ a # b
  <2>1. \A y \in States : u[<<s, y>>] = t[<<s, y>>] + (IF y = b THEN 1 ELSE 0)
    BY <1>2 DEF OneMore
  <2> QED
    BY <1>1, <1>2, <2>1 DEF States, OutOfMap
<1>3. CASE ~(s = a /\ a # b)
  <2>1. \A y \in States : u[<<s, y>>] = t[<<s, y>>]
    BY <1>1, <1>3 DEF OneMore
  <2> QED
    BY <1>1, <1>3, <2>1 DEF States, OutOfMap
<1> QED
  BY <1>2, <1>3

\* An edge from where a walk ends makes it a walk to where the edge ends.
LEMMA WalkGoesOn ==
  ASSUME NEW t \in Maps, NEW u \in Maps, NEW a \in States, NEW b \in States,
         OneMore(t, u, a, b), WalkTo(t, a)
  PROVE  WalkTo(u, b)
<1>1. SUFFICES ASSUME NEW s \in States
               PROVE  InOfMap(u, s) - OutOfMap(u, s)
                        = (IF s = b THEN 1 ELSE 0) - (IF s = "Idle" THEN 1 ELSE 0)
  BY DEF WalkTo
<1>2. InOfMap(t, s) \in Nat /\ OutOfMap(t, s) \in Nat
  <2>1. \A x \in States : t[<<x, s>>] \in Nat /\ t[<<s, x>>] \in Nat
    BY DEF Maps
  <2>2. \A c, d, e, f, g, h, i \in Nat : c + d + e + f + g + h + i \in Nat
    OBVIOUS
  <2> QED
    BY <2>1, <2>2 DEF InOfMap, OutOfMap, States
<1>3. /\ InOfMap(u, s) = InOfMap(t, s) + (IF s = b /\ a # b THEN 1 ELSE 0)
      /\ OutOfMap(u, s) = OutOfMap(t, s) + (IF s = a /\ a # b THEN 1 ELSE 0)
      /\ InOfMap(t, s) - OutOfMap(t, s) = (IF s = a THEN 1 ELSE 0) - (IF s = "Idle" THEN 1 ELSE 0)
  BY InAfterEdge, OutAfterEdge DEF WalkTo
<1> HIDE DEF InOfMap, OutOfMap
<1>4. CASE a = b
  BY <1>2, <1>3, <1>4
<1>5. CASE a # b /\ s = b
  BY <1>2, <1>3, <1>5
<1>6. CASE a # b /\ s # b
  BY <1>2, <1>3, <1>6
<1> QED
  BY <1>4, <1>5, <1>6

\* The map with one edge more.
Counting(t, a, b) ==
  [e \in States \X States |-> t[e] + (IF e = <<a, b>> /\ a # b THEN 1 ELSE 0)]

\* The counter of one edge goes up by one, the others stay.
LEMMA CountingIsOneMore ==
  ASSUME NEW t \in Maps, NEW a \in States, NEW b \in States
  PROVE  Counting(t, a, b) \in Maps /\ OneMore(t, Counting(t, a, b), a, b)
<1>1. \A e \in States \X States : t[e] + (IF e = <<a, b>> /\ a # b THEN 1 ELSE 0) \in Nat
  BY DEF Maps
<1>2. \A x, y \in States : <<x, y>> \in States \X States /\ (<<x, y>> = <<a, b>> <=> x = a /\ y = b)
  OBVIOUS
<1> QED
  BY <1>1, <1>2 DEF Counting, Maps, OneMore

\* The edges of a handler form a path of one, two or three edges that begins in the
\* present state and turns back to no state between its ends.
Path(from, edges, to) ==
  /\ to \in States
  /\ \/ edges = {<<from, to>>}
     \/ \E m \in States \ {from, to} : edges = {<<from, m>>, <<m, to>>}
     \/ \E m, n \in States \ {from, to} :
          m # n /\ edges = {<<from, m>>, <<m, n>>, <<n, to>>}

\* The edges a handler takes continue the walk to the state it ends in.
LEMMA PathExtendsWalk ==
  ASSUME TypeOK, NEW edges, NEW to, Path(state, edges, to), TransitionLocked(edges, to),
         WalkTo(transitions, state)
  PROVE  WalkTo(transitions', to)
<1> DEFINE t == transitions
           u == transitions'
           a == state
<1>1. t \in Maps /\ a \in States /\ to \in States
  BY DEF TypeOK, Maps, Path
<1>2. /\ u \in Maps
      /\ \A x, y \in States :
           u[<<x, y>>] = t[<<x, y>>] + (IF <<x, y>> \in edges /\ x # y THEN 1 ELSE 0)
  BY <1>1, TransitionCounts DEF Maps
<1>3. WalkTo(t, a)
  OBVIOUS
<1>4. \A x, y \in States : t[<<x, y>>] \in Nat
  BY <1>1 DEF Maps
<1>5. \/ edges = {<<a, to>>}
      \/ \E m \in States \ {a, to} : edges = {<<a, m>>, <<m, to>>}
      \/ \E m, n \in States \ {a, to} : m # n /\ edges = {<<a, m>>, <<m, n>>, <<n, to>>}
  BY DEF Path
<1> HIDE DEF t, u, a
<1>6. CASE edges = {<<a, to>>}
  <2>1. \A x, y \in States : <<x, y>> \in edges <=> x = a /\ y = to
    BY <1>6
  <2>2. OneMore(t, u, a, to)
    BY <1>2, <2>1 DEF OneMore
  <2> QED
    BY <1>1, <1>2, <1>3, <2>2, WalkGoesOn DEF u
<1>7. ASSUME NEW m \in States \ {a, to}, edges = {<<a, m>>, <<m, to>>}
      PROVE  WalkTo(u, to)
  <2> DEFINE v == Counting(t, a, m)
  <2>1. v \in Maps /\ OneMore(t, v, a, m)
    BY <1>1, CountingIsOneMore
  <2>2. \A x, y \in States : <<x, y>> \in edges <=> (x = a /\ y = m) \/ (x = m /\ y = to)
    BY <1>7
  <2> HIDE DEF v
  <2>3. OneMore(v, u, m, to)
    <3>1. SUFFICES ASSUME NEW x \in States, NEW y \in States
                   PROVE  u[<<x, y>>] = v[<<x, y>>] + (IF x = m /\ y = to /\ m # to THEN 1 ELSE 0)
      BY DEF OneMore
    <3>2. /\ t[<<x, y>>] \in Nat /\ a # m /\ m # to
          /\ v[<<x, y>>] = t[<<x, y>>] + (IF x = a /\ y = m /\ a # m THEN 1 ELSE 0)
          /\ u[<<x, y>>] = t[<<x, y>>] + (IF <<x, y>> \in edges /\ x # y THEN 1 ELSE 0)
      BY <1>2, <1>4, <2>1 DEF OneMore
    <3>3. CASE x = a /\ y = m
      BY <2>2, <3>2, <3>3
    <3>4. CASE x = m /\ y = to
      BY <2>2, <3>2, <3>4
    <3>5. CASE ~(x = a /\ y = m) /\ ~(x = m /\ y = to)
      BY <2>2, <3>2, <3>5
    <3> QED
      BY <3>3, <3>4, <3>5
  <2>4. WalkTo(v, m)
    BY <1>1, <1>3, <2>1, WalkGoesOn
  <2> QED
    BY <1>1, <1>2, <2>1, <2>3, <2>4, WalkGoesOn
<1>8. ASSUME NEW m \in States \ {a, to}, NEW n \in States \ {a, to}, m # n,
             edges = {<<a, m>>, <<m, n>>, <<n, to>>}
      PROVE  WalkTo(u, to)
  <2> DEFINE v == Counting(t, a, m)
             w == Counting(v, m, n)
  <2>1. v \in Maps /\ OneMore(t, v, a, m)
    BY <1>1, CountingIsOneMore
  <2> HIDE DEF v
  <2>2. w \in Maps /\ OneMore(v, w, m, n)
    BY <2>1, CountingIsOneMore
  <2> HIDE DEF w
  <2>3. \A x, y \in States :
          <<x, y>> \in edges <=> (x = a /\ y = m) \/ (x = m /\ y = n) \/ (x = n /\ y = to)
    BY <1>8
  <2>4. OneMore(w, u, n, to)
    <3>1. SUFFICES ASSUME NEW x \in States, NEW y \in States
                   PROVE  u[<<x, y>>] = w[<<x, y>>] + (IF x = n /\ y = to /\ n # to THEN 1 ELSE 0)
      BY DEF OneMore
    <3>2. /\ t[<<x, y>>] \in Nat /\ a # m /\ m # n /\ n # a /\ n # to /\ m # to
          /\ v[<<x, y>>] = t[<<x, y>>] + (IF x = a /\ y = m /\ a # m THEN 1 ELSE 0)
          /\ w[<<x, y>>] = v[<<x, y>>] + (IF x = m /\ y = n /\ m # n THEN 1 ELSE 0)
          /\ u[<<x, y>>] = t[<<x, y>>] + (IF <<x, y>> \in edges /\ x # y THEN 1 ELSE 0)
      BY <1>2, <1>4, <1>8, <2>1, <2>2 DEF OneMore
    <3>3. CASE x = a /\ y = m
      BY <2>3, <3>2, <3>3
    <3>4. CASE x = m /\ y = n
      BY <2>3, <3>2, <3>4
    <3>5. CASE x = n /\ y = to
      BY <2>3, <3>2, <3>5
    <3>6. CASE ~(x = a /\ y = m) /\ ~(x = m /\ y = n) /\ ~(x = n /\ y = to)
      BY <2>3, <3>2, <3>6
    <3> QED
      BY <3>3, <3>4, <3>5, <3>6
  <2>5. WalkTo(v, m)
    BY <1>1, <1>3, <2>1, WalkGoesOn
  <2>6. WalkTo(w, n)
    BY <2>1, <2>2, <2>5, WalkGoesOn
  <2> QED
    BY <1>1, <1>2, <2>2, <2>4, <2>6, WalkGoesOn
<1> QED
  BY <1>5, <1>6, <1>7, <1>8 DEF u

\* The property in terms of the present state.
LEMMA WalkIs == IsWalk <=> WalkTo(transitions, state)
BY DEF IsWalk, WalkTo, InOf, OutOf, InOfMap, OutOfMap

\* What a step does to the walk: nothing, a path from the present state, or a rejection,
\* which is counted.
TakesPath ==
  \E edges, to : Path(state, edges, to) /\ TransitionLocked(edges, to)
WalkStep ==
  \/ total'["illegal"] = total["illegal"] + 1
  \/ total'["illegal"] = total["illegal"] /\ (TakesPath \/ UNCHANGED <<state, transitions>>)

\* A rejected command is excepted by the property.
LEMMA RejectWalks ==
  ASSUME TypeOK, NEW id, NEW to, Reject(id, to)
  PROVE  WalkStep
BY Names DEF TypeOK, Reject, Count, WalkStep

\* A duplicate takes no edge.
LEMMA DuplicateWalks ==
  ASSUME TypeOK, NEW id, Duplicate(id)
  PROVE  WalkStep
BY DEF Duplicate, WalkStep

\* Other counters and latency samples leave the count of rejected edges alone.
LEMMA OtherCounters ==
  ASSUME TypeOK
  PROVE  /\ \A n \in Counters \ {"illegal"} : Count(n) => total'["illegal"] = total["illegal"]
         /\ \A v, late : RecordLatencyLocked(v, late) => total'["illegal"] = total["illegal"]
BY Names DEF TypeOK, Count, RecordLatencyLocked

\* A single edge from the present state is a path.
LEMMA OneEdge ==
  ASSUME NEW to \in States, TransitionLocked({<<state, to>>}, to)
  PROVE  TakesPath
BY DEF TakesPath, Path

\* Every command takes a path from the present state or is rejected.
LEMMA CommandWalks ==
  ASSUME IndInv, NEW id \in Ids, Command(id)
  PROVE  WalkStep
<1>0. TypeOK /\ state \in States /\ state \notin {"Ready", "Stopping"}
  BY DEF IndInv, TypeOK, TransientStatesInvisible
<1>1. {"Buffering", "Paused", "Playing", "Idle", "Ready", "Stopping"} \subseteq States
  BY Names
<1>2. CASE BeginSession(id)
  <2>1. CASE Accept(id) /\ TransitionLocked({<<state, "Buffering">>}, "Buffering") /\ UNCHANGED total
    BY <1>1, <2>1, OneEdge DEF WalkStep
  <2> QED
    BY <1>0, <1>2, <2>1, DuplicateWalks, RejectWalks DEF BeginSession
<1>3. ASSUME NEW late \in BOOLEAN, Pause(id, late) PROVE WalkStep
  <2>1. CASE RecordLatencyLocked("pause", late) /\ TransitionLocked({<<state, "Paused">>}, "Paused")
    BY <1>0, <1>1, <2>1, OneEdge, OtherCounters DEF WalkStep
  <2> QED
    BY <1>0, <1>3, <2>1, DuplicateWalks, RejectWalks DEF Pause
<1>4. ASSUME NEW late \in BOOLEAN, Resume(id, late) PROVE WalkStep
  <2>1. CASE RecordLatencyLocked("resume", late) /\ TransitionLocked({<<state, "Playing">>}, "Playing")
    BY <1>0, <1>1, <2>1, OneEdge, OtherCounters DEF WalkStep
  <2> QED
    BY <1>0, <1>4, <2>1, DuplicateWalks, RejectWalks DEF Resume
<1>5. ASSUME NEW late \in BOOLEAN, Stop(id, late) PROVE WalkStep
  <2> DEFINE edges == {<<state, "Stopping">>, <<"Stopping", "Idle">>}
  <2>1. CASE /\ state # "Idle" /\ RecordLatencyLocked("stop", late)
             /\ TransitionLocked(edges, "Idle")
    <3>1. "Stopping" \in States \ {state, "Idle"} /\ "Idle" \in States
      BY <1>0, <1>1
    <3>2. Path(state, edges, "Idle")
      BY <3>1 DEF Path
    <3> QED
      BY <1>0, <2>1, <3>2, OtherCounters DEF WalkStep, TakesPath
  <2> QED
    BY <1>0, <1>5, <2>1, DuplicateWalks, RejectWalks DEF Stop
<1>6. ASSUME NEW late \in BOOLEAN, NEW target \in 0 .. MaxPts, Seek(id, target, late)
      PROVE  WalkStep
  <2> DEFINE edges == {<<state, "Buffering">>, <<"Buffering", "Ready">>, <<"Ready", "Playing">>}
  <2>1. CASE Count("lateSeek") /\ UNCHANGED <<state, transitions>>
    BY <1>0, <2>1, OtherCounters, Names DEF WalkStep
  <2>2. CASE /\ state \in {"Playing", "Paused"} /\ RecordLatencyLocked("seek", late)
             /\ TransitionLocked(edges, "Playing")
    <3>1. /\ {"Buffering", "Ready"} \subseteq States \ {state, "Playing"}
          /\ "Buffering" # "Ready" /\ "Playing" \in States
      BY <1>1, <2>2
    <3>2. Path(state, edges, "Playing")
      BY <3>1 DEF Path
    <3> QED
      BY <1>0, <2>2, <3>2, OtherCounters DEF WalkStep, TakesPath
  <2> QED
    BY <1>0, <1>6, <2>1, <2>2, DuplicateWalks, RejectWalks DEF Seek
<1>7. CASE Recover(id)
  <2>1. CASE TransitionLocked({<<state, "Buffering">>}, "Buffering") /\ Count("recover")
    BY <1>0, <1>1, <2>1, OneEdge, OtherCounters, Names DEF WalkStep
  <2> QED
    BY <1>0, <1>7, <2>1, DuplicateWalks, RejectWalks DEF Recover
<1> QED
  BY <1>2, <1>3, <1>4, <1>5, <1>6, <1>7 DEF Command

\* Every event takes a path from the present state or is rejected.
LEMMA EventWalks ==
  ASSUME IndInv, Event
  PROVE  WalkStep
<1>0. TypeOK /\ state \in States
  BY DEF IndInv, TypeOK
<1>1. {"Buffering", "Playing", "Ready", "Error"} \subseteq States
  BY Names
<1>2. CASE /\ state = "Buffering" /\ UNCHANGED total
           /\ TransitionLocked({<<"Buffering", "Ready">>, <<"Ready", "Playing">>}, "Playing")
  <2>1. Path(state, {<<"Buffering", "Ready">>, <<"Ready", "Playing">>}, "Playing")
    <3>1. "Ready" \in States \ {state, "Playing"} /\ "Playing" \in States
      BY <1>1, <1>2
    <3> QED
      BY <1>2, <3>1 DEF Path
  <2> QED
    BY <1>2, <2>1 DEF WalkStep, TakesPath
<1>3. CASE /\ state = "Playing" /\ UNCHANGED total
           /\ TransitionLocked({<<"Playing", "Buffering">>}, "Buffering")
  BY <1>1, <1>3, OneEdge DEF WalkStep
<1>4. CASE UNCHANGED <<state, transitions>> /\ (UNCHANGED total \/ Count("overflow"))
  BY <1>0, <1>4, OtherCounters, Names DEF WalkStep
<1>5. CASE Count("timeout") /\ TransitionLocked({<<state, "Error">>}, "Error")
  BY <1>0, <1>1, <1>5, OneEdge, OtherCounters, Names DEF WalkStep
<1> QED
  BY <1>2, <1>3, <1>4, <1>5
     DEF Event, OnBufferDepth, OnBackPressureEvent, OnBackPressureCleared, OnExternalTimeout,
         OnQueueOverflow

\* The counted edges are a walk from Idle to the current state, as long as no command
\* was rejected: every handler, whichever edges it counts, counts a path that begins in
\* the state it found and ends in the state it leaves.
THEOREM EdgesAreWalk == Spec => []WalkUnlessRejected
<1>1. Init => WalkUnlessRejected
  <2> SUFFICES ASSUME Init, NEW s \in States
               PROVE  InOfMap(transitions, s) - OutOfMap(transitions, s)
                        = (IF s = "Idle" THEN 1 ELSE 0) - (IF s = "Idle" THEN 1 ELSE 0)
    BY WalkIs DEF WalkUnlessRejected, WalkTo, Init
  <2>1. \A x \in States : transitions[<<x, s>>] = 0 /\ transitions[<<s, x>>] = 0
    BY DEF Init
  <2>2. InOfMap(transitions, s) = 0 /\ OutOfMap(transitions, s) = 0
    BY <2>1 DEF InOfMap, OutOfMap, States
  <2> HIDE DEF InOfMap, OutOfMap
  <2> QED
    BY <2>2
<1>2. ASSUME IndInv, WalkUnlessRejected, [Next]_vars
      PROVE  WalkUnlessRejected'
  <2>1. TypeOK /\ total["illegal"] \in Nat
    BY <1>2, Names DEF IndInv, TypeOK
  <2>2. WalkStep
    <3>1. CASE UNCHANGED vars
      BY <3>1 DEF vars, WalkStep
    <3> QED
      BY <1>2, <3>1, CommandWalks, EventWalks DEF Next
  <2>3. CASE total'["illegal"] = total["illegal"] + 1
    BY <2>1, <2>3 DEF WalkUnlessRejected
  <2>4. CASE total'["illegal"] = total["illegal"] /\ UNCHANGED <<state, transitions>>
    BY <1>2, <2>4 DEF WalkUnlessRejected, IsWalk, InOf, OutOf
  <2>5. CASE total'["illegal"] = total["illegal"] /\ TakesPath
    <3>1. SUFFICES ASSUME total["illegal"] = 0 PROVE IsWalk'
      BY <2>5 DEF WalkUnlessRejected
    <3>2. WalkTo(transitions, state)
      BY <1>2, <3>1, WalkIs DEF WalkUnlessRejected
    <3>3. PICK edges, to : Path(state, edges, to) /\ TransitionLocked(edges, to)
      BY <2>5 DEF TakesPath
    <3>4. WalkTo(transitions', to) /\ state' = to
      BY <2>1, <3>2, <3>3, PathExtendsWalk DEF TransitionLocked
    <3>5. WalkTo(transitions', state')
      BY <3>4
    <3> QED
      BY <3>5 DEF IsWalk, WalkTo, InOf, OutOf, InOfMap, OutOfMap
  <2> QED
    BY <2>2, <2>3, <2>4, <2>5 DEF WalkStep
<1> QED
  BY <1>1, <1>2, IndInvHolds, PTL DEF Spec
=============================================================================
