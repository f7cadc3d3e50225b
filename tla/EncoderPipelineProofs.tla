------------------------- MODULE EncoderPipelineProofs -------------------------
(***************************************************************************)
(* Proofs about EncoderPipeline for all frame sizes, PIDs, counter moduli,  *)
(* loop limits and time stamps.  The checked properties say nothing of how  *)
(* the two time stamps are paired, what the record of them has to do with   *)
(* the packet in hand, or what the counter table knows about the stream, so *)
(* they are not inductive; IndInv adds all three.                           *)
(***************************************************************************)
EXTENDS EncoderPipeline, TLAPS

\* Both stamps are set by the first packet, and none is set alone.
StampsPaired ==
  /\ lastPts = NoStamp <=> lastDts = NoStamp
  /\ lastDts <= lastPts

\* The record is what the enforced packet in hand carries, and no packet the muxer has
\* taken after an enforcement lies beyond it.
PacketRecorded ==
  /\ written.pts <= lastPts /\ written.dts <= lastDts
  /\ Enforced => /\ packet = [pts |-> lastPts, dts |-> lastDts]
                 /\ written.pts < lastPts /\ written.dts < lastDts

\* While the pipeline is open its table holds what was last sent on each PID, and
\* it is inside a call only while it is open.
TableMatches ==
  /\ initialized => counters = sent
  /\ ~initialized => at = "idle"

IndInv == TypeOK /\ StampsPaired /\ PacketRecorded /\ TableMatches /\ ContinuityKept

USE EncoderAssumption DEF Resources, NoStamp, NoCounter, NoPacket, Stamps

-----------------------------------------------------------------------------

\* A remainder is below the modulus.
LEMMA ModBound ==
  ASSUME NEW n \in Nat
  PROVE  n % Modulus \in 0 .. Modulus - 1
  OBVIOUS

\* The enforced stamps lie beyond the last ones and are in order.
LEMMA EnforcedStamps ==
  ASSUME TypeOK, StampsPaired,
         NEW pts \in 0 .. MaxStamp, NEW dts \in 0 .. MaxStamp
  PROVE  /\ EnforcedPts(pts) \in Nat /\ EnforcedPts(pts) > lastPts
         /\ EnforcedDts(dts, EnforcedPts(pts)) \in Nat
         /\ EnforcedDts(dts, EnforcedPts(pts)) > lastDts
         /\ EnforcedDts(dts, EnforcedPts(pts)) <= EnforcedPts(pts)
<1>1. lastPts \in 0 .. MaxStamp \cup {-1} /\ lastDts \in 0 .. MaxStamp \cup {-1}
  BY DEF TypeOK
<1>2. EnforcedPts(pts) \in Nat /\ EnforcedPts(pts) > lastPts
  BY <1>1 DEF EnforcedPts, AtLeast
<1> DEFINE p == EnforcedPts(pts)
<1> HIDE DEF p
<1>3. p \in Nat /\ p > lastPts
  BY <1>2 DEF p
<1>4. /\ EnforcedDts(dts, p) \in Nat
      /\ EnforcedDts(dts, p) > lastDts
      /\ EnforcedDts(dts, p) <= p
  BY <1>1, <1>3 DEF EnforcedDts, AtLeast, AtMost, StampsPaired
<1> QED
  BY <1>2, <1>4 DEF p

\* A stamped packet advances both stamps, keeps them in order and is recorded.
LEMMA StampAdvances ==
  ASSUME TypeOK, StampsPaired, PacketRecorded, Stamp
  PROVE  /\ lastPts' \in 0 .. MaxStamp /\ lastDts' \in 0 .. MaxStamp
         /\ packet' \in Stamps /\ written' = written
         /\ StampsPaired' /\ PacketRecorded'
<1>1. PICK raw \in Stamps :
        /\ EnforcedPts(raw.pts) <= MaxStamp
        /\ lastPts' = EnforcedPts(raw.pts)
        /\ lastDts' = EnforcedDts(raw.dts, EnforcedPts(raw.pts))
        /\ packet' = [pts |-> lastPts', dts |-> lastDts']
        /\ written' = written
  BY DEF Stamp
<1>2. raw.pts \in 0 .. MaxStamp /\ raw.dts \in 0 .. MaxStamp
  BY <1>1
<1>3. /\ lastPts' \in Nat /\ lastDts' \in Nat /\ lastPts' <= MaxStamp
      /\ lastPts' > lastPts /\ lastDts' > lastDts /\ lastDts' <= lastPts'
  BY <1>1, <1>2, EnforcedStamps
<1>4. lastPts' \in 0 .. MaxStamp /\ lastDts' \in 0 .. MaxStamp
  BY <1>3
<1>5. StampsPaired'
  BY <1>3 DEF StampsPaired
<1>6. PacketRecorded'
  <2>1. /\ lastPts \in Int /\ lastDts \in Int
        /\ written.pts \in Int /\ written.dts \in Int
    BY DEF TypeOK
  <2> QED
    BY <1>1, <1>3, <2>1 DEF PacketRecorded
<1> QED
  BY <1>1, <1>4, <1>5, <1>6

\* The muxer takes the packet in hand or not: what it has taken is recorded.
LEMMA MuxRecords ==
  ASSUME TypeOK, PacketRecorded, Enforced, Mux, ~Enforced'
  PROVE  /\ packet' \in Stamps \cup {NoPacket} /\ written' \in Stamps \cup {NoPacket}
         /\ PacketRecorded'
<1>1. /\ written.pts <= lastPts /\ written.dts <= lastDts
      /\ packet.pts = lastPts /\ packet.dts = lastDts
      /\ lastPts' = lastPts /\ lastDts' = lastDts
      /\ lastPts \in Int /\ lastDts \in Int
  BY DEF PacketRecorded, Mux, TypeOK
<1>2. CASE written' = written
  BY <1>1, <1>2 DEF PacketRecorded, Mux, TypeOK
<1>3. CASE written' = packet
  BY <1>1, <1>3 DEF PacketRecorded, Mux, TypeOK
<1> QED
  BY <1>2, <1>3 DEF Mux

\* The corrected counter is a counter, and a receiver takes it as continuing.
LEMMA CorrectedContinues ==
  ASSUME TypeOK, counters = sent, NEW p \in Packet
  PROVE  /\ CorrectedCounter(p) \in 0 .. Modulus - 1
         /\ Continues(p, CorrectedCounter(p))
<1>1. /\ p.pid \in Pids /\ p.cc \in 0 .. Modulus - 1
      /\ p.payload \in BOOLEAN /\ p.discontinuity \in BOOLEAN
  BY DEF Packet
<1>2. counters[p.pid] \in 0 .. Modulus - 1 \cup {-1}
  BY <1>1 DEF TypeOK
<1>3. CASE counters[p.pid] = -1 \/ p.discontinuity
  BY <1>1, <1>3 DEF CorrectedCounter, Continues
<1>4. CASE counters[p.pid] # -1 /\ ~p.discontinuity
  <2>1. counters[p.pid] + 1 \in Nat /\ counters[p.pid] \in 0 .. Modulus - 1
    BY <1>2, <1>4
  <2>2. (counters[p.pid] + 1) % Modulus \in 0 .. Modulus - 1
    BY <2>1, ModBound
  <2>3. CASE p.payload
    BY <1>4, <2>2, <2>3 DEF CorrectedCounter, Continues
  <2>4. CASE ~p.payload
    BY <1>4, <2>1, <2>4 DEF CorrectedCounter, Continues
  <2> QED
    BY <2>3, <2>4
<1> QED
  BY <1>1, <1>3, <1>4

-----------------------------------------------------------------------------
(* The steps.                                                              *)

\* The invariant holds initially.
LEMMA InitInv == Init => IndInv
<1> SUFFICES ASSUME Init PROVE IndInv
  OBVIOUS
<1>1. NoCounters \in [Pids -> 0 .. Modulus - 1 \cup {-1}]
  BY DEF NoCounters
<1>2. at \in Places /\ held \in 0 .. 5 /\ inflight \in 0 .. EncoderDepth
  BY DEF Init, Places
<1>3. /\ counters \in [Pids -> 0 .. Modulus - 1 \cup {-1}]
      /\ sent \in [Pids -> 0 .. Modulus - 1 \cup {-1}]
  BY <1>1 DEF Init
<1>4. TypeOK
  BY <1>2, <1>3 DEF Init, TypeOK
<1> QED
  BY <1>4 DEF Init, IndInv, StampsPaired, PacketRecorded, Enforced, TableMatches, ContinuityKept

\* Steps of a call that leave stamps and counters alone.
Moves ==
  \/ \E s \in Sizes : Configure(s)
  \/ WriteHeader \/ Encode \/ CopyPlanes \/ SendDrained
  \/ Close \/ WriteTrailer

\* Steps that touch neither stamps nor counters preserve the invariant.
LEMMA MoveInv ==
  ASSUME IndInv, Moves
  PROVE  IndInv'
<1> USE DEF IndInv
<1>1. UNCHANGED <<stampVars, tsVars, initialized, held>>
  BY DEF Moves, Configure, WriteHeader, Encode, CopyPlanes, SendDrained, SendFrame,
         Close, WriteTrailer, codecVars
<1>2. at' \in Places /\ ~Enforced'
  BY DEF Moves, Configure, WriteHeader, Encode, CopyPlanes, SendDrained, SendFrame,
         Close, WriteTrailer, Places, Muxing, Enforced
<1>3. initialized
  BY DEF Moves, Configure, WriteHeader, Encode, CopyPlanes, SendDrained, SendFrame,
         Close, WriteTrailer, TableMatches
<1>4. processed' \in Nat /\ inflight' \in 0 .. EncoderDepth
  BY DEF Moves, Configure, WriteHeader, Encode, CopyPlanes, SendDrained, SendFrame,
         Close, WriteTrailer, TypeOK
<1>5. /\ size' \in Sizes \cup {0}
      /\ codec' \in BOOLEAN /\ planes' \in BOOLEAN /\ header' \in BOOLEAN
  BY DEF Moves, Configure, WriteHeader, Encode, CopyPlanes, SendDrained, SendFrame,
         Close, WriteTrailer, TypeOK, codecVars
<1>6. TypeOK'
  BY <1>1, <1>2, <1>4, <1>5 DEF TypeOK, stampVars, tsVars
<1>7. StampsPaired' /\ PacketRecorded' /\ TableMatches' /\ ContinuityKept'
  BY <1>1, <1>2, <1>3
  DEF StampsPaired, PacketRecorded, TableMatches, ContinuityKept, stampVars, tsVars
<1> QED
  BY <1>6, <1>7

\* The drain moves packets that are not enforced, and leaves the record alone.
LEMMA DrainInv ==
  ASSUME IndInv, DrainPacket \/ MuxDrainedPacket
  PROVE  IndInv'
<1> USE DEF IndInv
<1>1. /\ UNCHANGED <<initialized, codecVars, lastPts, lastDts, written, tsVars>> /\ initialized
      /\ at' \in Places /\ ~Enforced'
      /\ packet' \in Stamps \cup {NoPacket}
  BY DEF DrainPacket, MuxDrainedPacket, Places, Muxing, Enforced, TypeOK, TableMatches
<1>2. processed' \in Nat /\ inflight' \in 0 .. EncoderDepth
  BY DEF DrainPacket, MuxDrainedPacket, TypeOK
<1>3. TypeOK'
  BY <1>1, <1>2 DEF TypeOK, codecVars, tsVars
<1>4. StampsPaired' /\ PacketRecorded' /\ TableMatches' /\ ContinuityKept'
  BY <1>1 DEF StampsPaired, PacketRecorded, TableMatches, ContinuityKept, tsVars
<1> QED
  BY <1>3, <1>4

\* The muxer takes an enforced packet or refuses it.
LEMMA MuxInv ==
  ASSUME IndInv, MuxPacket \/ MuxFlushedPacket
  PROVE  IndInv'
<1> USE DEF IndInv
<1>1. /\ UNCHANGED <<processed, initialized, codecVars, inflight, tsVars>> /\ initialized
      /\ at' \in Places /\ Enforced /\ ~Enforced' /\ Mux
      /\ UNCHANGED <<lastPts, lastDts>>
  BY DEF MuxPacket, MuxFlushedPacket, Mux, Places, Muxing, Enforced, TableMatches
<1>2. /\ packet' \in Stamps \cup {NoPacket} /\ written' \in Stamps \cup {NoPacket}
      /\ PacketRecorded'
  BY <1>1, MuxRecords
<1>3. TypeOK'
  BY <1>1, <1>2 DEF TypeOK, codecVars, tsVars
<1>4. StampsPaired' /\ TableMatches' /\ ContinuityKept'
  BY <1>1 DEF StampsPaired, TableMatches, ContinuityKept, tsVars
<1> QED
  BY <1>2, <1>3, <1>4

\* Open preserves the invariant.
LEMMA OpenInv ==
  ASSUME IndInv, Open
  PROVE  IndInv'
<1> USE DEF IndInv, Open
<1>1. NoCounters \in [Pids -> 0 .. Modulus - 1 \cup {-1}]
  BY DEF NoCounters
<1>2. TypeOK'
  BY <1>1 DEF TypeOK, stampVars
<1>3. StampsPaired' /\ PacketRecorded' /\ ContinuityKept'
  BY DEF StampsPaired, PacketRecorded, Enforced, ContinuityKept, stampVars
<1>4. TableMatches'
  BY DEF TableMatches
<1> QED
  BY <1>2, <1>3, <1>4

\* A written packet: the table is what has been sent, so nothing breaks.
LEMMA WriteInv ==
  ASSUME IndInv, HandleAVIOWrite
  PROVE  IndInv'
<1> USE DEF IndInv
<1>1. initialized /\ counters = sent
  BY DEF HandleAVIOWrite, Muxing, TableMatches
<1>2. UNCHANGED <<at, processed, initialized, codecVars, inflight, stampVars>> /\ partial' \in BOOLEAN
  BY DEF HandleAVIOWrite, WriteWithAlignment
<1>0. PacketRecorded'
  BY <1>2 DEF PacketRecorded, Enforced, stampVars
<1>3. CASE UNCHANGED <<counters, sent, gap>>
  BY <1>0, <1>2, <1>3 DEF TypeOK, StampsPaired, TableMatches, ContinuityKept, codecVars, stampVars
<1>4. CASE \E p \in Packet :
             /\ counters' = [counters EXCEPT ![p.pid] = CorrectedCounter(p)]
             /\ sent' = [sent EXCEPT ![p.pid] = CorrectedCounter(p)]
             /\ gap' = (gap \/ ~Continues(p, CorrectedCounter(p)))
  <2>1. PICK p \in Packet :
             /\ counters' = [counters EXCEPT ![p.pid] = CorrectedCounter(p)]
             /\ sent' = [sent EXCEPT ![p.pid] = CorrectedCounter(p)]
             /\ gap' = (gap \/ ~Continues(p, CorrectedCounter(p)))
    BY <1>4
  <2>2. CorrectedCounter(p) \in 0 .. Modulus - 1 /\ Continues(p, CorrectedCounter(p))
    BY <1>1, CorrectedContinues
  <2> DEFINE cc == CorrectedCounter(p)
  <2> HIDE DEF cc
  <2>3. /\ counters' \in [Pids -> 0 .. Modulus - 1 \cup {-1}]
        /\ sent' \in [Pids -> 0 .. Modulus - 1 \cup {-1}]
        /\ counters' = sent'
    <3>1. /\ counters' = [counters EXCEPT ![p.pid] = cc]
          /\ sent' = [sent EXCEPT ![p.pid] = cc]
          /\ cc \in 0 .. Modulus - 1
      BY <2>1, <2>2 DEF cc
    <3> QED
      BY <1>1, <3>1 DEF TypeOK
  <2>4. gap' = FALSE
    BY <2>1, <2>2 DEF ContinuityKept, TypeOK
  <2>5. TypeOK'
    BY <1>2, <2>3, <2>4 DEF TypeOK, codecVars, stampVars
  <2>6. StampsPaired' /\ TableMatches' /\ ContinuityKept'
    BY <1>2, <2>3, <2>4 DEF StampsPaired, TableMatches, ContinuityKept, stampVars
  <2> QED
    BY <1>0, <2>5, <2>6
<1> QED
  BY <1>3, <1>4 DEF HandleAVIOWrite, WriteWithAlignment

\* Receive preserves the invariant.
LEMMA ReceiveInv ==
  ASSUME IndInv, ReceivePacket
  PROVE  IndInv'
<1> USE DEF IndInv
<1>1. /\ UNCHANGED <<initialized, codecVars, tsVars>> /\ initialized
      /\ at' \in {"mux", "idle"}
      /\ processed' \in Nat /\ inflight' \in 0 .. EncoderDepth
  BY DEF ReceivePacket, TypeOK, TableMatches, stampVars
<1>2. Stamp \/ (UNCHANGED stampVars /\ ~Enforced')
  BY DEF ReceivePacket, Enforced, stampVars
<1>3. /\ lastPts' \in 0 .. MaxStamp \cup {-1} /\ lastDts' \in 0 .. MaxStamp \cup {-1}
      /\ packet' \in Stamps \cup {NoPacket} /\ written' \in Stamps \cup {NoPacket}
      /\ StampsPaired' /\ PacketRecorded'
  <2>1. CASE Stamp
    BY <2>1, StampAdvances DEF TypeOK
  <2>2. CASE UNCHANGED stampVars /\ ~Enforced'
    BY <2>2 DEF TypeOK, StampsPaired, PacketRecorded, stampVars
  <2> QED
    BY <1>2, <2>1, <2>2
<1>4. TypeOK'
  BY <1>1, <1>3 DEF TypeOK, codecVars, tsVars, Places, Muxing
<1>5. TableMatches' /\ ContinuityKept'
  BY <1>1 DEF TableMatches, ContinuityKept, tsVars
<1> QED
  BY <1>3, <1>4, <1>5

\* Flush preserves the invariant.
LEMMA FlushInv ==
  ASSUME IndInv, FlushPacket
  PROVE  IndInv'
<1> USE DEF IndInv
<1>1. /\ UNCHANGED <<processed, initialized, codecVars, tsVars>> /\ initialized
      /\ at' \in {"flush", "muxFlushed", "trailer"}
      /\ inflight' \in 0 .. EncoderDepth
  BY DEF FlushPacket, TypeOK, TableMatches, stampVars
<1>2. Stamp \/ (UNCHANGED stampVars /\ ~Enforced')
  BY DEF FlushPacket, Enforced, stampVars
<1>3. /\ lastPts' \in 0 .. MaxStamp \cup {-1} /\ lastDts' \in 0 .. MaxStamp \cup {-1}
      /\ packet' \in Stamps \cup {NoPacket} /\ written' \in Stamps \cup {NoPacket}
      /\ StampsPaired' /\ PacketRecorded'
  <2>1. CASE Stamp
    BY <2>1, StampAdvances DEF TypeOK
  <2>2. CASE UNCHANGED stampVars /\ ~Enforced'
    BY <2>2 DEF TypeOK, StampsPaired, PacketRecorded, stampVars
  <2> QED
    BY <1>2, <2>1, <2>2
<1>4. TypeOK'
  BY <1>1, <1>3 DEF TypeOK, codecVars, tsVars, Places, Muxing
<1>5. TableMatches' /\ ContinuityKept'
  BY <1>1 DEF TableMatches, ContinuityKept, tsVars
<1> QED
  BY <1>3, <1>4, <1>5

\* Release preserves the invariant.
LEMMA ReleaseInv ==
  ASSUME IndInv, Release
  PROVE  IndInv'
<1> USE DEF IndInv, Release
<1>1. NoCounters \in [Pids -> 0 .. Modulus - 1 \cup {-1}]
  BY DEF NoCounters
<1>2. at' \in Places /\ counters' \in [Pids -> 0 .. Modulus - 1 \cup {-1}]
  BY <1>1 DEF Places
<1>3. held' \in 0 .. 5 /\ inflight' \in 0 .. EncoderDepth /\ size' \in Sizes \cup {0}
  OBVIOUS
<1>4. /\ processed' \in Nat /\ gap' \in BOOLEAN
      /\ lastPts' \in 0 .. MaxStamp \cup {-1} /\ lastDts' \in 0 .. MaxStamp \cup {-1}
      /\ packet' \in Stamps \cup {NoPacket} /\ written' \in Stamps \cup {NoPacket}
      /\ sent' \in [Pids -> 0 .. Modulus - 1 \cup {-1}]
  BY DEF TypeOK, stampVars
<1>5. /\ initialized' \in BOOLEAN /\ codec' \in BOOLEAN /\ planes' \in BOOLEAN
      /\ header' \in BOOLEAN /\ partial' \in BOOLEAN
  OBVIOUS
<1>6. TypeOK'
  BY <1>2, <1>3, <1>4, <1>5 DEF TypeOK
<1>7. StampsPaired' /\ PacketRecorded' /\ TableMatches' /\ ContinuityKept'
  BY DEF StampsPaired, PacketRecorded, Enforced, TableMatches, ContinuityKept, stampVars
<1> QED
  BY <1>6, <1>7

\* A stuttering step preserves the invariant.
LEMMA StutterInv ==
  ASSUME IndInv, UNCHANGED vars
  PROVE  IndInv'
BY DEF IndInv, TypeOK, StampsPaired, PacketRecorded, Enforced, TableMatches,
       ContinuityKept, stampVars, vars

\* Every step preserves the invariant.
LEMMA StepInv == IndInv /\ [Next]_vars => IndInv'
<1> SUFFICES ASSUME IndInv, [Next]_vars PROVE IndInv'
  OBVIOUS
<1>1. CASE Moves
  BY <1>1, MoveInv
<1>2. CASE DrainPacket \/ MuxDrainedPacket
  BY <1>2, DrainInv
<1>3. CASE MuxPacket \/ MuxFlushedPacket
  BY <1>3, MuxInv
<1>4. CASE Open
  BY <1>4, OpenInv
<1>5. CASE HandleAVIOWrite
  BY <1>5, WriteInv
<1>6. CASE ReceivePacket
  BY <1>6, ReceiveInv
<1>7. CASE FlushPacket
  BY <1>7, FlushInv
<1>8. CASE Release
  BY <1>8, ReleaseInv
<1>9. CASE UNCHANGED vars
  BY <1>9, StutterInv
<1> QED
  BY <1>1, <1>2, <1>4, <1>5, <1>6, <1>7, <1>8, <1>9, <1>3 DEF Next, Moves

-----------------------------------------------------------------------------

\* The invariant holds in every state.
LEMMA IndInvHolds == Spec => []IndInv
BY InitInv, StepInv, PTL DEF Spec

\* The pipeline's state stays in its domain, whatever libav answers.
THEOREM TypeCorrect == Spec => []TypeOK
<1>1. IndInv => TypeOK
  BY DEF IndInv
<1> QED
  BY <1>1, IndInvHolds, PTL

\* A packet that encodeFrame receives after its frame, or close flushes, goes to the
\* muxer with a DTS not after its PTS, whatever stamps the encoder gave it.  Packets
\* drained from a full encoder are not enforced by the code and not covered.
THEOREM DecodedBeforeShown == Spec => []EnforcedPacketsOrdered
<1>1. IndInv => EnforcedPacketsOrdered
  BY DEF IndInv, StampsPaired, PacketRecorded, EnforcedPacketsOrdered
<1> QED
  BY <1>1, IndInvHolds, PTL

\* WriteWithAlignment and ProcessTSPackets leave no gap in a PID's counters.
THEOREM CountersContinue == Spec => []ContinuityKept
<1>1. IndInv => ContinuityKept
  BY DEF IndInv
<1> QED
  BY <1>1, IndInvHolds, PTL

\* Such a packet lies, in both stamps, past every such packet the muxer took before,
\* across refused frames, drains and sessions.
THEOREM StampsAdvance == Spec => []EnforcedPacketsAdvance
<1>1. IndInv => EnforcedPacketsAdvance
  <2> SUFFICES ASSUME IndInv, Enforced
               PROVE  packet.pts > written.pts /\ packet.dts > written.dts
    BY DEF EnforcedPacketsAdvance
  <2>1. /\ packet.pts = lastPts /\ packet.dts = lastDts
        /\ written.pts < lastPts /\ written.dts < lastDts
    BY DEF IndInv, PacketRecorded
  <2>2. /\ lastPts \in Int /\ lastDts \in Int /\ written.pts \in Int /\ written.dts \in Int
    BY DEF IndInv, TypeOK
  <2> QED
    BY <2>1, <2>2
<1> QED
  BY <1>1, IndInvHolds, PTL
=============================================================================
