---------------------------- MODULE EncoderPipeline ----------------------------
(***************************************************************************)
(* EncoderPipeline: open, encodeFrame and close over libav's encoder and    *)
(* MPEG-TS muxer, whose output comes back through AVIOWriteThunk, is cut    *)
(* into whole TS packets and has its continuity counters corrected.  The    *)
(* pipeline is used by one thread at a time; at is the place in the call.   *)
(* libav is external: its calls succeed or fail by choice.                  *)
(***************************************************************************)
EXTENDS Integers

CONSTANTS Sizes,        \* frame dimensions, positive
          Pids,         \* PIDs of the stream, without the null PID
          Modulus,      \* of a continuity counter: 16
          EncoderDepth, \* frames the encoder takes before it answers EAGAIN
          DrainLimit,   \* max_drain_attempts: 5
          PacketLimit,  \* max_packets_per_frame: 10
          MaxStamp      \* bound on time stamps

ASSUME EncoderAssumption ==
  /\ Sizes \subseteq Nat \ {0}
  /\ Modulus \in Nat \ {0} /\ EncoderDepth \in Nat
  /\ DrainLimit \in Nat /\ PacketLimit \in Nat /\ MaxStamp \in Nat

VARIABLES at,           \* the place in the call in progress
          processed,    \* packets_processed, or drain_attempts
          initialized,  \* initialized_
          held,         \* how many of the resources open() takes are held
          size,         \* width and height in codec_ctx_, 0 before the first frame
          codec, planes,\* avcodec_open2 has succeeded; frame_->data is allocated
          header,       \* header_written_
          inflight,     \* frames in the encoder
          lastPts, lastDts, \* last_pts_90k_ and last_dts_90k_, NoStamp if not valid
          packet,       \* the stamps in packet_, or NoPacket
          written,      \* history: those of the last enforced packet the muxer took
          partial,      \* packet_alignment_buffer_ holds the beginning of a TS packet
          counters,     \* continuity_counters_
          sent, gap     \* history: last counter sent on each PID; a wrong one was sent

vars == <<at, processed, initialized, held, size, codec, planes, header, inflight,
          lastPts, lastDts, packet, written, partial, counters, sent, gap>>
stampVars == <<lastPts, lastDts, packet, written>>
tsVars == <<partial, counters, sent, gap>>
codecVars == <<held, size, codec, planes, header>>

NoStamp == -1
NoCounter == -1
Stamps == [pts : 0 .. MaxStamp, dts : 0 .. MaxStamp]
NoPacket == [pts |-> NoStamp, dts |-> NoStamp]
Resources == 5     \* format context, AVIO context, stream, codec context, frames and packet
NoCounters == [pid \in Pids |-> NoCounter]

Init ==
  /\ at = "idle" /\ processed = 0
  /\ initialized = FALSE /\ held = 0
  /\ size = 0 /\ codec = FALSE /\ planes = FALSE /\ header = FALSE
  /\ inflight = 0
  /\ lastPts = NoStamp /\ lastDts = NoStamp /\ packet = NoPacket /\ written = NoPacket
  /\ partial = FALSE /\ counters = NoCounters
  /\ sent = NoCounters /\ gap = FALSE

-----------------------------------------------------------------------------
(* Opening.                                                                *)

\* The steps of open() in order; a failure calls close(), which returns at once
\* because initialized_ is not set yet: what was taken stays.
Open ==
  /\ at = "idle" /\ ~initialized
  /\ held' \in 0 .. Resources
  /\ initialized' = (held' = Resources)
  /\ counters' = NoCounters /\ sent' = NoCounters
  /\ size' = 0 /\ codec' = FALSE
  /\ UNCHANGED <<at, processed, planes, header, inflight, stampVars, partial, gap>>

-----------------------------------------------------------------------------
(* Time stamps: received and flushed packets get strictly increasing PTS    *)
(* and DTS with DTS <= PTS; drained ones keep what the encoder gave them.   *)

AtLeast(stamp, last) == IF stamp <= last THEN last + 1 ELSE stamp
AtMost(stamp, limit) == IF stamp > limit THEN limit ELSE stamp

\* Faulty variant: equal PTS are let through.
EnforcedPtsWeak(pts) == IF lastPts # NoStamp /\ pts < lastPts THEN lastPts + 1 ELSE pts

EnforcedPts(pts) == IF lastPts = NoStamp THEN pts ELSE AtLeast(pts, lastPts)

\* Faulty variant: no second comparison with the PTS, and none first.
EnforcedDtsUnclamped(dts, pts) == IF lastDts = NoStamp THEN dts ELSE AtLeast(dts, lastDts)

\* Clamped to the PTS, pushed past the last DTS, clamped again.
EnforcedDts(dts, pts) ==
  IF lastDts = NoStamp THEN AtMost(dts, pts)
                       ELSE AtMost(AtLeast(AtMost(dts, pts), lastDts), pts)

\* The stamps of packet_ are enforced and recorded.  libx264 without B-frames:
\* every packet has both.
Stamp ==
  \E raw \in Stamps :
    LET pts == EnforcedPts(raw.pts)
        dts == EnforcedDts(raw.dts, pts)
    IN
    /\ pts <= MaxStamp
    /\ packet' = [pts |-> pts, dts |-> dts]
    /\ lastPts' = pts /\ lastDts' = dts
    /\ UNCHANGED written

\* av_interleaved_write_frame takes the packet or fails, and packet_ is released.
Mux ==
  /\ packet' = NoPacket
  /\ written' \in {written, packet}
  /\ UNCHANGED <<lastPts, lastDts>>

-----------------------------------------------------------------------------
(* Output of the muxer.                                                    *)

Packet == [pid : Pids, cc : 0 .. Modulus - 1, payload : BOOLEAN, discontinuity : BOOLEAN]

\* Faulty variant: packets without payload advance the counter, too.
CorrectedCounterAlways(p) ==
  IF counters[p.pid] = NoCounter \/ p.discontinuity THEN p.cc
  ELSE (counters[p.pid] + 1) % Modulus

\* ProcessTSPackets: the first packet of a PID, or a signalled discontinuity,
\* sets the counter; a payload advances it, an adaptation field repeats it.
CorrectedCounter(p) ==
  IF counters[p.pid] = NoCounter \/ p.discontinuity THEN p.cc
  ELSE IF p.payload THEN (counters[p.pid] + 1) % Modulus
  ELSE counters[p.pid]

\* What a receiver accepts after the last packet it got on that PID.
Continues(p, cc) ==
  \/ sent[p.pid] = NoCounter
  \/ p.discontinuity
  \/ cc = (IF p.payload THEN (sent[p.pid] + 1) % Modulus ELSE sent[p.pid])

\* A chunk of libav's arrives in WriteWithAlignment.  It completes at most one
\* packet here (a longer one is several) and may end within the next; null
\* packets take no part in continuity.
WriteWithAlignment ==
  /\ partial' \in BOOLEAN
  /\ \/ UNCHANGED <<counters, sent, gap>>
     \/ \E p \in Packet :
          /\ counters' = [counters EXCEPT ![p.pid] = CorrectedCounter(p)]
          /\ sent' = [sent EXCEPT ![p.pid] = CorrectedCounter(p)]
          /\ gap' = (gap \/ ~Continues(p, CorrectedCounter(p)))

\* The places of a call where libav may write; it does not before the header.
Muxing == {"muxDrained", "mux", "muxFlushed", "trailer"}

HandleAVIOWrite ==
  /\ at = "header" \/ (at \in Muxing /\ header)
  /\ WriteWithAlignment
  /\ UNCHANGED <<at, processed, initialized, codecVars, inflight, stampVars>>

-----------------------------------------------------------------------------
(* encodeFrame.                                                            *)

\* The codec is closed and opened again for new dimensions, which are recorded
\* first: whatever fails after that, the next frame of this size does not retry.
Configure(s) ==
  /\ at = "idle" /\ initialized /\ size # s
  /\ size' = s /\ inflight' = 0
  /\ \/ at' = "idle" /\ codec' = FALSE /\ planes' = FALSE            \* avcodec_open2 failed
     \/ at' = "idle" /\ codec' = TRUE /\ planes' = FALSE             \* av_image_alloc failed
     \/ /\ at' = IF header THEN "copy" ELSE "header"
        /\ codec' = TRUE /\ planes' = TRUE
  /\ UNCHANGED <<processed, initialized, held, header, stampVars, tsVars>>

WriteHeader ==
  /\ at = "header"
  /\ \/ at' = "copy" /\ header' = TRUE
     \/ at' = "idle" /\ header' = FALSE      \* EAGAIN or another error
  /\ UNCHANGED <<processed, initialized, held, size, codec, planes, inflight, stampVars, tsVars>>

Encode ==
  /\ at = "idle" /\ initialized /\ size \in Sizes
  /\ at' = "copy"
  /\ UNCHANGED <<processed, initialized, codecVars, inflight, stampVars, tsVars>>

\* The planes are copied into frame_, through a null pointer if they were never
\* allocated; a frame with too little data is refused.
CopyPlanes ==
  /\ at = "copy"
  /\ at' \in {"idle", IF planes THEN "send" ELSE "crashed"}
  /\ UNCHANGED <<processed, initialized, codecVars, inflight, stampVars, tsVars>>

\* avcodec_send_frame: taken, EAGAIN from a full encoder, or an error.
SendFrame(from, full) ==
  /\ at = from /\ processed' = 0
  /\ \/ inflight < EncoderDepth /\ inflight' = inflight + 1 /\ at' = "receive"
     \/ inflight = EncoderDepth /\ at' = full /\ UNCHANGED inflight
     \/ at' = "idle" /\ UNCHANGED inflight
  /\ UNCHANGED <<initialized, codecVars, stampVars, tsVars>>

\* Faulty variant: the drain does not end when the encoder has no packet.
DrainPacketForever ==
  /\ at = "drain"
  /\ IF inflight > 0 THEN inflight' = inflight - 1 /\ at' = "muxDrained" /\ packet' \in Stamps
                     ELSE UNCHANGED <<inflight, at, packet>>
  /\ UNCHANGED <<processed, initialized, codecVars, lastPts, lastDts, written, tsVars>>

\* The encoder was full: take packets out before the frame is sent again.
\* These packets go to the muxer with the encoder's own stamps, which are neither
\* enforced nor recorded.
DrainPacket ==
  /\ at = "drain"
  /\ \/ /\ processed < DrainLimit /\ inflight > 0
        /\ inflight' = inflight - 1 /\ at' = "muxDrained" /\ packet' \in Stamps
     \/ at' = "resend" /\ UNCHANGED <<inflight, packet>>  \* none left, an error, or the limit
  /\ UNCHANGED <<processed, initialized, codecVars, lastPts, lastDts, written, tsVars>>

MuxDrainedPacket ==
  /\ at = "muxDrained"
  /\ \/ at' = "drain" /\ processed' = processed + 1
     \/ at' = "resend" /\ UNCHANGED processed      \* EAGAIN: the packet is dropped
  /\ packet' = NoPacket
  /\ UNCHANGED <<initialized, codecVars, inflight, lastPts, lastDts, written, tsVars>>

\* A frame that is refused a second time is lost; the call returns true.
SendDrained == SendFrame("send", "drain") \/ SendFrame("resend", "idle")

ReceivePacket ==
  /\ at = "receive"
  /\ \/ /\ processed < PacketLimit /\ inflight > 0
        /\ inflight' = inflight - 1 /\ at' = "mux" /\ processed' = processed + 1
        /\ Stamp
     \/ at' = "idle" /\ UNCHANGED <<processed, inflight, stampVars>>
  /\ UNCHANGED <<initialized, codecVars, tsVars>>

MuxPacket ==
  /\ at = "mux" /\ Mux
  /\ \/ at' = "receive"
     \/ at' = "idle" /\ UNCHANGED written          \* EAGAIN: the packet is dropped
  /\ UNCHANGED <<processed, initialized, codecVars, inflight, tsVars>>

-----------------------------------------------------------------------------
(* close.                                                                  *)

Close ==
  /\ at = "idle" /\ initialized
  /\ at' = IF size > 0 THEN "flush" ELSE "trailer"
  /\ UNCHANGED <<processed, initialized, codecVars, inflight, stampVars, tsVars>>

\* The encoder is emptied.  A codec that never was opened answers every receive
\* with an error that the loop ignores: it does not end.
FlushPacket ==
  /\ at = "flush"
  /\ \/ ~codec /\ UNCHANGED <<at, inflight, stampVars>>
     \/ codec /\ inflight > 0 /\ inflight' = inflight - 1 /\ at' = "muxFlushed" /\ Stamp
     \/ codec /\ inflight = 0 /\ at' = "trailer" /\ UNCHANGED <<inflight, stampVars>>
  /\ UNCHANGED <<processed, initialized, codecVars, tsVars>>

MuxFlushedPacket ==
  /\ at = "muxFlushed" /\ at' = "flush" /\ Mux
  /\ UNCHANGED <<processed, initialized, codecVars, inflight, tsVars>>

WriteTrailer ==
  /\ at = "trailer" /\ at' = "release"
  /\ UNCHANGED <<processed, initialized, codecVars, inflight, stampVars, tsVars>>

\* A partial packet is overwritten as a null packet, one more null packet is
\* written, and everything is freed.  last_pts_90k_ and last_dts_90k_ stay.
Release ==
  /\ at = "release" /\ at' = "idle"
  /\ held' = 0 /\ initialized' = FALSE
  /\ size' = 0 /\ codec' = FALSE /\ planes' = FALSE /\ header' = FALSE /\ inflight' = 0
  /\ partial' = FALSE /\ counters' = NoCounters
  /\ UNCHANGED <<processed, stampVars, sent, gap>>

-----------------------------------------------------------------------------

InCall ==
  \/ WriteHeader \/ CopyPlanes \/ SendDrained \/ DrainPacket \/ MuxDrainedPacket
  \/ ReceivePacket \/ MuxPacket
  \/ FlushPacket \/ MuxFlushedPacket \/ WriteTrailer \/ Release

Next ==
  \/ Open \/ Encode \/ Close
  \/ \E s \in Sizes : Configure(s)
  \/ WriteHeader \/ CopyPlanes \/ SendDrained \/ DrainPacket \/ MuxDrainedPacket
  \/ ReceivePacket \/ MuxPacket
  \/ FlushPacket \/ MuxFlushedPacket \/ WriteTrailer \/ Release
  \/ HandleAVIOWrite

Spec == Init /\ [][Next]_vars

\* The calling thread is scheduled and libav's calls return.
LiveSpec == Spec /\ WF_vars(InCall)

-----------------------------------------------------------------------------
Places == {"idle", "header", "copy", "send", "drain", "resend", "receive", "flush",
           "release", "crashed"} \cup Muxing

\* The pipeline's state stays in its domain; time stamps are kept while valid.
TypeOK ==
  /\ at \in Places
  /\ processed \in Nat
  /\ initialized \in BOOLEAN /\ held \in 0 .. Resources
  /\ size \in Sizes \cup {0}
  /\ codec \in BOOLEAN /\ planes \in BOOLEAN /\ header \in BOOLEAN
  /\ inflight \in 0 .. EncoderDepth
  /\ lastPts \in 0 .. MaxStamp \cup {NoStamp}
  /\ lastDts \in 0 .. MaxStamp \cup {NoStamp}
  /\ packet \in Stamps \cup {NoPacket} /\ written \in Stamps \cup {NoPacket}
  /\ partial \in BOOLEAN
  /\ counters \in [Pids -> 0 .. Modulus - 1 \cup {NoCounter}]
  /\ sent \in [Pids -> 0 .. Modulus - 1 \cup {NoCounter}]
  /\ gap \in BOOLEAN

\* The packet in hand has been enforced: encodeFrame has received it after sending
\* its frame, or close has flushed it.  Packets drained from a full encoder
\* (muxDrained) are not, and nothing is claimed of their stamps.
Enforced == at \in {"mux", "muxFlushed"}

\* An enforced packet goes to the muxer with a DTS not after its PTS, whatever stamps
\* the encoder gave and however often earlier packets were moved.
EnforcedPacketsOrdered == Enforced => packet.dts <= packet.pts

\* An enforced packet goes to the muxer with a PTS and a DTS past those of every
\* enforced packet the muxer took before, in this session and in earlier ones,
\* although packets are refused and drained in between.
EnforcedPacketsAdvance == Enforced => packet.pts > written.pts /\ packet.dts > written.dts

\* On each PID a receiver sees counters that continue or a signalled break.
ContinuityKept == ~gap

\* encodeFrame returns: its loops are limited, also against an encoder or muxer
\* that keeps answering EAGAIN.
EncodeReturns ==
  at \in {"header", "copy", "send", "drain", "muxDrained", "resend", "receive", "mux"}
    ~> at \in {"idle", "crashed"}
==============================================================================
