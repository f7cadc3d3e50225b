-------------------------- MODULE FrameRingBuffer --------------------------
(***************************************************************************)
(* The lock-free frame ring of include/retrovue/buffer/FrameRingBuffer.h   *)
(* and src/buffer/FrameRingBuffer.cpp, at the granularity of its atomic    *)
(* loads and stores.  A frame copy (Frame owns a std::vector) is not       *)
(* atomic: it has a beginning and an end, and a slot is Torn in between.   *)
(*                                                                         *)
(* Producers call Push and IsEmpty, consumers call Pop, Peek and Size, as  *)
(* the decode threads and the renderer do.  The header asks for one thread *)
(* of each kind; the sets are parameters so that what happens with more    *)
(* can be checked too.  The k-th frame that producer p gets accepted is    *)
(* the value <<p, k>>: all that the properties tell apart.                 *)
(***************************************************************************)
EXTENDS Integers, Sequences

CONSTANTS Capacity,   \* number of frames the ring can hold
          Producers,  \* threads that push
          Consumers,  \* threads that pop
          MaxFrames   \* bound: frames a producer gets accepted

ASSUME CapacityAssumption == Capacity \in Nat \ {0}
ASSUME BoundAssumption    == MaxFrames \in Nat
ASSUME ThreadAssumption   == Producers \cap Consumers = {}

VARIABLES write_index, read_index,  \* the two atomics
          slot,       \* buffer_
          pc,         \* where each thread is inside its call
          lidx,       \* the index each thread loaded first (its local)
          frame,      \* the frame each consumer is copying out
          accepted,   \* history: frames of p that Push returned true for
          delivered   \* history: last frame of p popped (or cleared)

vars == <<write_index, read_index, slot, pc, lidx, frame, accepted, delivered>>

Threads == Producers \cup Consumers
SlotCount == Capacity + 1           \* capacity_: one slot tells full from empty
Slots == 0 .. Capacity
Frames == Producers \X (1 .. MaxFrames)
Blank == << >>                      \* a default-constructed Frame
Torn == <<"torn">>                  \* a Frame read or left half-copied
Cells == Frames \cup {Blank, Torn}

\* Faulty variant: the increment without the wrap-around.
NextIndexNoWrap(i) == i + 1

NextIndex(i) == (i + 1) % SlotCount

\* What Size() computes from the two indices it loaded.
SizeOf(w, r) == IF w >= r THEN w - r ELSE SlotCount - (r - w)

Depth == SizeOf(write_index, read_index)

\* The slot i places after slot r.
SlotAfter(r, i) == IF r + i < SlotCount THEN r + i ELSE r + i - SlotCount

Init ==
  /\ write_index = 0
  /\ read_index = 0
  /\ slot = [i \in Slots |-> Blank]
  /\ pc = [t \in Threads |-> "idle"]
  /\ lidx = [t \in Threads |-> 0]
  /\ frame = [c \in Consumers |-> Blank]
  /\ accepted = [p \in Producers |-> 0]
  /\ delivered = [p \in Producers |-> 0]

\* Thread t moves from one point of its call to another.
Goto(t, from, to) == pc[t] = from /\ pc' = [pc EXCEPT ![t] = to]

-----------------------------------------------------------------------------
(* Push: load write_index_, load read_index_ and compare, copy, store.     *)

PushLoad(p) ==
  /\ accepted[p] < MaxFrames
  /\ Goto(p, "idle", "pushCheck")
  /\ lidx' = [lidx EXCEPT ![p] = write_index]
  /\ UNCHANGED <<write_index, read_index, slot, frame, accepted, delivered>>

\* Faulty variant: the full test compares the indices themselves, so that the
\* ring fills its last slot and then looks empty.
PushCheckNeverFull(p) ==
  /\ Goto(p, "pushCheck", "pushCopy")
  /\ UNCHANGED <<write_index, read_index, slot, lidx, frame, accepted, delivered>>

PushCheck(p) ==
  /\ Goto(p, "pushCheck",
          IF NextIndex(lidx[p]) = read_index THEN "idle" ELSE "pushCopy")
  /\ UNCHANGED <<write_index, read_index, slot, lidx, frame, accepted, delivered>>

\* Faulty variant: the write index is published before the frame is copied.
PushPublishFirst(p) ==
  /\ Goto(p, "pushCopy", "pushCopying")
  /\ slot' = [slot EXCEPT ![lidx[p]] = Torn]
  /\ write_index' = NextIndex(lidx[p])
  /\ UNCHANGED <<read_index, lidx, frame, accepted, delivered>>

PushBeginCopy(p) ==
  /\ Goto(p, "pushCopy", "pushCopying")
  /\ slot' = [slot EXCEPT ![lidx[p]] = Torn]
  /\ UNCHANGED <<write_index, read_index, lidx, frame, accepted, delivered>>

PushEndCopy(p) ==
  /\ Goto(p, "pushCopying", "pushStore")
  /\ slot' = [slot EXCEPT ![lidx[p]] = <<p, accepted[p] + 1>>]
  /\ UNCHANGED <<write_index, read_index, lidx, frame, accepted, delivered>>

PushStore(p) ==
  /\ Goto(p, "pushStore", "idle")
  /\ write_index' = NextIndex(lidx[p])
  /\ accepted' = [accepted EXCEPT ![p] = @ + 1]
  /\ UNCHANGED <<read_index, slot, lidx, frame, delivered>>

(* IsEmpty, as the decode loop calls it while it tears down: load          *)
(* read_index_, then load write_index_ and compare.                        *)

IsEmptyLoad(p) ==
  /\ Goto(p, "idle", "emptyCheck")
  /\ lidx' = [lidx EXCEPT ![p] = read_index]
  /\ UNCHANGED <<write_index, read_index, slot, frame, accepted, delivered>>

\* Faulty variant: one frame short of empty counts as empty.
IsEmptyOffByOne(p) == lidx[p] = write_index \/ NextIndex(lidx[p]) = write_index

IsEmptyResult(p) == lidx[p] = write_index

IsEmptyReturn(p) ==
  /\ Goto(p, "emptyCheck", "idle")
  /\ UNCHANGED <<write_index, read_index, slot, lidx, frame, accepted, delivered>>

-----------------------------------------------------------------------------
(* Pop: load read_index_, load write_index_ and compare, copy, store.      *)

PopLoad(c) ==
  /\ Goto(c, "idle", "popCheck")
  /\ lidx' = [lidx EXCEPT ![c] = read_index]
  /\ UNCHANGED <<write_index, read_index, slot, frame, accepted, delivered>>

\* Faulty variant: the empty test also answers true on a full ring.
PopCheckFullIsEmpty(c) ==
  /\ Goto(c, "popCheck", IF lidx[c] \in {write_index, NextIndex(write_index)}
                         THEN "idle" ELSE "popCopy")
  /\ UNCHANGED <<write_index, read_index, slot, lidx, frame, accepted, delivered>>

\* Faulty variant: the empty test is missing.
PopCheckNeverEmpty(c) ==
  /\ Goto(c, "popCheck", "popCopy")
  /\ UNCHANGED <<write_index, read_index, slot, lidx, frame, accepted, delivered>>

PopCheck(c) ==
  /\ Goto(c, "popCheck", IF lidx[c] = write_index THEN "idle" ELSE "popCopy")
  /\ UNCHANGED <<write_index, read_index, slot, lidx, frame, accepted, delivered>>

PopBeginCopy(c) ==
  /\ Goto(c, "popCopy", "popCopying")
  /\ frame' = [frame EXCEPT ![c] = slot[lidx[c]]]
  /\ UNCHANGED <<write_index, read_index, slot, lidx, accepted, delivered>>

PopEndCopy(c) ==
  /\ Goto(c, "popCopying", "popStore")
  /\ frame' = [frame EXCEPT ![c] = IF slot[lidx[c]] = @ THEN @ ELSE Torn]
  /\ UNCHANGED <<write_index, read_index, slot, lidx, accepted, delivered>>

PopStore(c) ==
  /\ Goto(c, "popStore", "idle")
  /\ read_index' = NextIndex(lidx[c])
  /\ delivered' = IF frame[c] \in Frames
                  THEN [delivered EXCEPT ![frame[c][1]] = frame[c][2]]
                  ELSE delivered
  /\ UNCHANGED <<write_index, slot, lidx, frame, accepted>>

(* Peek: as Pop up to the comparison; then the caller reads the frame      *)
(* through the returned pointer, at a time of its own.                     *)

PeekLoad(c) ==
  /\ Goto(c, "idle", "peekCheck")
  /\ lidx' = [lidx EXCEPT ![c] = read_index]
  /\ UNCHANGED <<write_index, read_index, slot, frame, accepted, delivered>>

PeekCheck(c) ==
  /\ Goto(c, "peekCheck", IF lidx[c] = write_index THEN "idle" ELSE "peekUse")
  /\ UNCHANGED <<write_index, read_index, slot, lidx, frame, accepted, delivered>>

PeekUse(c) ==
  /\ Goto(c, "peekUse", "idle")
  /\ UNCHANGED <<write_index, read_index, slot, lidx, frame, accepted, delivered>>

(* Size, as the renderer calls it: load write_index_, then read_index_.    *)

SizeLoad(c) ==
  /\ Goto(c, "idle", "sizeRead")
  /\ lidx' = [lidx EXCEPT ![c] = write_index]
  /\ UNCHANGED <<write_index, read_index, slot, frame, accepted, delivered>>

\* Faulty variant: the wrapped distance counts the spare slot as a frame.
SizeCountsSpareSlot(c) ==
  IF lidx[c] >= read_index THEN lidx[c] - read_index
                           ELSE SlotCount + 1 - (read_index - lidx[c])

SizeResult(c) == SizeOf(lidx[c], read_index)

SizeReturn(c) ==
  /\ Goto(c, "sizeRead", "idle")
  /\ UNCHANGED <<write_index, read_index, slot, lidx, frame, accepted, delivered>>

-----------------------------------------------------------------------------
(* Clear resets the indices; the slots keep their old frames.  The header  *)
(* makes the caller responsible for there being no concurrent access.      *)

ClearIndices ==
  /\ write_index' = 0
  /\ read_index' = 0
  /\ delivered' = accepted
  /\ UNCHANGED <<slot, pc, lidx, frame, accepted>>

Clear == (\A t \in Threads : pc[t] = "idle") /\ ClearIndices

-----------------------------------------------------------------------------

(* The calls.  PushAudioFrame, PopAudioFrame and PeekAudioFrame are the same *)
(* code over audio_buffer_ and its own two indices: they are Push, Pop and   *)
(* Peek of another instance of this ring.                                    *)

Push(p) == \/ PushLoad(p) \/ PushCheck(p) \/ PushBeginCopy(p)
           \/ PushEndCopy(p) \/ PushStore(p)

IsEmpty(p) == IsEmptyLoad(p) \/ IsEmptyReturn(p)

Pop(c) == \/ PopLoad(c) \/ PopCheck(c) \/ PopBeginCopy(c)
          \/ PopEndCopy(c) \/ PopStore(c)

Peek(c) == PeekLoad(c) \/ PeekCheck(c) \/ PeekUse(c)

Size(c) == SizeLoad(c) \/ SizeReturn(c)

Next == \/ \E p \in Producers : Push(p) \/ IsEmpty(p)
        \/ \E c \in Consumers : Pop(c) \/ Peek(c) \/ Size(c)
        \/ Clear

Spec == Init /\ [][Next]_vars

\* A thread inside a call returns from it; the decode loop and the render
\* loop come back to Push and to Pop in every iteration, whatever else they
\* call in between (hence strong fairness of the first step).
Fairness ==
  /\ \A p \in Producers : WF_vars(Push(p)) /\ WF_vars(IsEmptyReturn(p))
                          /\ SF_vars(PushLoad(p))
  /\ \A c \in Consumers : WF_vars(PeekCheck(c) \/ PeekUse(c) \/ SizeReturn(c))
                          /\ WF_vars(Pop(c)) /\ SF_vars(PopLoad(c))

LiveSpec == Spec /\ Fairness

-----------------------------------------------------------------------------
(* Properties.                                                             *)

\* The frame that follows the last delivered one, for some producer.
IsNextFrame(f) == \E p \in Producers : f = <<p, delivered[p] + 1>>

PushPoints == {"idle", "pushCheck", "pushCopy", "pushCopying", "pushStore", "emptyCheck"}
PopPoints == {"idle", "popCheck", "popCopy", "popCopying", "popStore",
              "peekCheck", "peekUse", "sizeRead"}

\* Every variable stays in its domain: indices inside the ring, slots and
\* local copies hold frames of this run, no call point of another thread kind.
TypeOK ==
  /\ write_index \in Slots /\ read_index \in Slots
  /\ slot \in [Slots -> Cells]
  /\ pc \in [Threads -> PushPoints \cup PopPoints]
  /\ \A p \in Producers : pc[p] \in PushPoints
  /\ \A c \in Consumers : pc[c] \in PopPoints
  /\ lidx \in [Threads -> Slots]
  /\ frame \in [Consumers -> Cells]
  /\ accepted \in [Producers -> 0 .. MaxFrames]
  /\ delivered \in [Producers -> 0 .. MaxFrames]

\* Pop hands out the oldest frame not yet delivered, whole: never a torn one,
\* never one twice, never one out of order, whatever Push does meanwhile.
PopReturnsNext ==
  \A c \in Consumers : pc[c] = "popStore" => IsNextFrame(frame[c])

\* While the caller of Peek still uses the returned pointer, the slot behind
\* it holds the next frame, whole, although Push runs concurrently.
PeekStaysValid ==
  \A c \in Consumers : pc[c] = "peekUse" => IsNextFrame(slot[lidx[c]])

\* A producer never writes the slot a consumer is copying from (the data race
\* that the full test on a stale read_index_ must exclude).
NoSlotRace ==
  \A p \in Producers, c \in Consumers :
    /\ pc[p] \in {"pushCopy", "pushCopying", "pushStore"}
    /\ pc[c] \in {"popCopy", "popCopying", "peekUse"}
    => lidx[p] # lidx[c]

\* The occupied slots hold exactly the frames accepted and not yet delivered:
\* a Push that returned true is never lost or duplicated, across wrap-around
\* of the indices, and none that returned false is there.
NothingLost ==
  {slot[SlotAfter(read_index, i)] : i \in 0 .. Depth - 1}
    = UNION {{<<p, k>> : k \in delivered[p] + 1 .. accepted[p]} : p \in Producers}

\* The renderer calls Size() > kMinDepthForDrop before it drops a late frame:
\* from the consumer thread the result never overstates the depth, although
\* write_index_ was loaded earlier.
ConsumerSizeIsSafe ==
  \A c \in Consumers : pc[c] = "sizeRead" => SizeResult(c) <= Depth

\* A producer that tears down stops once IsEmpty() answers true: from the
\* producer thread a true answer is never stale.
ProducerEmptyIsExact ==
  \A p \in Producers : pc[p] = "emptyCheck" /\ IsEmptyResult(p) => Depth = 0

\* Both observers can act on what they read, each from its own thread.
ObserversAreSafe == ConsumerSizeIsSafe /\ ProducerEmptyIsExact

\* The frames in the ring, oldest first.
Contents == [i \in 1 .. Depth |-> slot[SlotAfter(read_index, i - 1)]]

Queue == INSTANCE FrameQueue WITH queue <- Contents

\* The ring implements the abstract frame queue: a Push that returns true
\* appends at its store of write_index_, a Pop takes the head at its store of
\* read_index_, and no other step is visible.
ImplementsQueue == Queue!Spec

\* Every accepted frame is eventually delivered (or cleared).
EveryFrameDelivered ==
  \A p \in Producers : \A k \in 1 .. MaxFrames :
    accepted[p] >= k ~> delivered[p] >= k
=============================================================================
