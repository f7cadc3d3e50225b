----------------------------- MODULE FrameQueue -----------------------------
(***************************************************************************)
(* What the frame ring promises its users: a bounded first-in first-out    *)
(* queue whose operations happen at one instant each.                      *)
(***************************************************************************)
EXTENDS Naturals, Sequences

CONSTANTS Capacity, Producers

VARIABLES queue,      \* the frames held, oldest first
          accepted,   \* frames of p put so far
          delivered   \* last frame of p taken (or cleared)

qvars == <<queue, accepted, delivered>>

Init ==
  /\ queue = << >>
  /\ accepted = [p \in Producers |-> 0]
  /\ delivered = [p \in Producers |-> 0]

Put(p) ==
  /\ Len(queue) < Capacity
  /\ queue' = Append(queue, <<p, accepted[p] + 1>>)
  /\ accepted' = [accepted EXCEPT ![p] = @ + 1]
  /\ UNCHANGED delivered

Take ==
  /\ queue # << >>
  /\ queue' = Tail(queue)
  /\ delivered' = [delivered EXCEPT ![Head(queue)[1]] = Head(queue)[2]]
  /\ UNCHANGED accepted

DropAll ==
  /\ queue' = << >>
  /\ delivered' = accepted
  /\ UNCHANGED accepted

Next == (\E p \in Producers : Put(p)) \/ Take \/ DropAll

Spec == Init /\ [][Next]_qvars
=============================================================================
