------------------------------ MODULE PcmQueue ------------------------------
(***************************************************************************)
(* What the PCM ring promises its two clients (ring_buffer.hpp): a bounded *)
(* first-in first-out queue of PCM units with an all-or-nothing write, a   *)
(* partial read and a drain.  A unit is named by its index in the stream   *)
(* of accepted units, so "in order, once, never after a drain" can be seen *)
(* in what the mixer is handed.                                            *)
(***************************************************************************)
EXTENDS Integers, Sequences

CONSTANT Capacity   \* units the ring can hold

VARIABLES queue,    \* units accepted and neither read nor drained, oldest first
          accepted, \* how many units were ever accepted
          played    \* the units handed to the mixer

vars == <<queue, accepted, played>>

Init == /\ queue = <<>>
        /\ accepted = 0
        /\ played = {}

\* write: the whole block or nothing.
Put(n) == /\ Len(queue) + n <= Capacity
          /\ queue' = queue \o [i \in 1..n |-> accepted + i - 1]
          /\ accepted' = accepted + n
          /\ UNCHANGED played

\* read: the n oldest units, in order.
Get(n) == /\ n <= Len(queue)
          /\ queue' = SubSeq(queue, n + 1, Len(queue))
          /\ played' = played \cup {queue[i] : i \in 1..n}
          /\ UNCHANGED accepted

\* drain: everything in flight is discarded.
Clear == /\ queue' = <<>>
         /\ UNCHANGED <<accepted, played>>

Next == \/ \E n \in 1..Capacity : Put(n) \/ Get(n)
        \/ Clear

Spec == Init /\ [][Next]_vars
=============================================================================
