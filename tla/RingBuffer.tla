----------------------------- MODULE RingBuffer -----------------------------
(***************************************************************************)
(* src/src/ring_buffer.cpp: the lock-free PCM ring between the source's    *)
(* pump (producer, the control-loop thread) and FMOD's mixer (consumer,    *)
(* the DSP read callback).  Each operation is split at its loads and       *)
(* stores of the shared positions and at every unit it copies, because the *)
(* two threads interleave there.                                           *)
(*                                                                         *)
(* drain() stores read_pos_ as well.  It is called by the control-loop     *)
(* thread and, under swap_mutex_, by whoever swaps the source.  Writes     *)
(* happen in pump_once, on the control-loop thread and under swap_mutex_,  *)
(* so a drain never overlaps a write (Drain's guard) and no write can      *)
(* separate its load from its store: it is one step.  Nothing orders it    *)
(* after a read in progress.  Next is what the code allows; QuietNext      *)
(* keeps drains out of reads, the single-consumer discipline the header    *)
(* names (SPSC).                                                           *)
(*                                                                         *)
(* A unit is one PCM frame (4 bytes: pump and callback only move whole     *)
(* frames), a multiple of which every capacity is.  A unit is labelled     *)
(* with the value write_pos_ had for it, its index in the accepted stream. *)
(***************************************************************************)
EXTENDS Integers, Sequences, FiniteSets

CONSTANTS Capacity,   \* capacity_, in units
          Modulus,    \* size_t positions are taken modulo this (2^64 in the code)
          MaxChunk,   \* most units one call asks for (4096 bytes in pump and callback)
          MaxPos      \* bound of the model on the units ever accepted

ASSUME CapacityAssumption == Capacity \in Nat \ {0}
ASSUME ModulusAssumption  == Modulus \in Nat /\ Modulus > Capacity
ASSUME ChunkAssumption    == MaxChunk \in 1..Capacity
ASSUME MaxPosAssumption   == MaxPos \in Nat

VARIABLES writePos,   \* write_pos_
          readPos,    \* read_pos_
          hold,       \* hold_
          data,       \* data_: the label in each slot, -1 before the first write
          prod,       \* write() in progress: pc, its w and n, units copied
          cons,       \* read() in progress: pc, its r and n, units copied out
          played,     \* labels handed to the mixer by completed reads
          discarded   \* write_pos_ at the latest drain

vars == <<writePos, readPos, hold, data, prod, cons, played, discarded>>

Slots == 0..(Capacity - 1)

\* data_ index of a position (pos & mask_; capacity_ is a power of two).
Slot(pos) == pos % Capacity

\* capacity_ - (w - r) in size_t arithmetic.
Space(w, r) == (Capacity - (w - r)) % Modulus

\* write() accepts a block only when all of it fits.
UncheckedFits(n) == n <= Capacity
Fits(n) == Space(writePos, readPos) >= n

\* write() publishes its block when the whole of it is copied.
PublishFirst == prod.done <= prod.n
BlockCopied == prod.done = prod.n

\* read() takes at most what is available.
Clamped(n, avail) == IF n > avail THEN avail ELSE n

\* What read() stores in read_pos_, and what drain() stores there.
NotAdvanced == readPos
AllConsumed == writePos
PosAfterRead == cons.r + cons.n
PosAfterDrain == writePos

NoLabel == -1
Labels == 0..MaxPos \cup {NoLabel}

NoWrite == [pc |-> "idle", w |-> 0, n |-> 0, done |-> 0]
NoRead  == [pc |-> "idle", r |-> 0, n |-> 0, got |-> <<>>]

Init == /\ writePos = 0
        /\ readPos = 0
        /\ hold = FALSE
        /\ data = [s \in Slots |-> NoLabel]
        /\ prod = NoWrite
        /\ cons = NoRead
        /\ played = {}
        /\ discarded = 0

-----------------------------------------------------------------------------
(* write(src, n), on the producer.  Its own position needs no separate     *)
(* load; a block that does not fit is refused as a whole.                  *)

WriteBegin(n) ==
    /\ prod.pc = "idle"
    /\ Fits(n)
    /\ writePos + n <= MaxPos
    /\ prod' = [pc |-> "copy", w |-> writePos, n |-> n, done |-> 0]
    /\ UNCHANGED <<writePos, readPos, hold, data, cons, played, discarded>>

WriteCopy ==
    /\ prod.pc = "copy"
    /\ prod.done < prod.n
    /\ data' = [data EXCEPT ![Slot(prod.w + prod.done)] = prod.w + prod.done]
    /\ prod' = [prod EXCEPT !.done = @ + 1]
    /\ UNCHANGED <<writePos, readPos, hold, cons, played, discarded>>

WriteCommit ==
    /\ prod.pc = "copy"
    /\ BlockCopied
    /\ writePos' = prod.w + prod.n
    /\ prod' = NoWrite
    /\ UNCHANGED <<readPos, hold, data, cons, played, discarded>>

-----------------------------------------------------------------------------
(* read(dst, n), on the consumer: refused while held, partial when fewer   *)
(* than n units are there.                                                 *)

ReadBegin(n) ==
    /\ cons.pc = "idle"
    /\ ~hold
    /\ cons' = [pc |-> "load", r |-> readPos, n |-> n, got |-> <<>>]
    /\ UNCHANGED <<writePos, readPos, hold, data, prod, played, discarded>>

ReadAvail ==
    /\ cons.pc = "load"
    /\ LET avail == writePos - cons.r IN
       cons' = IF avail = 0
               THEN NoRead
               ELSE [cons EXCEPT !.pc = "copy",
                                 !.n = Clamped(@, avail)]
    /\ UNCHANGED <<writePos, readPos, hold, data, prod, played, discarded>>

ReadCopy ==
    /\ cons.pc = "copy"
    /\ Len(cons.got) < cons.n
    /\ cons' = [cons EXCEPT !.got = Append(@, data[Slot(cons.r + Len(@))])]
    /\ UNCHANGED <<writePos, readPos, hold, data, prod, played, discarded>>

ReadCommit ==
    /\ cons.pc = "copy"
    /\ Len(cons.got) = cons.n
    /\ readPos' = PosAfterRead
    /\ played' = played \cup {cons.got[i] : i \in 1..cons.n}
    /\ cons' = NoRead
    /\ UNCHANGED <<writePos, hold, data, prod, discarded>>

-----------------------------------------------------------------------------
\* drain(): read_pos_ := write_pos_.
Drain ==
    /\ prod.pc = "idle"
    /\ readPos' = PosAfterDrain
    /\ discarded' = writePos
    /\ UNCHANGED <<writePos, hold, data, prod, cons, played>>

\* set_hold(on)
SetHold(on) ==
    /\ hold' = on
    /\ UNCHANGED <<writePos, readPos, data, prod, cons, played, discarded>>

Writer == (\E n \in 1..MaxChunk : WriteBegin(n)) \/ WriteCopy \/ WriteCommit
Reader == (\E n \in 1..MaxChunk : ReadBegin(n)) \/ ReadAvail \/ ReadCopy \/ ReadCommit
Holder == \E on \in BOOLEAN : SetHold(on)

Next == Writer \/ Reader \/ Holder \/ Drain
Spec == Init /\ [][Next]_vars

\* Single-consumer discipline: no drain while a read is in progress.
QuietDrain == cons.pc = "idle" /\ Drain
QuietNext == Writer \/ Reader \/ Holder \/ QuietDrain
QuietSpec == Init /\ [][QuietNext]_vars

-----------------------------------------------------------------------------
(* Properties                                                              *)

TypeOK ==
    /\ writePos \in 0..MaxPos
    /\ readPos \in 0..MaxPos
    /\ hold \in BOOLEAN
    /\ data \in [Slots -> Labels]
    /\ prod \in [pc : {"idle", "copy"}, w : 0..MaxPos, n : 0..MaxChunk, done : 0..MaxChunk]
    /\ cons \in [pc : {"idle", "load", "copy"}, r : 0..MaxPos, n : 0..MaxChunk,
                 got : Seq(Labels)]
    /\ played \subseteq Labels
    /\ discarded \in 0..MaxPos

\* The consumer never runs past what the producer has published, whatever a
\* drain does in between (w - r in readable() and read() never wraps).
NeverAhead ==
    /\ readPos <= writePos
    /\ cons.pc = "copy" => cons.r + cons.n <= writePos

\* The unread window fits the buffer, so capacity_ - (w - r) in write() and
\* writable() never wraps to a huge free space.
Occupancy == writePos - readPos \in 0..Capacity

\* A read copies out exactly the units of its window, in order: the producer
\* never overwrites a slot the mixer's memcpy is still on.
NoTornRead ==
    cons.pc = "copy" => \A i \in 1..Len(cons.got) : cons.got[i] = cons.r + i - 1

\* The mixer is never handed a unit it was handed before, nor an older one.
NoReplay ==
    cons.pc = "copy" => \A i \in 1..Len(cons.got), x \in played : x < cons.got[i]

\* "Discard everything currently in flight" (ring_buffer.hpp:28): once the
\* reads a drain overlapped are over, nothing accepted before it is readable.
\* The code does not keep it (RingBuffer_undrained.cfg).
DrainDiscards == cons.pc = "idle" => readPos >= discarded

\* Under the single-consumer discipline the ring is a bounded FIFO: a write
\* appends at its commit, a read removes at its commit, a drain empties.
Queue == INSTANCE PcmQueue
             WITH queue <- [i \in 1..(writePos - readPos) |-> data[Slot(readPos + i - 1)]],
                  accepted <- writePos
ImplementsQueue == Queue!Spec

-----------------------------------------------------------------------------
(* Inductive invariants (proved in RingBufferProofs, checked here first).  *)

\* A write in progress: its block starts at write_pos_, nobody else moves it.
WriteInProgress ==
    prod.pc = "copy" => /\ prod.w = writePos
                        /\ prod.n \in 1..MaxChunk
                        /\ prod.done <= prod.n
                        /\ prod.w + prod.n <= MaxPos

\* A read in progress: its window was published when it loaded write_pos_.
ReadInProgress ==
    /\ cons.pc = "load" => cons.r <= writePos /\ cons.n >= 1 /\ cons.got = <<>>
    /\ cons.pc = "copy" => cons.n >= 1 /\ Len(cons.got) <= cons.n

AnyInv == TypeOK /\ NeverAhead /\ WriteInProgress /\ ReadInProgress

\* Under the discipline nobody else moves read_pos_ under a read.
ReaderOwnsReadPos == cons.pc # "idle" => cons.r = readPos

\* The space a write was given stays free until it commits.
WriteFits == prod.pc = "copy" => writePos + prod.n - readPos <= Capacity

\* Every unread unit, and every unit the writer has copied, is in its slot.
WindowIntact ==
    /\ \A p \in readPos..(writePos - 1) : data[Slot(p)] = p
    /\ prod.pc = "copy" =>
          \A p \in writePos..(writePos + prod.done - 1) : data[Slot(p)] = p

\* What was played is behind read_pos_.
PlayedBehind == \A x \in played : x < readPos

QuietInv == /\ AnyInv /\ Occupancy /\ ReaderOwnsReadPos /\ WriteFits
            /\ WindowIntact /\ NoTornRead /\ PlayedBehind
=============================================================================
