-------------------------- MODULE RingBufferProofs --------------------------
(***************************************************************************)
(* Proofs about the PCM ring, for every capacity, chunk size and size_t    *)
(* modulus.  Part 1 is about everything the code allows (Spec, drains at   *)
(* any moment); part 2 about the single-consumer discipline (QuietSpec),   *)
(* under which, as part 3 shows, the ring implements PcmQueue.             *)
(***************************************************************************)
EXTENDS RingBuffer, SequenceTheorems, TLAPS

(* Index arithmetic of the ring. *)

\* A slot index is inside the buffer.
LEMMA ModRange == ASSUME NEW c \in Nat \ {0}, NEW p \in Nat
                  PROVE  p % c \in 0..(c - 1)
  OBVIOUS

\* A value below the modulus is its own remainder.
LEMMA ModSmall == ASSUME NEW c \in Nat \ {0}, NEW p \in Nat, p < c
                  PROVE  p % c = p
  OBVIOUS

\* Division with remainder.
LEMMA DivMod == ASSUME NEW c \in Nat \ {0}, NEW p \in Nat
                PROVE  p = c * (p \div c) + (p % c) /\ p \div c \in Nat
  OBVIOUS

\* Consecutive multiples of c are c apart.
LEMMA MulGrow == ASSUME NEW c \in Nat \ {0}, NEW a \in Nat, NEW b \in Nat, a < b
                 PROVE  c * b >= c * a + c
<1>1. b - a \in Nat /\ b - a >= 1
  OBVIOUS
<1>2. c * b = c * a + c * (b - a)
  OBVIOUS
<1>3. c * (b - a) >= c
  BY <1>1
<1> QED
  BY <1>2, <1>3

\* Two positions less than a capacity apart never share a slot.
LEMMA ModInjective == ASSUME NEW c \in Nat \ {0}, NEW p \in Nat, NEW q \in Nat,
                             p < q, q - p < c
                      PROVE  p % c # q % c
<1> SUFFICES ASSUME p % c = q % c
             PROVE  FALSE
  OBVIOUS
<1> DEFINE a == p \div c
           b == q \div c
           m == p % c
<1>1. p = c * a + m /\ q = c * b + m /\ a \in Nat /\ b \in Nat /\ m \in 0..(c - 1)
  BY DivMod, ModRange
<1> HIDE DEF a, b, m
<1>2. CASE a < b
  BY <1>1, <1>2, MulGrow
<1>3. CASE a = b
  BY <1>1, <1>3
<1>4. CASE b < a
  BY <1>1, <1>4, MulGrow
<1> QED
  BY <1>1, <1>2, <1>3, <1>4

LEMMA SlotInRange == ASSUME NEW p \in Nat
                     PROVE  Slot(p) \in Slots
  BY ModRange, CapacityAssumption DEF Slot, Slots

LEMMA SlotInjective == ASSUME NEW p \in Nat, NEW q \in Nat, p # q,
                              p - q < Capacity, q - p < Capacity
                       PROVE  Slot(p) # Slot(q)
<1>1. CASE p < q
  BY <1>1, ModInjective, CapacityAssumption DEF Slot
<1>2. CASE q < p
  BY <1>2, ModInjective, CapacityAssumption DEF Slot
<1> QED
  BY <1>1, <1>2

\* While the unread window fits, capacity_ - (w - r) does not wrap.
LEMMA SpaceExact == ASSUME NEW w \in Nat, NEW r \in Nat, w - r \in 0..Capacity
                    PROVE  Space(w, r) = Capacity - (w - r)
  BY ModSmall, CapacityAssumption, ModulusAssumption DEF Space

-----------------------------------------------------------------------------
(* Part 1: whatever drain() interrupts.                                    *)

\* The resting value of a read in progress has its type.
LEMMA NoReadType == NoRead \in [pc : {"idle", "load", "copy"}, r : 0..MaxPos,
                                n : 0..MaxChunk, got : Seq(Labels)]
<1>1. <<>> \in Seq(Labels)
  OBVIOUS
<1>2. 0 \in 0..MaxPos /\ 0 \in 0..MaxChunk
  BY MaxPosAssumption, ChunkAssumption, CapacityAssumption
<1> QED
  BY <1>1, <1>2 DEF NoRead

LEMMA InitAny == Init => AnyInv
<1> SUFFICES ASSUME Init
             PROVE  AnyInv
  OBVIOUS
<1>1. 0 \in 0..MaxPos /\ 0 \in 0..MaxChunk
  BY MaxPosAssumption, ChunkAssumption, CapacityAssumption
<1>2. data \in [Slots -> Labels]
  BY DEF Init, Labels
<1>3. TypeOK
  BY <1>1, <1>2, NoReadType DEF Init, TypeOK, NoWrite
<1> QED
  BY <1>3 DEF Init, AnyInv, NeverAhead, WriteInProgress, ReadInProgress, NoWrite, NoRead

LEMMA WriterKeepsAny == ASSUME AnyInv, Writer
                        PROVE  AnyInv'
<1> USE MaxPosAssumption, ChunkAssumption, CapacityAssumption
<1>1. ASSUME NEW n \in 1..MaxChunk, WriteBegin(n)
      PROVE  AnyInv'
  BY <1>1 DEF WriteBegin, AnyInv, TypeOK, NeverAhead, WriteInProgress, ReadInProgress
<1>2. ASSUME WriteCopy
      PROVE  AnyInv'
  <2>0. /\ prod.w \in 0..MaxPos /\ prod.n \in 0..MaxChunk /\ prod.done \in 0..MaxChunk
        /\ prod.done < prod.n /\ prod.w + prod.n <= MaxPos
    BY <1>2 DEF WriteCopy, AnyInv, TypeOK, WriteInProgress
  <2>1. prod.w + prod.done \in Labels /\ prod.done + 1 \in 0..MaxChunk
    BY <2>0 DEF Labels
  <2>3. /\ prod'.done = prod.done + 1
        /\ prod'.w = prod.w /\ prod'.n = prod.n /\ prod'.pc = "copy"
        /\ prod' \in [pc : {"idle", "copy"}, w : 0..MaxPos, n : 0..MaxChunk,
                      done : 0..MaxChunk]
    BY <1>2, <2>1 DEF WriteCopy, AnyInv, TypeOK
  <2>2. data' \in [Slots -> Labels]
    BY <1>2, <2>1 DEF WriteCopy, AnyInv, TypeOK
  <2>4. TypeOK'
    BY <1>2, <2>2, <2>3 DEF WriteCopy, AnyInv, TypeOK
  <2>5. NeverAhead' /\ ReadInProgress'
    BY <1>2 DEF WriteCopy, AnyInv, NeverAhead, ReadInProgress
  <2>6. WriteInProgress'
    BY <1>2, <2>0, <2>3 DEF WriteCopy, AnyInv, WriteInProgress
  <2> QED
    BY <2>4, <2>5, <2>6 DEF AnyInv
<1>3. ASSUME WriteCommit
      PROVE  AnyInv'
  BY <1>3 DEF WriteCommit, BlockCopied, NoWrite, AnyInv, TypeOK, NeverAhead,
              WriteInProgress, ReadInProgress
<1> QED
  BY <1>1, <1>2, <1>3 DEF Writer

LEMMA ReaderKeepsAny == ASSUME AnyInv, Reader
                        PROVE  AnyInv'
<1> USE MaxPosAssumption, ChunkAssumption, CapacityAssumption
<1>1. ASSUME NEW n \in 1..MaxChunk, ReadBegin(n)
      PROVE  AnyInv'
  <2>1. <<>> \in Seq(Labels)
    OBVIOUS
  <2> QED
    BY <1>1, <2>1 DEF ReadBegin, AnyInv, TypeOK, NeverAhead, WriteInProgress, ReadInProgress
<1>2. ASSUME ReadAvail
      PROVE  AnyInv'
  <2>1. <<>> \in Seq(Labels) /\ Len(<<>>) = 0
    OBVIOUS
  <2>2. CASE writePos - cons.r = 0
    BY <1>2, <2>1, <2>2 DEF ReadAvail, NoRead, AnyInv, TypeOK, NeverAhead,
                            WriteInProgress, ReadInProgress
  <2>3. CASE writePos - cons.r # 0
    <3> DEFINE m == Clamped(cons.n, writePos - cons.r)
    <3>1. m \in 0..MaxChunk /\ m >= 1 /\ cons.r + m <= writePos
      <4>1. /\ cons.r \in Nat /\ writePos \in Nat /\ cons.n \in 0..MaxChunk
            /\ cons.r <= writePos /\ cons.n >= 1
        BY <1>2 DEF ReadAvail, AnyInv, TypeOK, ReadInProgress
      <4> QED
        BY <2>3, <4>1 DEF Clamped
    <3> HIDE DEF m
    <3>2. cons' = [cons EXCEPT !.pc = "copy", !.n = m]
      BY <1>2, <2>3 DEF ReadAvail, m
    <3>3. /\ cons'.pc = "copy" /\ cons'.r = cons.r /\ cons'.n = m /\ cons'.got = cons.got
          /\ cons' \in [pc : {"idle", "load", "copy"}, r : 0..MaxPos, n : 0..MaxChunk,
                        got : Seq(Labels)]
      BY <3>1, <3>2 DEF AnyInv, TypeOK
    <3>4. Len(cons.got) = 0
      BY <1>2 DEF ReadAvail, AnyInv, ReadInProgress
    <3>5. UNCHANGED <<writePos, readPos, hold, data, prod, played, discarded>>
      BY <1>2 DEF ReadAvail
    <3>6. TypeOK'
      BY <3>3, <3>5 DEF AnyInv, TypeOK
    <3>7. NeverAhead' /\ WriteInProgress'
      BY <3>1, <3>3, <3>5 DEF AnyInv, NeverAhead, WriteInProgress
    <3>8. ReadInProgress'
      BY <3>1, <3>3, <3>4 DEF ReadInProgress
    <3> QED
      BY <3>6, <3>7, <3>8 DEF AnyInv
  <2> QED
    BY <2>2, <2>3
<1>3. ASSUME ReadCopy
      PROVE  AnyInv'
  <2> DEFINE v == data[Slot(cons.r + Len(cons.got))]
  <2>1. v \in Labels
    <3>1. cons.got \in Seq(Labels) /\ cons.r \in Nat
      BY DEF AnyInv, TypeOK
    <3>2. cons.r + Len(cons.got) \in Nat
      BY <3>1
    <3> QED
      BY <3>2, SlotInRange DEF AnyInv, TypeOK
  <2> HIDE DEF v
  <2>3. cons' = [cons EXCEPT !.got = Append(cons.got, v)]
    BY <1>3 DEF ReadCopy, v
  <2>4. Append(cons.got, v) \in Seq(Labels) /\ Len(Append(cons.got, v)) = Len(cons.got) + 1
    BY <2>1 DEF AnyInv, TypeOK
  <2>2. /\ cons'.got \in Seq(Labels)
        /\ Len(cons'.got) = Len(cons.got) + 1
        /\ cons'.pc = "copy" /\ cons'.r = cons.r /\ cons'.n = cons.n
        /\ cons' \in [pc : {"idle", "load", "copy"}, r : 0..MaxPos, n : 0..MaxChunk,
                      got : Seq(Labels)]
    BY <1>3, <2>3, <2>4 DEF ReadCopy, AnyInv, TypeOK
  <2>5. Len(cons.got) \in Nat
    BY DEF AnyInv, TypeOK
  <2>6. UNCHANGED <<writePos, readPos, hold, data, prod, played, discarded>>
    BY <1>3 DEF ReadCopy
  <2>7. TypeOK'
    BY <2>2, <2>6 DEF AnyInv, TypeOK
  <2>8. NeverAhead' /\ WriteInProgress'
    BY <1>3, <2>2, <2>6 DEF ReadCopy, AnyInv, NeverAhead, WriteInProgress
  <2>9. ReadInProgress'
    <3>1. cons.n >= 1 /\ Len(cons.got) < cons.n /\ cons.n \in Nat
      BY <1>3 DEF ReadCopy, AnyInv, ReadInProgress, TypeOK
    <3> QED
      BY <2>2, <2>5, <3>1 DEF ReadInProgress
  <2> QED
    BY <2>7, <2>8, <2>9 DEF AnyInv
<1>4. ASSUME ReadCommit
      PROVE  AnyInv'
  <2>1. <<>> \in Seq(Labels) /\ Len(<<>>) = 0
    OBVIOUS
  <2>2. \A i \in 1..cons.n : cons.got[i] \in Labels
    <3>1. cons.got \in Seq(Labels) /\ Len(cons.got) = cons.n
      BY <1>4 DEF ReadCommit, AnyInv, TypeOK
    <3> QED
      BY <3>1
  <2> QED
    BY <1>4, <2>1, <2>2 DEF ReadCommit, PosAfterRead, NoRead, AnyInv, TypeOK, NeverAhead,
                            WriteInProgress, ReadInProgress
<1> QED
  BY <1>1, <1>2, <1>3, <1>4 DEF Reader

LEMMA StepKeepsAny == AnyInv /\ [Next]_vars => AnyInv'
<1> SUFFICES ASSUME AnyInv, [Next]_vars
             PROVE  AnyInv'
  OBVIOUS
<1>1. CASE Writer
  BY <1>1, WriterKeepsAny
<1>2. CASE Reader
  BY <1>2, ReaderKeepsAny
<1>3. CASE Holder
  BY <1>3 DEF Holder, SetHold, AnyInv, TypeOK, NeverAhead, WriteInProgress, ReadInProgress
<1>4. CASE Drain
  BY <1>4 DEF Drain, PosAfterDrain, AnyInv, TypeOK, NeverAhead, WriteInProgress, ReadInProgress
<1>5. CASE UNCHANGED vars
  BY <1>5 DEF vars, AnyInv, TypeOK, NeverAhead, WriteInProgress, ReadInProgress
<1> QED
  BY <1>1, <1>2, <1>3, <1>4, <1>5 DEF Next

\* AnyInv is an inductive invariant of everything the code allows.
THEOREM AnyInvariant == Spec => []AnyInv
  BY InitAny, StepKeepsAny, PTL DEF Spec

\* Positions, labels and program counters keep their types, even with a drain
\* in the middle of a read.
THEOREM RingTypes == Spec => []TypeOK
<1>1. AnyInv => TypeOK
  BY DEF AnyInv
<1> QED
  BY <1>1, AnyInvariant, PTL

\* The mixer never reads past what the pump has published, even with a drain in
\* the middle of a read (ring_buffer.cpp:44-65).
THEOREM ConsumerNeverAhead == Spec => []NeverAhead
<1>1. AnyInv => NeverAhead
  BY DEF AnyInv
<1> QED
  BY <1>1, AnyInvariant, PTL
-----------------------------------------------------------------------------
(* Part 2: the single-consumer discipline.                                 *)

QuietParts == /\ Occupancy /\ ReaderOwnsReadPos /\ WriteFits
              /\ WindowIntact /\ NoTornRead /\ PlayedBehind

LEMMA InitQuiet == Init => QuietInv
<1> SUFFICES ASSUME Init
             PROVE  QuietInv
  OBVIOUS
<1>1. AnyInv
  BY InitAny
<1> QED
  BY <1>1, CapacityAssumption
  DEF Init, NoWrite, NoRead, QuietInv, Occupancy, ReaderOwnsReadPos, WriteFits,
      WindowIntact, NoTornRead, PlayedBehind

\* The arithmetic facts about positions that the steps below share.
LEMMA Positions == ASSUME AnyInv
                   PROVE  /\ writePos \in Nat /\ readPos \in Nat /\ discarded \in Nat
                          /\ prod.w \in Nat /\ prod.n \in Nat /\ prod.done \in Nat
                          /\ cons.r \in Nat /\ cons.n \in Nat /\ Len(cons.got) \in Nat
                          /\ cons.got \in Seq(Labels)
                          /\ played \subseteq Labels
                          /\ Labels \subseteq Int
  BY MaxPosAssumption, ChunkAssumption DEF AnyInv, TypeOK, Labels, NoLabel

LEMMA WriterKeepsQuiet == ASSUME QuietInv, Writer
                          PROVE  QuietParts'
<1>0. AnyInv
  BY DEF QuietInv
<1>1. ASSUME NEW n \in 1..MaxChunk, WriteBegin(n)
      PROVE  QuietParts'
  <2>1. Capacity - (writePos - readPos) >= n
    BY <1>0, <1>1, SpaceExact, Positions DEF WriteBegin, Fits, QuietInv, Occupancy
  <2>2. prod'.pc = "copy" /\ prod'.n = n /\ prod'.done = 0
    BY <1>1 DEF WriteBegin
  <2>3. /\ writePos \in Nat /\ readPos \in Nat
        /\ UNCHANGED <<writePos, readPos, data, cons, played, discarded>>
    BY <1>0, <1>1, Positions DEF WriteBegin
  <2>4. WriteFits'
    BY <2>1, <2>2, <2>3, CapacityAssumption DEF WriteFits
  <2>5. WindowIntact'
    BY <2>2, <2>3 DEF QuietInv, WindowIntact, Slot
  <2> QED
    BY <2>3, <2>4, <2>5
    DEF QuietParts, QuietInv, Occupancy, ReaderOwnsReadPos, NoTornRead, PlayedBehind
<1>2. ASSUME WriteCopy
      PROVE  QuietParts'
  <2> DEFINE p0 == writePos + prod.done
  <2>1. /\ prod.pc = "copy" /\ prod.w = writePos /\ prod.done < prod.n
        /\ writePos + prod.n - readPos <= Capacity
        /\ readPos <= writePos
    BY <1>0, <1>2 DEF WriteCopy, QuietInv, WriteFits, AnyInv, WriteInProgress, NeverAhead
  <2>2. /\ prod'.pc = "copy" /\ prod'.done = prod.done + 1 /\ prod'.n = prod.n
    BY <1>0, <1>2 DEF WriteCopy, AnyInv, TypeOK
  <2>3. p0 \in Nat /\ p0 - readPos < Capacity /\ p0 >= readPos
    <3>1. writePos \in Nat /\ readPos \in Nat /\ prod.done \in Nat /\ prod.n \in Nat
      BY <1>0, Positions
    <3> QED
      BY <2>1, <3>1, CapacityAssumption
  <2>4. Slot(p0) \in Slots /\ data' = [data EXCEPT ![Slot(p0)] = p0]
    BY <1>2, <2>1, <2>3, SlotInRange DEF WriteCopy
  <2>5. data'[Slot(p0)] = p0
    BY <1>0, <2>4 DEF AnyInv, TypeOK
  <2>6. ASSUME NEW p \in readPos..(p0 - 1)
        PROVE  data'[Slot(p)] = p
    <3>0. readPos \in Nat
      BY <1>0, Positions
    <3> HIDE DEF p0
    <3>1. p \in Nat /\ p # p0 /\ p - p0 < Capacity /\ p0 - p < Capacity
      BY <2>3, <3>0, CapacityAssumption
    <3> USE DEF p0
    <3>2. Slot(p) # Slot(p0) /\ Slot(p) \in Slots
      BY <2>3, <3>1, SlotInjective, SlotInRange
    <3>3. data'[Slot(p)] = data[Slot(p)]
      BY <1>0, <2>4, <3>2 DEF AnyInv, TypeOK
    <3>4. data[Slot(p)] = p
      <4>1. readPos \in Nat /\ writePos \in Nat /\ prod.done \in Nat
        BY <1>0, Positions
      <4>2. p \in readPos..(writePos - 1) \/ p \in writePos..(writePos + prod.done - 1)
        BY <4>1
      <4> QED
        BY <2>1, <4>2 DEF QuietInv, WindowIntact
    <3> QED
      BY <3>3, <3>4
  <2>7. WindowIntact'
    <3>1. \A p \in readPos..p0 : data'[Slot(p)] = p
      <4>1. readPos \in Nat /\ p0 \in Nat
        BY <1>0, <2>3, Positions
      <4> HIDE DEF p0
      <4> QED
        BY <2>5, <2>6, <4>1
    <3>2. /\ readPos \in Nat /\ writePos \in Nat /\ prod.done \in Nat
          /\ writePos' = writePos /\ readPos' = readPos
      BY <1>0, <1>2, Positions DEF WriteCopy
    <3>3. (\A p \in readPos..(writePos - 1) : data[Slot(p)] = p)'
      BY <3>1, <3>2 DEF Slot
    <3>4. (\A p \in writePos..(writePos + prod.done - 1) : data[Slot(p)] = p)'
      BY <2>1, <2>2, <3>1, <3>2 DEF Slot
    <3> QED
      BY <3>3, <3>4 DEF WindowIntact
  <2> QED
    BY <1>0, <1>2, <2>1, <2>2, <2>7, Positions
    DEF WriteCopy, QuietParts, QuietInv, Occupancy, ReaderOwnsReadPos, WriteFits,
        NoTornRead, PlayedBehind
<1>3. ASSUME WriteCommit
      PROVE  QuietParts'
  <2>1. /\ prod.pc = "copy" /\ prod.w = writePos /\ prod.done = prod.n
        /\ writePos' = writePos + prod.n /\ readPos <= writePos
        /\ writePos + prod.n - readPos <= Capacity
        /\ prod'.pc = "idle"
    BY <1>0, <1>3 DEF WriteCommit, BlockCopied, NoWrite, QuietInv, WriteFits,
                      AnyInv, WriteInProgress, NeverAhead
  <2>2. WindowIntact'
    <3>1. /\ \A p \in readPos..(writePos - 1) : data[Slot(p)] = p
          /\ \A p \in writePos..(writePos + prod.done - 1) : data[Slot(p)] = p
      BY <2>1 DEF QuietInv, WindowIntact
    <3>2. /\ readPos \in Nat /\ writePos \in Nat /\ prod.n \in Nat
      BY <1>0, Positions
    <3>3. ASSUME NEW p \in readPos..(writePos + prod.n - 1)
          PROVE  data[Slot(p)] = p
      <4>1. p \in readPos..(writePos - 1) \/ p \in writePos..(writePos + prod.done - 1)
        BY <2>1, <3>2
      <4> QED
        BY <3>1, <4>1
    <3>4. readPos' = readPos /\ data' = data
      BY <1>3 DEF WriteCommit
    <3>5. (\A p \in readPos..(writePos - 1) : data[Slot(p)] = p)'
      <4>1. \A p \in readPos..(writePos + prod.n - 1) : data[Slot(p)] = p
        BY <3>3
      <4>2. readPos'..(writePos' - 1) = readPos..(writePos + prod.n - 1)
        BY <2>1, <3>2, <3>4
      <4> QED
        BY <3>4, <4>1, <4>2, CapacityAssumption DEF Slot
    <3> QED
      BY <2>1, <3>5 DEF WindowIntact
  <2> QED
    <3>1. /\ readPos \in Nat /\ writePos \in Nat /\ prod.n \in Nat
          /\ UNCHANGED <<readPos, cons, played, discarded>>
      BY <1>0, <1>3, Positions DEF WriteCommit
    <3>2. Occupancy'
      BY <2>1, <3>1, CapacityAssumption DEF Occupancy
    <3> QED
      BY <2>1, <2>2, <3>1, <3>2
      DEF QuietParts, QuietInv, ReaderOwnsReadPos, WriteFits, NoTornRead, PlayedBehind
<1> QED
  BY <1>1, <1>2, <1>3 DEF Writer

LEMMA ReaderKeepsQuiet == ASSUME QuietInv, Reader
                          PROVE  QuietParts'
<1>0. AnyInv
  BY DEF QuietInv
<1>1. ASSUME NEW n \in 1..MaxChunk, ReadBegin(n)
      PROVE  QuietParts'
  BY <1>0, <1>1, Positions
  DEF ReadBegin, QuietParts, QuietInv, Occupancy, ReaderOwnsReadPos, WriteFits,
      WindowIntact, NoTornRead, PlayedBehind
<1>2. ASSUME ReadAvail
      PROVE  QuietParts'
  <2>1. \/ cons' = NoRead
        \/ cons'.pc = "copy" /\ cons'.r = cons.r /\ cons'.got = cons.got
    BY <1>0, <1>2 DEF ReadAvail, AnyInv, TypeOK
  <2>2. cons.got = <<>> /\ cons.pc = "load"
    BY <1>0, <1>2 DEF ReadAvail, AnyInv, ReadInProgress
  <2>3. UNCHANGED <<writePos, readPos, data, prod, played, discarded>>
    BY <1>2 DEF ReadAvail
  <2>4. Occupancy' /\ WriteFits' /\ WindowIntact' /\ PlayedBehind'
    BY <2>3 DEF QuietInv, Occupancy, WriteFits, WindowIntact, PlayedBehind, Slot
  <2>5. ReaderOwnsReadPos'
    BY <2>1, <2>2, <2>3 DEF QuietInv, ReaderOwnsReadPos, NoRead
  <2>6. NoTornRead'
    BY <2>1, <2>2 DEF NoTornRead, NoRead
  <2> QED
    BY <2>4, <2>5, <2>6 DEF QuietParts
<1>3. ASSUME ReadCopy
      PROVE  QuietParts'
  <2> DEFINE k == Len(cons.got)
  <2>1. /\ cons.r = readPos /\ k < cons.n /\ cons.r + cons.n <= writePos
        /\ \A i \in 1..k : cons.got[i] = cons.r + i - 1
    BY <1>0, <1>3 DEF ReadCopy, QuietInv, ReaderOwnsReadPos, NoTornRead, AnyInv, NeverAhead
  <2>2. cons.r + k \in readPos..(writePos - 1)
    <3>1. readPos \in Nat /\ writePos \in Nat /\ cons.n \in Nat /\ k \in Nat
      BY <1>0, Positions
    <3> HIDE DEF k
    <3> QED
      BY <2>1, <3>1
  <2>3. data[Slot(cons.r + k)] = cons.r + k
    <3>1. \A p \in readPos..(writePos - 1) : data[Slot(p)] = p
      BY DEF QuietInv, WindowIntact
    <3> QED
      BY <2>2, <3>1
  <2>4. cons' = [cons EXCEPT !.got = Append(cons.got, cons.r + k)]
    BY <1>3, <2>3 DEF ReadCopy
  <2>5. cons'.pc = cons.pc /\ cons'.r = cons.r /\ cons'.got = Append(cons.got, cons.r + k)
    BY <1>0, <2>4 DEF AnyInv, TypeOK
  <2>6. cons.r + k \in Labels
    <3>1. writePos \in 0..MaxPos /\ readPos \in Nat /\ cons.r \in Nat /\ k \in Nat
      BY <1>0, Positions DEF AnyInv, TypeOK
    <3> QED
      BY <2>2, <3>1, MaxPosAssumption DEF Labels
  <2>7. \A i \in 1..Len(cons'.got) : cons'.got[i] = cons'.r + i - 1
    <3>1. cons.got \in Seq(Labels) /\ k \in Nat /\ cons.r \in Nat
      BY <1>0, Positions
    <3>2. /\ Len(Append(cons.got, cons.r + k)) = k + 1
          /\ \A i \in 1..k : Append(cons.got, cons.r + k)[i] = cons.got[i]
          /\ Append(cons.got, cons.r + k)[k + 1] = cons.r + k
      BY <2>6, <3>1
    <3> HIDE DEF k
    <3>3. ASSUME NEW i \in 1..(k + 1)
          PROVE  Append(cons.got, cons.r + k)[i] = cons.r + i - 1
      <4>1. i \in 1..k \/ i = k + 1
        BY <3>1
      <4>2. CASE i \in 1..k
        BY <2>1, <3>2, <4>2
      <4>3. CASE i = k + 1
        BY <3>1, <3>2, <4>3
      <4> QED
        BY <4>1, <4>2, <4>3
    <3> QED
      BY <2>5, <3>2, <3>3
  <2>8. UNCHANGED <<writePos, readPos, data, prod, played, discarded>>
    BY <1>3 DEF ReadCopy
  <2>9. Occupancy' /\ WriteFits' /\ WindowIntact' /\ PlayedBehind'
    BY <2>8 DEF QuietInv, Occupancy, WriteFits, WindowIntact, PlayedBehind, Slot
  <2>10. ReaderOwnsReadPos' /\ NoTornRead'
    BY <2>1, <2>5, <2>7, <2>8 DEF ReaderOwnsReadPos, NoTornRead
  <2> QED
    BY <2>9, <2>10 DEF QuietParts
<1>4. ASSUME ReadCommit
      PROVE  QuietParts'
  <2>1. /\ cons.r = readPos /\ cons.r + cons.n <= writePos /\ cons.n >= 1
        /\ readPos' = readPos + cons.n
        /\ \A i \in 1..cons.n : cons.got[i] = cons.r + i - 1
        /\ cons'.pc = "idle"
    BY <1>0, <1>4 DEF ReadCommit, PosAfterRead, NoRead, QuietInv, ReaderOwnsReadPos,
                      NoTornRead, AnyInv, NeverAhead, ReadInProgress
  <2>2. \A x \in played' : x < readPos'
    <3>1. /\ readPos \in Nat /\ cons.n \in Nat
          /\ played' = played \cup {cons.got[i] : i \in 1..cons.n}
          /\ played \subseteq Int
      BY <1>0, <1>4, Positions DEF ReadCommit
    <3>2. \A x \in played : x < readPos
      BY DEF QuietInv, PlayedBehind
    <3>3. \A i \in 1..cons.n : cons.got[i] < readPos'
      BY <2>1, <3>1
    <3>4. \A x \in played : x < readPos'
      BY <2>1, <3>1, <3>2
    <3> QED
      BY <3>1, <3>3, <3>4
  <2> QED
    <3>1. /\ readPos \in Nat /\ writePos \in Nat /\ cons.n \in Nat /\ discarded \in Nat
          /\ prod.n \in Nat
          /\ UNCHANGED <<writePos, data, prod, discarded>>
      BY <1>0, <1>4, Positions DEF ReadCommit
    <3>2. Occupancy' /\ WriteFits'
      BY <2>1, <3>1, CapacityAssumption DEF QuietInv, Occupancy, WriteFits
    <3>3. WindowIntact'
      BY <2>1, <3>1 DEF QuietInv, WindowIntact, Slot
    <3>4. PlayedBehind'
      BY <2>1, <2>2, <3>1 DEF QuietInv, PlayedBehind
    <3> QED
      BY <2>1, <3>2, <3>3, <3>4 DEF QuietParts, ReaderOwnsReadPos, NoTornRead
<1> QED
  BY <1>1, <1>2, <1>3, <1>4 DEF Reader

LEMMA StepKeepsQuiet == QuietInv /\ [QuietNext]_vars => QuietInv'
<1> SUFFICES ASSUME QuietInv, [QuietNext]_vars
             PROVE  QuietInv'
  OBVIOUS
<1>0. AnyInv /\ AnyInv'
  BY StepKeepsAny DEF QuietInv, QuietNext, QuietDrain, Next
<1>1. CASE Writer
  BY <1>0, <1>1, WriterKeepsQuiet DEF QuietParts, QuietInv
<1>2. CASE Reader
  BY <1>0, <1>2, ReaderKeepsQuiet DEF QuietParts, QuietInv
<1>3. CASE Holder
  BY <1>0, <1>3
  DEF Holder, SetHold, QuietInv, Occupancy, ReaderOwnsReadPos, WriteFits,
      WindowIntact, NoTornRead, PlayedBehind
<1>4. CASE QuietDrain
  <2>1. /\ cons.pc = "idle" /\ prod.pc = "idle" /\ readPos' = writePos
        /\ UNCHANGED <<writePos, cons, prod, played, data>> /\ discarded' = writePos
    BY <1>4 DEF QuietDrain, Drain, PosAfterDrain
  <2>2. readPos <= writePos
    BY <1>0 DEF AnyInv, NeverAhead
  <2>3. writePos \in Nat /\ readPos \in Nat /\ played \subseteq Int
    BY <1>0, Positions
  <2>4. Occupancy'
    BY <2>1, <2>3, CapacityAssumption DEF Occupancy
  <2>5. WindowIntact'
    <3>1. readPos'..(writePos' - 1) = {}
      BY <2>1, <2>3
    <3>2. (\A p \in readPos..(writePos - 1) : data[Slot(p)] = p)'
      BY <3>1
    <3> QED
      BY <2>1, <3>2 DEF WindowIntact
  <2>6. PlayedBehind'
    BY <2>1, <2>2, <2>3 DEF QuietInv, PlayedBehind
  <2>7. ReaderOwnsReadPos' /\ WriteFits' /\ NoTornRead'
    BY <2>1 DEF ReaderOwnsReadPos, WriteFits, NoTornRead
  <2> QED
    BY <1>0, <2>4, <2>5, <2>6, <2>7 DEF QuietInv
<1>5. CASE UNCHANGED vars
  BY <1>0, <1>5
  DEF vars, QuietInv, Occupancy, ReaderOwnsReadPos, WriteFits,
      WindowIntact, NoTornRead, PlayedBehind
<1> QED
  BY <1>1, <1>2, <1>3, <1>4, <1>5 DEF QuietNext

\* QuietInv is an inductive invariant under the single-consumer discipline.
THEOREM QuietInvariant == QuietSpec => []QuietInv
  BY InitQuiet, StepKeepsQuiet, PTL DEF QuietSpec

\* The unread window always fits, so the size_t free-space computation of write()
\* and writable() never wraps (ring_buffer.cpp:23-33).
THEOREM OccupancyBounded == QuietSpec => []Occupancy
<1>1. QuietInv => Occupancy
  BY DEF QuietInv
<1> QED
  BY <1>1, QuietInvariant, PTL

\* The producer never overwrites a unit the mixer's memcpy is still on
\* (ring_buffer.cpp:28-59).
THEOREM ReadsAreNeverTorn == QuietSpec => []NoTornRead
<1>1. QuietInv => NoTornRead
  BY DEF QuietInv
<1> QED
  BY <1>1, QuietInvariant, PTL

\* The mixer is handed every unit at most once and in stream order.
THEOREM PlayedOnceInOrder == QuietSpec => []NoReplay
<1>1. QuietInv => NoReplay
  <2> SUFFICES ASSUME QuietInv, cons.pc = "copy",
                      NEW i \in 1..Len(cons.got), NEW x \in played
               PROVE  x < cons.got[i]
    BY DEF NoReplay
  <2>1. cons.got[i] = readPos + i - 1 /\ x < readPos
    BY DEF QuietInv, NoTornRead, ReaderOwnsReadPos, PlayedBehind
  <2> QED
    BY <2>1, Positions DEF QuietInv
<1> QED
  BY <1>1, QuietInvariant, PTL

-----------------------------------------------------------------------------
(* Part 3: under the single-consumer discipline the ring is PcmQueue.      *)

\* The units from position r up to w, in stream order: what the unread window
\* holds.
Stream(r, w) == [i \in 1..(w - r) |-> r + i - 1]

\* The window is read off the slots it occupies.
LEMMA WindowIsStream ==
    ASSUME NEW r \in Nat, NEW w \in Nat, NEW d,
           \A p \in r..(w - 1) : d[Slot(p)] = p
    PROVE  [i \in 1..(w - r) |-> d[Slot(r + i - 1)]] = Stream(r, w)
<1>1. ASSUME NEW i \in 1..(w - r)
      PROVE  d[Slot(r + i - 1)] = r + i - 1
  <2>1. r + i - 1 \in r..(w - 1)
    OBVIOUS
  <2> QED
    BY <2>1
<1> QED
  BY <1>1 DEF Stream

\* A window is a sequence of positions.
LEMMA StreamSeq == ASSUME NEW r \in Nat, NEW w \in Nat, r <= w
                   PROVE  /\ Stream(r, w) \in Seq(Int)
                          /\ Len(Stream(r, w)) = w - r
                          /\ \A i \in 1..(w - r) : Stream(r, w)[i] = r + i - 1
<1>1. w - r \in Nat
  OBVIOUS
<1>2. \A i \in 1..(w - r) : r + i - 1 \in Int
  OBVIOUS
<1> QED
  BY <1>1, <1>2 DEF Stream

\* Publishing n units appends the next n positions.
LEMMA StreamGrows == ASSUME NEW r \in Nat, NEW w \in Nat, NEW n \in Nat, r <= w
                     PROVE  Stream(r, w + n) = Stream(r, w) \o Stream(w, w + n)
<1>1. /\ Stream(r, w) \in Seq(Int) /\ Len(Stream(r, w)) = w - r
      /\ \A i \in 1..(w - r) : Stream(r, w)[i] = r + i - 1
  BY StreamSeq
<1>2. /\ Stream(w, w + n) \in Seq(Int) /\ Len(Stream(w, w + n)) = n
      /\ \A i \in 1..n : Stream(w, w + n)[i] = w + i - 1
  <2>1. w + n \in Nat /\ w <= w + n /\ (w + n) - w = n
    OBVIOUS
  <2> QED
    BY <2>1, StreamSeq
<1>3. /\ Stream(r, w + n) \in Seq(Int) /\ Len(Stream(r, w + n)) = (w - r) + n
      /\ \A i \in 1..((w - r) + n) : Stream(r, w + n)[i] = r + i - 1
  <2>1. w + n \in Nat /\ r <= w + n /\ (w + n) - r = (w - r) + n
    OBVIOUS
  <2> QED
    BY <2>1, StreamSeq
<1>4. \A s, t \in Seq(Int) :
         /\ s \o t \in Seq(Int)
         /\ Len(s \o t) = Len(s) + Len(t)
         /\ \A i \in 1..(Len(s) + Len(t)) :
              (s \o t)[i] = IF i <= Len(s) THEN s[i] ELSE t[i - Len(s)]
  BY ConcatProperties
<1> DEFINE s == Stream(r, w)
           t == Stream(w, w + n)
           u == Stream(r, w + n)
<1> HIDE DEF s, t, u
<1>5. s \in Seq(Int) /\ t \in Seq(Int) /\ Len(s) = w - r /\ Len(t) = n
  BY <1>1, <1>2 DEF s, t
<1>6. s \o t \in Seq(Int) /\ Len(s \o t) = (w - r) + n
  BY <1>4, <1>5
<1>7. ASSUME NEW i \in 1..((w - r) + n)
      PROVE  (s \o t)[i] = r + i - 1
  <2>0. (s \o t)[i] = IF i <= w - r THEN s[i] ELSE t[i - (w - r)]
    <3>1. i \in 1..(Len(s) + Len(t))
      BY <1>5
    <3>2. (s \o t)[i] = IF i <= Len(s) THEN s[i] ELSE t[i - Len(s)]
      BY <1>4, <1>5, <3>1, Zenon
    <3> QED
      BY <1>5, <3>2, Zenon
  <2>1. CASE i <= w - r
    <3>1. i \in 1..(w - r)
      BY <2>1
    <3> QED
      BY <1>1, <2>0, <2>1, <3>1 DEF s
  <2>2. CASE ~(i <= w - r)
    <3>1. i - (w - r) \in 1..n
      BY <2>2
    <3>2. t[i - (w - r)] = w + (i - (w - r)) - 1
      BY <1>2, <3>1 DEF t
    <3> QED
      BY <2>0, <2>2, <3>2
  <2> QED
    BY <2>1, <2>2
<1>8. u \in Seq(Int) /\ Len(u) = (w - r) + n /\ \A i \in 1..((w - r) + n) : u[i] = r + i - 1
  BY <1>3 DEF u
<1>9. u = s \o t
  BY <1>6, <1>7, <1>8, SeqEqual
<1> QED
  BY <1>9 DEF s, t, u

\* Taking n units leaves the window without its n oldest.
LEMMA StreamShrinks == ASSUME NEW r \in Nat, NEW w \in Nat, NEW n \in Nat, r + n <= w
                       PROVE  Stream(r + n, w) = SubSeq(Stream(r, w), n + 1, w - r)
<1>1. /\ Stream(r, w) \in Seq(Int) /\ Len(Stream(r, w)) = w - r
      /\ \A i \in 1..(w - r) : Stream(r, w)[i] = r + i - 1
  <2>1. r <= w
    OBVIOUS
  <2> QED
    BY <2>1, StreamSeq
<1>2. /\ Stream(r + n, w) \in Seq(Int) /\ Len(Stream(r + n, w)) = (w - r) - n
      /\ \A i \in 1..((w - r) - n) : Stream(r + n, w)[i] = r + n + i - 1
  <2>1. r + n \in Nat /\ w - (r + n) = (w - r) - n
    OBVIOUS
  <2> QED
    BY <2>1, StreamSeq
<1> QED
  BY <1>1, <1>2

\* The queue of the refinement mapping: Queue's variable, in this state.
Unread == [i \in 1..(writePos - readPos) |-> data[Slot(readPos + i - 1)]]

\* In a state of QuietInv the mapped queue is the stream between the positions.
LEMMA UnreadIsStream == QuietInv => Unread = Stream(readPos, writePos)
<1> SUFFICES ASSUME QuietInv
             PROVE  Unread = Stream(readPos, writePos)
  OBVIOUS
<1>1. /\ readPos \in Nat /\ writePos \in Nat
      /\ \A p \in readPos..(writePos - 1) : data[Slot(p)] = p
  BY Positions DEF QuietInv, WindowIntact
<1> QED
  BY <1>1, WindowIsStream DEF Unread

\* The same in the state a step leads to.
LEMMA UnreadIsStreamNext == QuietInv' => Unread' = Stream(readPos', writePos')
<1>1. (QuietInv => Unread = Stream(readPos, writePos))'
  BY UnreadIsStream, PTL
<1> QED
  BY <1>1 DEF Stream

LEMMA InitIsQueueInit == Init => Queue!Init
  BY DEF Init, Queue!Init

\* A write is the abstract Put at the moment it publishes.
LEMMA CommitIsPut == ASSUME QuietInv, QuietInv', WriteCommit
                     PROVE  Queue!Put(prod.n) /\ prod.n \in 1..Capacity
<1> DEFINE n == prod.n
<1>1. /\ writePos \in Nat /\ readPos \in Nat /\ readPos <= writePos
      /\ n \in 1..MaxChunk /\ writePos + n - readPos <= Capacity
      /\ writePos' = writePos + n
      /\ UNCHANGED <<readPos, data, played>>
  BY Positions DEF WriteCommit, QuietInv, AnyInv, NeverAhead, WriteInProgress, WriteFits
<1> HIDE DEF n
<1>2. n \in Nat /\ n \in 1..Capacity
  BY <1>1, ChunkAssumption, CapacityAssumption
<1>3. Unread = Stream(readPos, writePos) /\ Unread' = Stream(readPos, writePos + n)
  <2>1. Unread' = Stream(readPos', writePos')
    BY UnreadIsStreamNext
  <2> QED
    BY <1>1, <2>1, UnreadIsStream
<1>4. Unread' = Unread \o [i \in 1..n |-> writePos + i - 1]
  <2>1. Stream(writePos, writePos + n) = [i \in 1..n |-> writePos + i - 1]
    BY <1>1, <1>2 DEF Stream
  <2>2. Stream(readPos, writePos + n)
            = Stream(readPos, writePos) \o Stream(writePos, writePos + n)
    BY <1>1, <1>2, StreamGrows
  <2> QED
    BY <1>3, <2>1, <2>2, Zenon
<1>5. Len(Unread) = writePos - readPos
  BY <1>1, <1>3, StreamSeq
<1>6. Len(Unread) + n <= Capacity
  BY <1>1, <1>2, <1>5
<1>7. Queue!Put(n)
  BY <1>1, <1>4, <1>6 DEF Queue!Put, Unread
<1> QED
  BY <1>2, <1>7 DEF n

\* A read is the abstract Get at the moment it moves read_pos_.
LEMMA CommitIsGet == ASSUME QuietInv, QuietInv', ReadCommit
                     PROVE  Queue!Get(cons.n) /\ cons.n \in 1..Capacity
<1> DEFINE n == cons.n
<1>1. /\ writePos \in Nat /\ readPos \in Nat /\ n \in Nat /\ n >= 1
      /\ writePos - readPos <= Capacity
      /\ readPos + n <= writePos /\ readPos' = readPos + n
      /\ \A i \in 1..n : cons.got[i] = readPos + i - 1
      /\ played' = played \cup {cons.got[i] : i \in 1..n}
      /\ UNCHANGED <<writePos, data>>
  BY Positions
  DEF ReadCommit, PosAfterRead, QuietInv, AnyInv, NeverAhead, ReadInProgress,
      ReaderOwnsReadPos, NoTornRead, Occupancy
<1> HIDE DEF n
<1>2. n \in 1..Capacity
  BY <1>1, CapacityAssumption
<1>3. Unread = Stream(readPos, writePos) /\ Unread' = Stream(readPos + n, writePos)
  <2>1. Unread' = Stream(readPos', writePos')
    BY UnreadIsStreamNext
  <2> QED
    BY <1>1, <2>1, UnreadIsStream
<1>4. /\ Len(Unread) = writePos - readPos
      /\ \A i \in 1..(writePos - readPos) : Unread[i] = readPos + i - 1
  <2>1. readPos <= writePos
    BY <1>1
  <2>2. /\ Len(Stream(readPos, writePos)) = writePos - readPos
        /\ \A i \in 1..(writePos - readPos) : Stream(readPos, writePos)[i] = readPos + i - 1
    BY <1>1, <2>1, StreamSeq
  <2> QED
    BY <1>3, <2>2, Zenon
<1>5. Unread' = SubSeq(Unread, n + 1, Len(Unread))
  BY <1>1, <1>3, <1>4, StreamShrinks
<1>6. played' = played \cup {Unread[i] : i \in 1..n}
  <2>1. \A i \in 1..n : cons.got[i] = Unread[i]
    BY <1>1, <1>4
  <2> QED
    BY <1>1, <2>1
<1>7. n <= Len(Unread)
  BY <1>1, <1>4
<1>8. Queue!Get(n)
  BY <1>1, <1>5, <1>6, <1>7 DEF Queue!Get, Unread
<1> QED
  BY <1>2, <1>8 DEF n

\* What moves neither position nor the unread units is a stutter.
LEMMA KeepsQueue == ASSUME QuietInv, QuietInv',
                           UNCHANGED <<writePos, readPos, played>>
                    PROVE  UNCHANGED Queue!vars
<1>1. Unread' = Unread
  <2>1. Unread' = Stream(readPos', writePos')
    BY UnreadIsStreamNext
  <2> QED
    BY <2>1, UnreadIsStream
<1> QED
  BY <1>1 DEF Queue!vars, Unread

LEMMA StepIsQueueStep == ASSUME QuietInv, QuietInv', [QuietNext]_vars
                         PROVE  [Queue!Next]_(Queue!vars)
<1>1. ASSUME NEW n \in 1..MaxChunk, WriteBegin(n)
      PROVE  UNCHANGED Queue!vars
  BY <1>1, KeepsQueue DEF WriteBegin
<1>2. CASE WriteCopy
  BY <1>2, KeepsQueue DEF WriteCopy
<1>3. CASE WriteCommit
  BY <1>3, CommitIsPut DEF Queue!Next
<1>4. ASSUME NEW n \in 1..MaxChunk, ReadBegin(n)
      PROVE  UNCHANGED Queue!vars
  BY <1>4, KeepsQueue DEF ReadBegin
<1>5. CASE ReadAvail
  BY <1>5, KeepsQueue DEF ReadAvail
<1>6. CASE ReadCopy
  BY <1>6, KeepsQueue DEF ReadCopy
<1>7. CASE ReadCommit
  BY <1>7, CommitIsGet DEF Queue!Next
<1>8. CASE Holder
  BY <1>8, KeepsQueue DEF Holder, SetHold
<1>9. CASE QuietDrain
  <2>1. readPos' = writePos /\ UNCHANGED <<writePos, played>> /\ writePos \in Nat
    BY <1>9, Positions DEF QuietDrain, Drain, PosAfterDrain, QuietInv
  <2>2. 1..(writePos' - readPos') = {}
    BY <2>1
  <2>3. Unread' = <<>>
    BY <2>2 DEF Unread
  <2> QED
    BY <2>1, <2>3 DEF Queue!Next, Queue!Clear, Unread
<1>10. CASE UNCHANGED vars
  BY <1>10, KeepsQueue DEF vars
<1> QED
  BY <1>1, <1>2, <1>3, <1>4, <1>5, <1>6, <1>7, <1>8, <1>9, <1>10
  DEF QuietNext, Writer, Reader

\* Under the single-consumer discipline every behaviour of the ring, with its
\* split loads, copies and stores (ring_buffer.cpp:22-83), is a behaviour of the
\* bounded queue its clients are promised.
THEOREM RingImplementsQueue == QuietSpec => ImplementsQueue
<1>1. QuietInv /\ QuietInv' /\ [QuietNext]_vars => [Queue!Next]_(Queue!vars)
  BY StepIsQueueStep
<1> QED
  BY <1>1, InitIsQueueInit, QuietInvariant, PTL
  DEF QuietSpec, ImplementsQueue, Queue!Spec
=============================================================================
