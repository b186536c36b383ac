--------------------------- MODULE SourcePumpProofs ---------------------------
(***************************************************************************)
(* Proofs about the bridge's start-up, the downloads and the source's pump, *)
(* for any size of the pipe, the ring and the pump's buffer.  Part 1 is     *)
(* about BridgeConfig's steps, part 2 about the bytes, part 3 about the     *)
(* files of the tools.                                                      *)
(***************************************************************************)
EXTENDS SourcePump, TLAPS

(* Part 1: the types of the bridge's state.                                *)

\* play() starts a pipe one way or the other, keeps the one there is, or leaves
\* none.
LEMMA PlayTypes == ASSUME BTypeOK, NEW m \in BOOLEAN, NEW w, Play(m, w)
                   PROVE  /\ pipe' \in {"none", "worker", "direct"}
                          /\ state' \in {"stopped", "playing"}
                          /\ managed' \in BOOLEAN
  BY DEF BTypeOK, Play, Started

\* Going on to the next tool, or to the end.
LEMMA NextToolTypes == ASSUME BTypeOK, NextTool
                       PROVE  dpc' \in {"look", "done"} /\ tool' \in Tool
  BY DEF BTypeOK, NextTool, Tool

LEMMA LockedTypes == ASSUME BTypeOK, Locked
                     PROVE  BTypeOK'
<1>1. CASE SetPath
  BY <1>1 DEF SetPath, At, Goto, BTypeOK, config, files
<1>2. CASE PlayAgain
  BY <1>2, PlayTypes, NextToolTypes DEF PlayAgain, At, BTypeOK, config, files
<1>3. CASE UserPlay
  BY <1>3, PlayTypes DEF UserPlay, BTypeOK, config, files, download
<1>4. CASE UserPause
  BY <1>4 DEF UserPause, BTypeOK, config, files, download
<1> QED
  BY <1>1, <1>2, <1>3, <1>4 DEF Locked

LEMMA UnlockedTypes == ASSUME BTypeOK, Unlocked
                       PROVE  BTypeOK'
<1>1. CASE StartUp
  <2>1. LoadConfig \in BOOLEAN /\ Resolves \in BOOLEAN
    BY DEF LoadConfig, Resolves
  <2>2. /\ pipe' \in {"none", "worker", "direct"}
        /\ state' \in {"stopped", "playing", "buffering"}
        /\ managed' \in BOOLEAN
    <3>1. CASE LoadConfig
      BY <1>1, <2>1, <3>1, PlayTypes DEF StartUp
    <3>2. CASE ~LoadConfig
      BY <1>1, <3>2 DEF StartUp, BTypeOK, source
    <3> QED
      BY <3>1, <3>2
  <2> QED
    BY <1>1, <2>1, <2>2 DEF StartUp, StartWorker, BTypeOK, files, Tool
<1>2. CASE Look
  <2>1. part' \in [Tool -> {"none", "half", "short", "whole"}] /\ bin' = bin
    BY <1>2 DEF Look, BTypeOK, files
  <2>2. dpc' \in {"look", "done", "fetch"} /\ tool' \in Tool
    BY <1>2, NextToolTypes DEF Look, Goto, BTypeOK
  <2> QED
    BY <1>2, <2>1, <2>2 DEF Look, BTypeOK, config, source
<1>3. CASE Fetch
  <2>1. part' \in [Tool -> {"none", "half", "short", "whole"}]
    BY <1>3 DEF Fetch, BTypeOK
  <2> QED
    BY <1>3, <2>1 DEF Fetch, Goto, BTypeOK, config, source
<1>4. CASE Fails
  BY <1>4, NextToolTypes DEF Fails, BTypeOK, config, source
<1>5. CASE Install
  <2>1. part[tool] \in {"none", "half", "short", "whole"}
    BY DEF BTypeOK
  <2> QED
    BY <1>5, <2>1 DEF Install, Goto, BTypeOK, config, source
<1>6. CASE Resolve
  <2>1. dpc' \in {"look", "done", "apply"} /\ tool' \in Tool
    BY <1>6, NextToolTypes DEF Resolve, Goto, BTypeOK
  <2>2. resolved' \in BOOLEAN
    BY <1>6 DEF Resolve, Resolves
  <2> QED
    BY <1>6, <2>1, <2>2 DEF Resolve, BTypeOK, config, files, source
<1>7. CASE Judge
  <2>1. dpc' \in {"look", "done", "play"} /\ tool' \in Tool
    BY <1>7, NextToolTypes DEF Judge, Goto, BTypeOK
  <2> QED
    BY <1>7, <2>1 DEF Judge, BTypeOK, config, files, source
<1>8. CASE WorkerDies \/ Crash \/ HandEdit
  BY <1>8 DEF WorkerDies, Crash, HandEdit, BTypeOK, config, files, download, source, Tool
<1> QED
  BY <1>1, <1>2, <1>3, <1>4, <1>5, <1>6, <1>7, <1>8 DEF Unlocked

\* The bridge's state keeps its types, whatever thread moves.
LEMMA BridgeTypes == ASSUME BTypeOK, BNext
                     PROVE  BTypeOK'
  BY LockedTypes, UnlockedTypes DEF BNext

-----------------------------------------------------------------------------
(* Part 2: the bytes.                                                      *)

\* n & ~3 is the largest multiple of four up to n.
LEMMA AlignedDown == ASSUME NEW n \in Nat
                     PROVE  /\ Aligned(n) \in Nat
                            /\ Aligned(n) <= n
                            /\ Aligned(n) % 4 = 0
                            /\ Aligned(Aligned(n)) = Aligned(n)
  BY DEF Aligned

\* A sum or a difference of multiples of four is one.
LEMMA FourDivides == ASSUME NEW m \in Nat, NEW n \in Nat, m % 4 = 0, n % 4 = 0
                     PROVE  (m + n) % 4 = 0 /\ (m - n) % 4 = 0
  OBVIOUS

\* The least of some numbers, of which one is known to be least.
LEMMA LeastIs == ASSUME NEW S \in SUBSET Nat, NEW m \in S, \A n \in S : m <= n
                 PROVE  Least(S) \in S /\ \A n \in S : Least(S) <= n
  BY DEF Least

LEMMA LeastOfTwo == ASSUME NEW a \in Nat, NEW b \in Nat
                    PROVE  Least({a, b}) \in {a, b} /\ Least({a, b}) <= a /\ Least({a, b}) <= b
<1> DEFINE S == {a, b}
<1>1. PICK m \in S : \A n \in S : m <= n
  <2>1. CASE a <= b
    BY <2>1
  <2>2. CASE b <= a
    BY <2>2
  <2> QED
    BY <2>1, <2>2
<1>2. S \in SUBSET Nat /\ a \in S /\ b \in S
  OBVIOUS
<1> HIDE DEF S
<1>3. Least(S) \in S /\ \A n \in S : Least(S) <= n
  BY <1>1, <1>2, LeastIs
<1> QED
  BY <1>2, <1>3 DEF S

LEMMA LeastOfThree == ASSUME NEW a \in Nat, NEW b \in Nat, NEW c \in Nat
                      PROVE  /\ Least({a, b, c}) \in Nat
                             /\ Least({a, b, c}) <= a /\ Least({a, b, c}) <= b
<1> DEFINE S == {a, b, c}
<1>1. PICK m \in S : \A n \in S : m <= n
  <2>1. CASE a <= b /\ a <= c
    BY <2>1
  <2>2. CASE b <= a /\ b <= c
    BY <2>2
  <2>3. CASE c <= a /\ c <= b
    BY <2>3
  <2> QED
    BY <2>1, <2>2, <2>3
<1>2. S \in SUBSET Nat /\ a \in S /\ b \in S
  OBVIOUS
<1> HIDE DEF S
<1>3. Least(S) \in S /\ \A n \in S : Least(S) <= n
  BY <1>1, <1>2, LeastIs
<1> QED
  BY <1>2, <1>3 DEF S

\* What one ReadFile asks for: whole frames, no more than fit into the ring and no
\* more than the pipe was seen to hold.
LEMMA WantIs == ASSUME TypeOK
                PROVE  /\ Want \in Nat /\ Want % 4 = 0
                       /\ Want <= left /\ Want <= Writable
                       /\ Aligned(Want) = Want
<1>1. /\ Writable \in Nat /\ left \in Nat /\ Chunk \in Nat
  BY BytesAssumption DEF TypeOK, Writable
<1>2. CASE Writable < 4
  BY <1>1, <1>2 DEF Want, Aligned
<1>3. CASE ~(Writable < 4)
  <2> DEFINE m == Least({Writable, left, Chunk})
  <2>1. m \in Nat /\ m <= Writable /\ m <= left
    BY <1>1, LeastOfThree
  <2>2. Want = Aligned(m)
    BY <1>3 DEF Want
  <2> HIDE DEF m
  <2> QED
    BY <1>1, <2>1, <2>2, AlignedDown
<1> QED
  BY <1>2, <1>3

LEMMA InitPump == Init => PumpInv /\ BTypeOK
<1> SUFFICES ASSUME Init
             PROVE  PumpInv /\ BTypeOK
  OBVIOUS
<1>1. BTypeOK
  BY DEF Init, BInit, BTypeOK, Tool
<1>2. 0 \in 0 .. PipeBytes /\ 0 \in 0 .. RingBytes /\ 0 % 4 = 0
  BY BytesAssumption
<1>3. /\ avail = 0 /\ left = 0 /\ offset = 0 /\ level = 0
      /\ ffmpeg = "running" /\ ended = FALSE /\ ppc = "idle"
  BY DEF Init
<1>4. left <= avail /\ offset \in 0 .. 3
  BY <1>3
<1> QED
  BY <1>1, <1>2, <1>3, <1>4 DEF PumpInv, TypeOK, FramesAligned

\* A step of the bridge: the pipe it was, or a fresh one.
LEMMA BridgeKeepsPump == ASSUME PumpInv, Bridge
                         PROVE  PumpInv'
<1>1. BTypeOK'
  BY BridgeTypes DEF Bridge, BNext, PumpInv, TypeOK
<1>2. 0 \in 0 .. PipeBytes /\ 0 \in 0 .. RingBytes /\ 0 % 4 = 0
  BY BytesAssumption
<1>3. /\ ffmpeg' \in {"running", "dead"} /\ ended' \in BOOLEAN
      /\ ppc' \in {"idle", "chunks"}
      /\ avail' \in 0 .. PipeBytes /\ left' \in 0 .. PipeBytes /\ left' <= avail'
      /\ offset' = 0
  <2>1. CASE pipe' # pipe \/ up' # up
    <3>1. FreshPipe
      BY <2>1 DEF Bridge
    <3>2. left' <= avail'
      BY <3>1 DEF FreshPipe
    <3> QED
      BY <1>2, <3>1, <3>2 DEF FreshPipe
  <2>2. CASE ~(pipe' # pipe \/ up' # up)
    <3>1. /\ UNCHANGED <<ended, avail, ppc, left, offset>>
          /\ ffmpeg' \in {"dead", ffmpeg}
      BY <2>2 DEF Bridge
    <3> QED
      BY <3>1 DEF PumpInv, TypeOK, FramesAligned
  <2> QED
    BY <2>1, <2>2
<1>4. level' \in 0 .. RingBytes /\ level' % 4 = 0
  BY <1>2 DEF Bridge, PumpInv, TypeOK, FramesAligned
<1> QED
  BY <1>1, <1>3, <1>4 DEF PumpInv, TypeOK, FramesAligned

LEMMA PumpKeepsPump == ASSUME PumpInv, Pump
                       PROVE  PumpInv'
<1> USE DEF PumpInv, FramesAligned
<1>1. CASE Peek
  BY <1>1 DEF Peek, TypeOK, BTypeOK, config, files, download
<1>2. CASE ReadChunk
  <2>1. /\ Want \in Nat /\ Want % 4 = 0 /\ Want <= left /\ Want <= RingBytes - level
        /\ Aligned(Want) = Want
    BY WantIs DEF Writable
  <2>2. /\ avail' = avail - Want /\ left' = left - Want
        /\ offset' = Want % 4 /\ level' = level + Want
    <3>1. 0 + Want = Want
      BY <2>1
    <3> QED
      BY <1>2, <2>1, <3>1 DEF ReadChunk
  <2>3. /\ avail' \in 0 .. PipeBytes /\ left' \in 0 .. PipeBytes /\ left' <= avail'
        /\ level' \in 0 .. RingBytes
    BY <2>1, <2>2, BytesAssumption DEF TypeOK
  <2>4. offset' = 0 /\ level' % 4 = 0
    BY <2>1, <2>2, FourDivides DEF TypeOK
  <2> QED
    BY <1>2, <2>3, <2>4 DEF ReadChunk, TypeOK, BTypeOK, config, files, download
<1>3. CASE ReadFails
  BY <1>3, BytesAssumption
  DEF ReadFails, TypeOK, BTypeOK, bvars, config, files, download, source
<1>4. CASE PumpDone
  BY <1>4, BytesAssumption
  DEF PumpDone, TypeOK, BTypeOK, bvars, config, files, download, source
<1> QED
  BY <1>1, <1>2, <1>3, <1>4 DEF Pump

LEMMA StepKeepsPump == PumpInv /\ [Next]_vars => PumpInv'
<1> SUFFICES ASSUME PumpInv, [Next]_vars
             PROVE  PumpInv'
  OBVIOUS
<1>1. CASE Bridge
  BY <1>1, BridgeKeepsPump
<1>2. CASE Pump
  BY <1>2, PumpKeepsPump
<1> USE DEF PumpInv, TypeOK, BTypeOK, FramesAligned, bvars, config, files, download, source
<1>3. CASE FfmpegWrites
  BY <1>3, BytesAssumption DEF FfmpegWrites
<1>4. CASE FfmpegDies
  BY <1>4 DEF FfmpegDies
\* The mixer takes a frame of a ring that holds whole ones.
<1>5. CASE Consume
  <2>1. level \in Nat /\ level > 0 /\ level % 4 = 0 /\ level <= RingBytes
    BY <1>5, BytesAssumption DEF Consume
  <2>2. Least({level, 4}) = 4 /\ level >= 4
    BY <2>1, LeastOfTwo
  <2>3. level' \in 0 .. RingBytes /\ level' % 4 = 0
    <3>1. CASE level' = level - 4
      BY <2>1, <2>2, <3>1, FourDivides, BytesAssumption
    <3>2. CASE level' = 0
      BY <3>2, BytesAssumption
    <3> QED
      BY <1>5, <2>2, <3>1, <3>2 DEF Consume
  <2>4. UNCHANGED <<bvars, pump>>
    BY <1>5 DEF Consume
  <2>5. BTypeOK' /\ UNCHANGED <<ffmpeg, ended, avail, ppc, left, offset>>
    BY <2>4 DEF pump
  <2> HIDE DEF BTypeOK, bvars, config, files, download, source
  <2> QED
    BY <2>3, <2>5
<1>6. CASE UNCHANGED vars
  BY <1>6 DEF vars, pump
<1> QED
  BY <1>1, <1>2, <1>3, <1>4, <1>5, <1>6 DEF Next

\* PumpInv is an inductive invariant.
THEOREM PumpInvariant == Spec => []PumpInv
  BY InitPump, StepKeepsPump, PTL DEF Spec

\* The ring is given whole frames at frame boundaries of the stream
\* (ooc_radio_source.cpp, pump), however ffmpeg's writes are cut up, whatever room
\* there is, and however often the pipe is replaced.
THEOREM FramesStayAligned == Spec => []FramesAligned
<1>1. PumpInv => FramesAligned
  BY DEF PumpInv
<1> QED
  BY <1>1, PumpInvariant, PTL

-----------------------------------------------------------------------------
(* Part 3: the files of the tools.                                         *)

\* What is about to be renamed was written to its end, and with it what stands
\* under a tool's name.
ToolInv == BTypeOK /\ NeverHalfBinary /\ WrittenBeforeRename

LEMMA InitTools == Init => ToolInv
  BY DEF Init, BInit, BTypeOK, Tool, ToolInv, NeverHalfBinary, WrittenBeforeRename

LEMMA LockedKeepsTools == ASSUME ToolInv, Locked
                          PROVE  NeverHalfBinary' /\ WrittenBeforeRename'
<1>1. UNCHANGED files
  BY DEF Locked, SetPath, PlayAgain, UserPlay, UserPause
<1>2. dpc' # "rename" \/ UNCHANGED download
  BY DEF Locked, SetPath, PlayAgain, UserPlay, UserPause, Goto, NextTool
<1> QED
  BY <1>1, <1>2 DEF ToolInv, NeverHalfBinary, WrittenBeforeRename, files, download

LEMMA UnlockedKeepsTools == ASSUME ToolInv, Unlocked
                            PROVE  NeverHalfBinary' /\ WrittenBeforeRename'
<1> USE DEF ToolInv, NeverHalfBinary, WrittenBeforeRename
<1>1. CASE StartUp
  BY <1>1 DEF StartUp, files
<1>2. CASE Look
  BY <1>2 DEF Look, Goto, NextTool, files
\* The body was read to its end, so that is what stands beside the name.
<1>3. CASE Fetch
  <2>1. PICK body \in {"short", "whole"} : part' = [part EXCEPT ![tool] = body]
    BY <1>3 DEF Fetch
  <2>2. tool' = tool /\ bin' = bin
    BY <1>3 DEF Fetch, Goto
  <2>3. part'[tool'] = body
    BY <2>1, <2>2 DEF BTypeOK
  <2> QED
    BY <2>2, <2>3
<1>4. CASE Fails
  BY <1>4 DEF Fails, NextTool
\* It is renamed.
<1>5. CASE Install
  <2>1. /\ bin' = [bin EXCEPT ![tool] = part[tool]] /\ dpc' = "ready"
        /\ part[tool] # "half"
    BY <1>5 DEF Install, At, Goto
  <2> QED
    BY <2>1 DEF BTypeOK
<1>6. CASE Resolve
  BY <1>6 DEF Resolve, Goto, NextTool, files
<1>7. CASE Judge
  BY <1>7 DEF Judge, Goto, NextTool, files
<1>8. CASE WorkerDies \/ Crash \/ HandEdit
  BY <1>8 DEF WorkerDies, Crash, HandEdit, files, download
<1> QED
  BY <1>1, <1>2, <1>3, <1>4, <1>5, <1>6, <1>7, <1>8 DEF Unlocked

LEMMA StepKeepsTools == ToolInv /\ [Next]_vars => ToolInv'
<1> SUFFICES ASSUME ToolInv, [Next]_vars
             PROVE  ToolInv'
  OBVIOUS
<1>1. CASE Bridge
  <2>1. Locked \/ Unlocked
    BY <1>1 DEF Bridge
  <2>2. BTypeOK'
    BY <2>1, BridgeTypes DEF BNext, ToolInv
  <2> QED
    BY <2>1, <2>2, LockedKeepsTools, UnlockedKeepsTools DEF ToolInv
\* The pump touches the source's state and no file.
<1>2. CASE Pump
  <2>1. /\ UNCHANGED <<up, config, files, download, managed, pipe, worker, hushed>>
        /\ state' \in {state, "buffering", "playing"}
    BY <1>2 DEF Pump, Peek, ReadChunk, ReadFails, PumpDone, bvars, source
  <2> QED
    BY <2>1
    DEF ToolInv, BTypeOK, NeverHalfBinary, WrittenBeforeRename, config, files, download
<1>3. CASE FfmpegWrites \/ FfmpegDies \/ Consume \/ UNCHANGED vars
  <2>1. UNCHANGED bvars
    BY <1>3 DEF FfmpegWrites, FfmpegDies, Consume, vars
  <2> QED
    BY <2>1 DEF ToolInv, BTypeOK, NeverHalfBinary, WrittenBeforeRename,
                bvars, config, files, download, source
<1> QED
  BY <1>1, <1>2, <1>3 DEF Next

\* What stands under a tool's name is never a file whose writing was not finished
\* (deps.cpp, download and run_worker: the body goes to a file beside it, which is
\* renamed when its end was read), wherever a download fails and whenever the game
\* dies.  That the body was all of the tool is not said (SourcePump_short.cfg).
THEOREM ToolsWrittenToTheEnd == Spec => []NeverHalfBinary
<1>1. ToolInv => NeverHalfBinary
  BY DEF ToolInv
<1> QED
  BY <1>1, InitTools, StepKeepsTools, PTL DEF Spec
=============================================================================
