------------------------------ MODULE SourcePump ------------------------------
(***************************************************************************)
(* OocRadioSource::pump at the level of bytes                                *)
(* (src/src/sources/ooc_radio_source.cpp), on top of what starts, stops and  *)
(* replaces its pipe (BridgeConfig).  ffmpeg writes any number of bytes at a *)
(* time; the ring is to receive whole frames of four, at frame boundaries of *)
(* the stream, whatever is in the pipe when, and whichever pipe it is.       *)
(*                                                                         *)
(* The ring is its number of bytes (RingBuffer has the rest).  A byte-mode   *)
(* pipe with one reader returns what was asked for if that much is there.    *)
(***************************************************************************)
EXTENDS BridgeConfig

CONSTANTS
    PipeBytes,   \* what the pipe holds
    RingBytes,   \* what the ring holds
    Chunk,       \* sizeof buf: 4096
    LowWater,    \* ring.readable() < 16384
    PreBuffer    \* ring.readable() >= 384 KiB
ASSUME BytesAssumption ==
    /\ {PipeBytes, LowWater, PreBuffer, RingBytes, Chunk} \subseteq Nat
    /\ RingBytes % 4 = 0 /\ Chunk % 4 = 0

VARIABLES
    ffmpeg,   \* what writes to the pipe: "running" or "dead"
    ended,    \* Pipe::ended
    avail,    \* bytes in the pipe
    ppc,      \* pump(): "idle", or in its "chunks" loop with the source's mutex
    left,     \* its local avail
    offset,   \* bytes taken from this pipe so far, mod 4
    level     \* ring.readable()

pump == <<ffmpeg, ended, avail, ppc, left, offset>>
vars == <<bvars, pump, level>>

FreshPipe == /\ ffmpeg' = "running" /\ ended' = FALSE
             /\ avail' = 0 /\ left' = 0 /\ offset' = 0 /\ ppc' = "idle"

Init == /\ BInit
        /\ ffmpeg = "running" /\ ended = FALSE
        /\ avail = 0 /\ left = 0 /\ offset = 0 /\ ppc = "idle"
        /\ level = 0

Least(S) == CHOOSE m \in S : \A n \in S : m <= n
Aligned(n) == (n \div 4) * 4

-----------------------------------------------------------------------------
\* What BridgeConfig's steps do to the pipe: each one is new.  The worker takes
\* the pipelines it started with it; a start or an end of the bridge empties
\* the ring.
Bridge ==
    /\ (Locked /\ ppc = "idle") \/ Unlocked
    /\ IF pipe' # pipe \/ up' # up THEN FreshPipe
       ELSE /\ ffmpeg' = IF worker' # worker /\ pipe = "worker" THEN "dead" ELSE ffmpeg
            /\ UNCHANGED <<ended, avail, ppc, left, offset>>
    /\ level' = IF up' # up THEN 0 ELSE level

Writable == RingBytes - level

\* PeekNamedPipe: fails, says there is nothing, or how much there is.
Peek ==
    /\ up /\ Busy /\ pipe # "none" /\ ~ended /\ ppc = "idle"
    /\ ended' = (ffmpeg = "dead" /\ avail = 0)
    /\ state' = IF ~ended' /\ state = "playing" /\ avail = 0 /\ level < LowWater
                THEN "buffering" ELSE state
    /\ left' = avail
    /\ ppc' = IF avail > 0 THEN "chunks" ELSE "idle"
    /\ UNCHANGED <<up, config, files, download, managed, pipe, worker, hushed,
                   ffmpeg, avail, offset, level>>

WantUnmasked == IF Writable < 4 THEN 0 ELSE Least({Writable, left, Chunk})
Want == IF Writable < 4 THEN 0 ELSE Aligned(Least({Writable, left, Chunk}))

ReadChunk ==
    /\ up /\ ppc = "chunks" /\ Want > 0
    /\ avail' = avail - Want /\ left' = left - Want
    /\ offset' = (offset + Want) % 4
    /\ level' = level + Aligned(Want)
    /\ state' = IF state = "buffering" /\ level' >= PreBuffer THEN "playing" ELSE state
    /\ UNCHANGED <<up, config, files, download, managed, pipe, worker, hushed,
                   ffmpeg, ended, ppc>>

\* ReadFile fails: a pipe the worker has disconnected gives nothing more.
ReadFails ==
    /\ up /\ ppc = "chunks" /\ Want > 0 /\ ffmpeg = "dead"
    /\ ended' = TRUE
    /\ avail' = 0 /\ left' = 0 /\ ppc' = "idle"
    /\ UNCHANGED <<bvars, ffmpeg, offset, level>>

PumpDone ==
    /\ up /\ ppc = "chunks" /\ Want = 0
    /\ left' = 0 /\ ppc' = "idle"
    /\ UNCHANGED <<bvars, ffmpeg, ended, avail, offset, level>>

Pump == Peek \/ ReadChunk \/ ReadFails \/ PumpDone

-----------------------------------------------------------------------------
FfmpegWrites ==
    /\ pipe # "none" /\ ffmpeg = "running" /\ ~ended
    /\ avail' \in avail + 1 .. PipeBytes
    /\ UNCHANGED <<bvars, ffmpeg, ended, ppc, left, offset, level>>

FfmpegDies ==
    /\ pipe # "none" /\ ffmpeg = "running"
    /\ ffmpeg' = "dead"
    /\ UNCHANGED <<bvars, ended, avail, ppc, left, offset, level>>

\* The mixer takes a frame, or the control loop drains what there is.
Consume ==
    /\ level > 0
    /\ level' \in {level - Least({level, 4}), 0}
    /\ UNCHANGED <<bvars, pump>>

-----------------------------------------------------------------------------
Next == Bridge \/ Pump \/ FfmpegWrites \/ FfmpegDies \/ Consume

\* The download thread runs; so does the control loop that pumps.
Spec == /\ Init /\ [][Next]_vars
        /\ WF_vars(Bridge /\ Download)
        /\ WF_vars(Pump)

-----------------------------------------------------------------------------
(* Properties                                                              *)

TypeOK ==
    /\ BTypeOK
    /\ ffmpeg \in {"running", "dead"} /\ ended \in BOOLEAN
    /\ avail \in 0 .. PipeBytes /\ left \in 0 .. PipeBytes
    /\ ppc \in {"idle", "chunks"}
    /\ offset \in 0 .. 3 /\ level \in 0 .. RingBytes

\* "4-byte align (16-bit stereo)": a write into the ring starts at a frame
\* boundary of the stream, and the ring holds whole frames, however ffmpeg's
\* writes are cut up and whatever room there is.  One byte off, and everything
\* after it is noise.
FramesAligned == offset = 0 /\ level % 4 = 0

\* Why (proved in SourcePumpProofs): pump() asks the pipe for no more than it saw.
PumpInv == TypeOK /\ FramesAligned /\ left <= avail
=============================================================================
