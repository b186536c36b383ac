------------------------------ MODULE RadioPath ------------------------------
(***************************************************************************)
(* The way of the PCM from ffmpeg's pipe to the game's mixer, and the      *)
(* control loop that keeps it moving: OocRadioSource                       *)
(* (src/src/sources/ooc_radio_source.cpp), AudioSourceManager with the one  *)
(* source the program has, ControlLoop::run's pump, drain, audibility and  *)
(* gain (src/src/fmod/dsp_control_loop.cpp), and DSPBridge::read_callback   *)
(* (src/src/fmod/dsp_bridge.cpp).  Threads: the control loop, FMOD's mixer, *)
(* and the dependency worker that applies the configuration.               *)
(*                                                                         *)
(* Only amounts of PCM are kept, in blocks.  The two counters of the ring  *)
(* are RingBuffer's matter; the watchdog that retunes the station and the  *)
(* hotkey and race logic appear here only by what they do to the source    *)
(* and the ring.                                                           *)
(***************************************************************************)
EXTENDS Naturals

CONSTANTS
    Capacity,       \* blocks the ring holds
    PipeSize,       \* blocks ffmpeg's pipe holds before ffmpeg blocks
    LowWater,       \* ring.readable() < 16384
    PreBuffer,      \* ring.readable() >= 384 KiB
    InaudibleTicks  \* kInaudibleTicks
ASSUME SizesAssumption ==
    /\ Capacity \in Nat \ {0} /\ PipeSize \in Nat \ {0} /\ InaudibleTicks \in Nat \ {0}
    /\ LowWater \in Nat /\ PreBuffer \in Nat

VARIABLES
    state,      \* the source's state_
    pipe,       \* pipe_: "none", "open", or "ended" (Pipe::ended)
    ffmpeg,     \* the child of an open pipe: "running" or "dead"
    avail,      \* blocks waiting in the pipe
    level,      \* blocks in the ring
    configured, \* configured_gain_ > 0
    gainOn,     \* the bridge's gain > 0
    found,      \* a target was acquired: the discovery loop is over
    tpc,        \* where the control loop is in its tick
    left,       \* pump(): what PeekNamedPipe said is left to read
    mixing,     \* the game calls read_callback
    cb,         \* the mixer thread: "idle" or "reading" the ring
    called,     \* call_count() moved since the control loop last looked
    idle,       \* idle_ticks_ (no more than InaudibleTicks, past which it says nothing new)
    primed,     \* audible_primed_
    audible,    \* radio_audible_
    remembered, \* audible_source_ is the active source
    heard,      \* history: a call came since the loop last saw the source not playing
    silence     \* history: ticks since the last call, same cap

source == <<state, pipe, ffmpeg, avail>>
gains == <<configured, gainOn>>
loop == <<found, tpc, left>>
hearing == <<idle, primed, audible, remembered>>
mixer == <<mixing, cb, called, heard, silence>>
pathVars == <<source, gains, loop, hearing, mixer, level>>

Busy == state \in {"playing", "buffering"}

\* set_active's play() may have failed.
PathInit == /\ \/ state = "playing" /\ pipe = "open"
               \/ state = "stopped" /\ pipe = "none"
            /\ ffmpeg = "running" /\ avail = 0
            /\ level = 0
            /\ configured \in BOOLEAN /\ gainOn = configured
            /\ found = FALSE /\ tpc = "pump" /\ left = 0
            /\ mixing = FALSE /\ cb = "idle" /\ called = FALSE
            /\ idle = 0 /\ primed = FALSE /\ audible = TRUE /\ remembered = FALSE
            /\ heard = FALSE /\ silence = 0

-----------------------------------------------------------------------------
(* OocRadioSource::play, pause and stop                                    *)

\* start_pipe_locked may fail and then leaves no pipe and a stopped source.
PlaySource ==
    IF pipe = "none"
    THEN \/ /\ pipe' = "open" /\ ffmpeg' = "running" /\ avail' = 0
            /\ state' = "playing"
         \/ UNCHANGED <<pipe, ffmpeg, avail>> /\ state' = "stopped"
    ELSE state' = "playing" /\ UNCHANGED <<pipe, ffmpeg, avail>>

StopSource == /\ state' = "stopped"
              /\ pipe' = "none"
              /\ avail' = 0
              /\ UNCHANGED ffmpeg

-----------------------------------------------------------------------------
(* ControlLoop::run                                                        *)

\* pump(): nothing to do, the end of the stream, nothing there, or a number
\* of blocks to move.
PumpPeek ==
    /\ tpc = "pump"
    /\ left' = IF Busy /\ pipe = "open" THEN avail ELSE 0
    /\ tpc' = IF left' > 0 THEN "chunks" ELSE "drain"
    /\ pipe' = IF Busy /\ pipe = "open" /\ ffmpeg = "dead" /\ avail = 0
               THEN "ended" ELSE pipe
    /\ state' = IF state = "playing" /\ pipe' = "open" /\ avail = 0 /\ level < LowWater
                THEN "buffering" ELSE state
    /\ UNCHANGED <<ffmpeg, avail, level, gains, found, mixer, hearing>>

\* One turn of pump()'s loop: ReadFile, ring.write, and the end of buffering.
PumpChunk ==
    /\ tpc = "chunks" /\ left > 0 /\ level < Capacity
    /\ level' = level + 1
    /\ avail' = avail - 1
    /\ left' = left - 1
    /\ state' = IF state = "buffering" /\ level' >= PreBuffer THEN "playing" ELSE state
    /\ UNCHANGED <<pipe, ffmpeg, gains, found, tpc, mixer, hearing>>

\* ReadFile fails: what the pipe still held is lost with it.
PumpBroken ==
    /\ tpc = "chunks" /\ left > 0 /\ level < Capacity /\ ffmpeg = "dead"
    /\ pipe' = "ended"
    /\ avail' = 0
    /\ tpc' = "drain"
    /\ left' = 0
    /\ UNCHANGED <<state, ffmpeg, level, gains, found, mixer, hearing>>

PumpDone ==
    /\ tpc = "chunks"
    /\ left = 0 \/ level = Capacity
    /\ tpc' = "drain"
    /\ left' = 0
    /\ UNCHANGED <<source, level, gains, found, mixer, hearing>>

\* Before discovery every tick drains; after it, those that think the radio
\* cannot be heard.
NeverDrains ==
    /\ tpc = "drain"
    /\ level' = IF found THEN level ELSE 0
    /\ \/ ~found /\ found' \in BOOLEAN /\ tpc' = "pump"
       \/ found /\ tpc' = "listen" /\ UNCHANGED found
    /\ UNCHANGED <<source, gains, left, mixer, hearing>>
DrainUnheard ==
    /\ tpc = "drain"
    /\ level' = IF found /\ audible THEN level ELSE 0
    /\ \/ ~found /\ found' \in BOOLEAN /\ tpc' = "pump"
       \/ found /\ tpc' = "listen" /\ UNCHANGED found
    /\ UNCHANGED <<source, gains, left, mixer, hearing>>

Capped(n) == IF n < InaudibleTicks THEN n + 1 ELSE n

\* The audibility edge: how long the source, once heard, has been silent.
CountsUnheard == [idle |-> IF ~called THEN Capped(idle) ELSE 0, primed |-> TRUE]
NeverResets == [idle |-> IF primed THEN Capped(idle) ELSE 0, primed |-> primed \/ called]
Heard == [idle |-> IF remembered /\ primed /\ ~called THEN Capped(idle) ELSE 0,
          primed |-> (remembered /\ primed) \/ called]

Listen ==
    /\ tpc = "listen"
    /\ IF Busy
       THEN /\ remembered' = TRUE
            /\ idle' = Heard.idle
            /\ primed' = Heard.primed
            /\ audible' = (idle' < InaudibleTicks)
       ELSE /\ remembered' = FALSE /\ idle' = 0 /\ primed' = FALSE /\ audible' = TRUE
    /\ called' = FALSE                          \* prev_calls_ = c
    /\ silence' = Capped(silence)
    /\ heard' = (heard /\ Busy)
    /\ tpc' = "command"
    /\ UNCHANGED <<source, level, gains, found, left, mixing, cb>>

\* run_playback_state_machines: the source is played or stopped, the ring is
\* drained, both, or neither.
StateMachines ==
    /\ tpc = "command"
    /\ \/ UNCHANGED source
       \/ ~Busy /\ PlaySource                   \* hotkey; a race has ended
       \/ Busy /\ StopSource                    \* hotkey; a race has begun
    /\ level' \in {level, 0}                    \* after a race stop, a skip, a switch
    /\ tpc' = "gain"
    /\ UNCHANGED <<gains, found, left, mixer, hearing>>

\* The gain ramp: it rises from the first tick, and falls to 0 in the end.
SetGain ==
    /\ tpc = "gain"
    /\ \/ Busy /\ configured /\ gainOn' = TRUE
       \/ ~(Busy /\ configured) /\ gainOn' \in {gainOn, FALSE}
    /\ tpc' = "pump"
    /\ UNCHANGED <<source, level, configured, found, left, mixer, hearing>>

PathTick == \/ PumpPeek \/ PumpChunk \/ PumpBroken \/ PumpDone
            \/ DrainUnheard \/ Listen \/ StateMachines \/ SetGain

-----------------------------------------------------------------------------
(* DSPBridge::read_callback on the mixer thread                            *)

\* calls_.fetch_add
Counted == called' = TRUE /\ heard' = TRUE /\ silence' = 0

\* A gain of zero is silence that counts as a call.
CallbackBegin ==
    /\ found /\ mixing /\ cb = "idle"
    /\ IF gainOn THEN cb' = "reading" /\ UNCHANGED <<called, heard, silence>>
                 ELSE Counted /\ UNCHANGED cb
    /\ UNCHANGED <<source, level, gains, loop, mixing, hearing>>

CallbackEnd ==
    /\ cb = "reading"
    /\ level' = IF level > 0 THEN level - 1 ELSE 0
    /\ cb' = "idle"
    /\ Counted
    /\ UNCHANGED <<source, gains, loop, mixing, hearing>>

Callback == CallbackBegin \/ CallbackEnd

-----------------------------------------------------------------------------
(* The configuration thread, ffmpeg and the game                           *)

\* apply_config sets the gain and plays a source that is not playing.
ApplyConfig ==
    /\ gainOn' = configured
    /\ IF state = "playing" THEN UNCHANGED source ELSE PlaySource
    /\ tpc # "chunks"                           \* pump() holds the source's mutex
    /\ UNCHANGED <<level, configured, loop, mixer, hearing>>

FfmpegWrites ==
    /\ pipe = "open" /\ ffmpeg = "running" /\ avail < PipeSize
    /\ avail' = avail + 1
    /\ UNCHANGED <<state, pipe, ffmpeg, level, gains, loop, mixer, hearing>>

FfmpegDies ==
    /\ pipe = "open" /\ ffmpeg = "running"
    /\ ffmpeg' = "dead"
    /\ UNCHANGED <<state, pipe, avail, level, gains, loop, mixer, hearing>>

\* Pause menu, another station, a channel torn down or rebuilt.
GameTurns ==
    /\ mixing' = ~mixing
    /\ UNCHANGED <<source, level, gains, loop, cb, called, heard, silence, hearing>>

-----------------------------------------------------------------------------
PathNext == PathTick \/ Callback \/ ApplyConfig \/ FfmpegWrites \/ FfmpegDies \/ GameTurns

\* The control loop ticks, and the game's mixer runs while the game mixes.
PathSpec == PathInit /\ [][PathNext]_pathVars /\ WF_pathVars(PathTick) /\ WF_pathVars(Callback)

-----------------------------------------------------------------------------
(* Properties                                                              *)

PathTypeOK ==
    /\ state \in {"stopped", "playing", "buffering"}
    /\ pipe \in {"none", "open", "ended"}
    /\ ffmpeg \in {"running", "dead"}
    /\ avail \in 0 .. PipeSize /\ left \in 0 .. PipeSize
    /\ level \in 0 .. Capacity
    /\ tpc \in {"pump", "chunks", "drain", "listen", "command", "gain"}
    /\ cb \in {"idle", "reading"}
    /\ idle \in 0 .. InaudibleTicks /\ silence \in 0 .. InaudibleTicks
    /\ {configured, gainOn, found, mixing, called} \subseteq BOOLEAN
    /\ {primed, audible, remembered, heard} \subseteq BOOLEAN

\* ffmpeg is stuck: its pipe is full and so is the ring behind it.
Stalled == /\ Busy /\ pipe = "open" /\ ffmpeg = "running"
           /\ avail = PipeSize /\ level = Capacity

\* "only count once that source has actually been read, so stale loop state
\* can't fire a phantom edge": the source is told that it cannot be heard only
\* when the mixer did call for it, and has not for that many ticks.
NoPhantomSilence ==
    [][audible /\ ~audible' => heard /\ silence' = InaudibleTicks]_pathVars

\* Why (proved in PlaybackProofs): a source is primed by a call, and the count of
\* a loop that has seen every call is no longer than the silence.  (pump() moves no
\* more than it saw.)
PathInv ==
    /\ PathTypeOK
    /\ left <= avail /\ (tpc # "chunks" => left = 0)
    /\ primed \/ called => heard
    /\ ~called => idle <= silence

\* The loop stops throwing PCM away once the game reads again.
ResumeNoticed == (~audible /\ mixing) ~> (audible \/ ~mixing)

\* A source that has been heard and has a gain does not leave ffmpeg stuck.
HeardNeverStuck == (Stalled /\ primed /\ configured) ~> ~Stalled

\* "whenever nothing is actually reading PCM out of the ring (pause menu, tuned
\* away to a different station, ...), draining it here keeps pump() able to
\* keep accepting fresh data from the source indefinitely"
NeverStuck == (Stalled /\ configured) ~> ~Stalled

\* The ring is for a single consumer: while the mixer thread is inside a read,
\* nobody else takes PCM out of it.
SingleConsumer == [][cb = "reading" /\ cb' = "reading" => level' >= level]_pathVars
=============================================================================
