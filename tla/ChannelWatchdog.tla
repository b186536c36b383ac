--------------------------- MODULE ChannelWatchdog ---------------------------
(***************************************************************************)
(* How the DSP finds the game's radio channel and gets back on it: the     *)
(* discovery cache (src/src/fmod/radio_discovery.cpp), the discovery loop,  *)
(* staleness watchdog and select_instance of ControlLoop                   *)
(* (dsp_control_loop.cpp), the station toggle of GameStateProbe            *)
(* (game_state_probe.cpp) and DSPBridge's retargeting (dsp_bridge.cpp).    *)
(*                                                                         *)
(* The game is the environment: its RadioStreamFmod objects, the FMOD      *)
(* channel of the streamer station, the selected station, and the          *)
(* radio_state pointer that a world load takes away for a while.  It       *)
(* allocates a channel only after a change to the streamer station.  Time  *)
(* is counted in ticks of the control loop.                                *)
(***************************************************************************)
EXTENDS Naturals

CONSTANTS
    Obj,             \* addresses a RadioStreamFmod may have
    Handles,         \* channel handles are 1 .. Handles, 0 is none
    StaleTicks,      \* kStaleTickThreshold
    Cooldown,        \* kRetuneCooldown, in ticks
    RescanAfter,     \* kRescanThreshold
    Misses,          \* failed discoveries between two station toggles (6)
    MaxLost          \* bound: channels the game tears down by itself
ASSUME TicksAssumption ==
    {Handles, StaleTicks, Cooldown, RescanAfter, Misses, MaxLost} \subseteq Nat \ {0}

Nowhere == "nowhere"   \* no object
ASSUME NowhereAssumption == Nowhere \notin Obj

VARIABLES
    obj,       \* [Obj -> "absent", "wrapper" (no SoundName chain yet) or "ready"]
    stream,    \* the object of the streamer station
    chan,      \* handle of its live channel
    wants,     \* a change to the streamer station is to be followed by a channel
    lost,      \* channels torn down so far
    station,   \* the game's station: "streamer", "other" or "off"
    chosen,    \* history: the station the user, or the discovery loop, last settled on
    readable,  \* radio_state can be read
    mixing,    \* the game is not paused
    busy,      \* the active source is playing or buffering
    cache,     \* g_cache.candidates ({} when not located)
    streak,    \* g_cache.empty_streak
    found,     \* the discovery loop is over
    misses,    \* discovery_attempts % Misses
    target,    \* DSPBridge::radio_stream_
    handle,    \* current_handle_: where the DSP is installed
    called,    \* call_count() # prev_calls_
    stale,     \* stale_ticks_
    cool,      \* ticks until last_retune_ is kRetuneCooldown ago
    tpc,       \* where the control loop is
    fresh      \* history: the channel is younger than the watchdog's last look

game == <<obj, stream, chan, wants, lost>>
user == <<station, chosen, readable, mixing, busy>>
discovery == <<cache, streak>>
bridge == <<target, handle>>
loop == <<found, misses, stale, cool, tpc>>
vars == <<game, user, discovery, bridge, loop, called, fresh>>

Init == /\ obj = [o \in Obj |-> "absent"]
        /\ stream \in Obj
        /\ chan = 0 /\ wants = FALSE /\ lost = 0
        /\ station = "off" /\ chosen = "off"
        /\ readable = FALSE /\ mixing = FALSE /\ busy = TRUE
        /\ cache = {} /\ streak = 0
        /\ found = FALSE /\ misses = 0
        /\ target = Nowhere /\ handle = 0
        /\ called = FALSE /\ stale = 0 /\ cool = 0
        /\ tpc = "search"
        /\ fresh = FALSE

\* GameStateProbe::read().on_target_station
OnTarget == readable /\ station = "streamer"

\* read_live_handle
LiveHandle(o) == IF o = stream /\ obj[o] = "ready" THEN chan ELSE 0

-----------------------------------------------------------------------------
(* discover_radio_instances and select_instance                            *)

\* The cached wrappers, or those a heap scan finds when none are cached.
Candidates == IF cache = {} THEN {o \in Obj : obj[o] # "absent"} ELSE cache
Instances == {o \in Candidates : obj[o] = "ready"}

\* A cache that stays without a valid instance is dropped in the end.
KeepForever ==
    /\ cache' = Candidates
    /\ streak' = IF Instances = {} /\ streak + 1 < RescanAfter THEN streak + 1 ELSE 0
Discover ==
    LET dropped == streak + 1 >= RescanAfter IN
    IF Candidates # {} /\ Instances = {}
    THEN /\ cache' = IF dropped THEN {} ELSE Candidates
         /\ streak' = IF dropped THEN 0 ELSE streak + 1
    ELSE cache' = Candidates /\ streak' = 0

\* The instance with a live channel if there is one, else the first.
Selectable ==
    IF ~OnTarget THEN {}
    ELSE IF \E o \in Instances : LiveHandle(o) # 0
         THEN {o \in Instances : LiveHandle(o) # 0}
         ELSE Instances

\* acquire_target; resolving FMOD's system may fail.
AcquireTarget(o) == o \in Selectable /\ target' = o

-----------------------------------------------------------------------------
(* ControlLoop::run                                                        *)

\* One turn of the discovery loop; every Misses-th failure toggles the station.
Search ==
    /\ tpc = "search"
    /\ Discover
    /\ \/ /\ \E o \in Obj : AcquireTarget(o)
          /\ found' = TRUE /\ tpc' = "retarget"
          /\ UNCHANGED misses
       \/ /\ UNCHANGED <<target, found>>
          /\ misses' = (misses + 1) % Misses
          /\ tpc' = IF misses' = 0 THEN "off" ELSE "search"
    /\ UNCHANGED <<game, user, handle, stale, cool, called, fresh>>

\* retarget_if_needed: follow the handle; an install that fails is tried again.
InstallOnce ==
    /\ tpc = "retarget"
    /\ handle' \in IF handle # 0 THEN {handle} ELSE {0, LiveHandle(target)}
    /\ tpc' = "watch"
    /\ UNCHANGED <<game, user, discovery, target, found, misses, stale, cool, called, fresh>>
Retarget ==
    /\ tpc = "retarget"
    /\ handle' \in IF LiveHandle(target) = handle THEN {handle} ELSE {0, LiveHandle(target)}
    /\ tpc' = "watch"
    /\ UNCHANGED <<game, user, discovery, target, found, misses, stale, cool, called, fresh>>

\* While the source is busy: has read_callback been called since the last tick?
Watch ==
    /\ tpc = "watch"
    /\ called' = FALSE
    /\ cool' = IF cool = 0 THEN 0 ELSE cool - 1
    /\ IF busy /\ ~called /\ stale + 1 >= StaleTicks
       THEN stale' = 0 /\ tpc' = "judge"
       ELSE stale' = (IF busy /\ ~called THEN stale + 1 ELSE 0) /\ tpc' = "retarget"
    /\ UNCHANGED <<game, user, discovery, bridge, found, misses, fresh>>

\* channel_dead: the game is silent, and not because it is paused.
JudgeSilent ==
    /\ tpc = "judge"
    /\ Discover
    /\ tpc' = "gate"
    /\ fresh' = FALSE
    /\ UNCHANGED <<game, user, bridge, found, misses, stale, cool, called>>
Judge ==
    /\ tpc = "judge"
    /\ Discover
    /\ tpc' = IF \E o \in Selectable : LiveHandle(o) # 0 THEN "retarget" ELSE "gate"
    /\ fresh' = FALSE
    /\ UNCHANGED <<game, user, bridge, found, misses, stale, cool, called>>

\* Off the cooldown, and the user is on our station.
GateOpen ==
    /\ tpc = "gate"
    /\ tpc' = IF cool = 0 THEN "off" ELSE "retarget"
    /\ UNCHANGED <<game, user, discovery, bridge, found, misses, stale, cool, called, fresh>>
Gate ==
    /\ tpc = "gate"
    /\ tpc' = IF cool = 0 /\ OnTarget THEN "off" ELSE "retarget"
    /\ UNCHANGED <<game, user, discovery, bridge, found, misses, stale, cool, called, fresh>>

\* setStationByName: a change of station ends the channel, and a change to the
\* streamer station makes the game build one.
SetStation(s) ==
    /\ station' = s
    /\ chan' = IF s = station THEN chan ELSE 0
    /\ wants' = IF s = station THEN wants ELSE s = "streamer"

Resume == IF found THEN "retarget" ELSE "search"

\* retune_streamer_station: off ...
RetuneOff ==
    /\ tpc = "off"
    /\ IF readable
       THEN SetStation("off") /\ tpc' = "sleep"
       ELSE UNCHANGED <<station, chan, wants>> /\ tpc' = Resume
    /\ UNCHANGED <<obj, stream, lost, chosen, readable, mixing, busy, discovery, bridge, found,
                   misses, stale, cool, called, fresh>>

\* ... 300 ms later, and if radio_state can still be read, on again.
RetuneOn ==
    /\ tpc = "sleep"
    /\ IF readable
       THEN /\ SetStation("streamer")
            /\ tpc' = IF found THEN "acquire" ELSE "search"
            /\ cool' = IF found THEN Cooldown ELSE cool
            /\ chosen' = IF found THEN chosen ELSE "streamer"
       ELSE UNCHANGED <<station, chan, wants, cool, chosen>> /\ tpc' = Resume
    /\ UNCHANGED <<obj, stream, lost, readable, mixing, busy, discovery, bridge, found, misses,
                   stale, called, fresh>>

\* Re-point the bridge right after the toggle.
Reacquire ==
    /\ tpc = "acquire"
    /\ Discover
    /\ (\E o \in Obj : AcquireTarget(o)) \/ UNCHANGED target
    /\ tpc' = "retarget"
    /\ UNCHANGED <<game, user, handle, found, misses, stale, cool, called, fresh>>

Tick == \/ Search \/ Retarget \/ Watch \/ Judge \/ Gate
        \/ RetuneOff \/ RetuneOn \/ Reacquire

-----------------------------------------------------------------------------
(* The game and the user                                                   *)

\* read_callback on the mixer thread
Called ==
    /\ mixing /\ chan # 0 /\ handle = chan
    /\ called' = TRUE
    /\ UNCHANGED <<game, user, discovery, bridge, loop, fresh>>

\* The game makes, fills in and frees objects that carry no channel.
ObjectChanges(o, s) ==
    /\ obj[o] # s
    /\ o = stream => chan = 0
    /\ obj' = [obj EXCEPT ![o] = s]
    /\ UNCHANGED <<stream, chan, wants, lost, user, discovery, bridge, loop, called, fresh>>

\* After a change to the streamer station: a channel, maybe on another object.
Build(o) ==
    /\ station = "streamer" /\ wants /\ chan = 0 /\ obj[o] = "ready"
    /\ stream' = o
    /\ chan' \in (1 .. Handles) \ {handle}
    /\ wants' = FALSE
    /\ fresh' = TRUE
    /\ UNCHANGED <<obj, lost, user, discovery, bridge, loop, called>>

TearDown ==
    /\ chan # 0 /\ lost < MaxLost
    /\ chan' = 0
    /\ lost' = lost + 1
    /\ UNCHANGED <<obj, stream, wants, user, discovery, bridge, loop, called, fresh>>

Tune(s) ==
    /\ readable /\ s # station
    /\ SetStation(s)
    /\ chosen' = s
    /\ UNCHANGED <<obj, stream, lost, readable, mixing, busy, discovery, bridge, loop, called, fresh>>

Pause ==
    /\ mixing' = ~mixing
    /\ UNCHANGED <<game, station, chosen, readable, busy, discovery, bridge, loop, called, fresh>>

World ==
    /\ readable' = ~readable
    /\ UNCHANGED <<game, station, chosen, mixing, busy, discovery, bridge, loop, called, fresh>>

PlayOrStop ==
    /\ busy' = ~busy
    /\ UNCHANGED <<game, station, chosen, readable, mixing, discovery, bridge, loop, called, fresh>>

Environment == \/ \E o \in Obj, s \in {"absent", "wrapper", "ready"} : ObjectChanges(o, s)
               \/ \E o \in Obj : Build(o)
               \/ TearDown \/ Pause \/ World \/ PlayOrStop
               \/ \E s \in {"streamer", "other", "off"} : Tune(s)

-----------------------------------------------------------------------------
Next == Tick \/ Called \/ Environment

\* The loop ticks, the mixer calls; an install does not fail for ever, nor
\* does the resolution of FMOD's system.
LoopFairness ==
    /\ WF_vars(Tick)
    /\ WF_vars(Called)
    /\ SF_vars(Retarget /\ handle' # handle /\ handle' # 0)
    /\ SF_vars(Search /\ found')
Spec == Init /\ [][Next]_vars /\ LoopFairness

\* A game that keeps the streamer station's object and builds a channel within
\* the cooldown, and a toggle that neither the user nor a world load interrupts.
Toggling == tpc \in {"gate", "off", "sleep"}
Still == /\ stream' = stream
         /\ \A o \in Obj : obj'[o] = "ready" => o = stream
         /\ obj[stream] = "ready" => obj'[stream] = "ready"
         /\ cool' < cool /\ cool' = 0 => ~wants
         /\ Toggling => readable' = readable /\ (found => chosen' = chosen)
StillSpec == /\ Init /\ [][Next /\ Still]_vars /\ LoopFairness
             /\ WF_vars(Build(stream))
             /\ WF_vars(ObjectChanges(stream, "ready"))

-----------------------------------------------------------------------------
(* Properties                                                              *)

TypeOK ==
    /\ obj \in [Obj -> {"absent", "wrapper", "ready"}]
    /\ stream \in Obj
    /\ chan \in 0 .. Handles /\ handle \in 0 .. Handles
    /\ lost \in 0 .. MaxLost
    /\ {station, chosen} \subseteq {"streamer", "other", "off"}
    /\ {wants, readable, mixing, busy, found, called, fresh} \subseteq BOOLEAN
    /\ cache \in SUBSET Obj
    /\ streak \in 0 .. (RescanAfter - 1)
    /\ misses \in 0 .. (Misses - 1)
    /\ target \in Obj \cup {Nowhere}
    /\ stale \in 0 .. (StaleTicks - 1)
    /\ cool \in 0 .. Cooldown
    /\ tpc \in {"search", "retarget", "watch", "judge", "gate", "off", "sleep", "acquire"}

\* The station is changed by a step of the running control loop.
Toggled == found /\ station' # station /\ tpc' # tpc

\* "we never yank the user off a station they chose": once running, the mod
\* changes the station only of a user who is on ours.
NeverYanked == [][Toggled => chosen = "streamer"]_vars

\* "if it's still alive the game is just paused, so leave it be": no toggle
\* ends a channel that was already there when the watchdog looked.
PausedLeftAlone == [][Toggled /\ station' = "off" /\ chan # 0 => fresh]_vars

\* The discovery loop ends for a user who stays on our station, also when it
\* latched on to a placeholder first.
FoundInTheEnd ==
    (~found /\ chosen = "streamer") ~> (found \/ chosen # "streamer" \/ ~readable)

\* "Toggling the in-game station off and back on ...; retarget_if_needed() then
\* re-attaches the DSP": a user on our station hears it again.
HealedInPlace ==
    (found /\ chosen = "streamer")
        ~> (called \/ chosen # "streamer" \/ ~mixing \/ ~busy \/ ~readable)

\* "re-point at the live one so retarget_if_needed installs there": the DSP
\* follows a channel that stays, wherever the game put it.
DspFollows ==
    (found /\ OnTarget /\ busy /\ chan # 0)
        ~> (handle = chan \/ ~OnTarget \/ ~busy \/ chan = 0)

\* "Toggle the in-game station off and back on": the toggle is over and the
\* user's station is back.  The code does not keep it when radio_state is gone
\* in between (ChannelWatchdog_off.cfg).
ToggleComesBack == tpc = "watch" /\ chosen = "streamer" => station # "off"

\* Why, in that game (proved in ChannelWatchdogProofs): outside a toggle the
\* station is the chosen one, and the loop toggles a user who chose ours ...
FoundPlaces ==
    /\ tpc = "search" => ~found
    /\ tpc \in {"retarget", "watch", "judge", "gate", "acquire"} => found
Settled ==
    /\ tpc # "sleep" => station = chosen
    /\ tpc = "sleep" => readable
    /\ found /\ tpc \in {"off", "sleep"} => chosen = "streamer" /\ readable

\* ... the object that was found stays in the cache, so that the watchdog sees the
\* channel it carries, and a channel it did not see is a younger one.
StreamCached == found => stream \in cache /\ obj[stream] = "ready"
OnlyYounger ==
    /\ tpc = "gate" /\ OnTarget /\ chan # 0 => fresh
    /\ found /\ tpc = "off" /\ chan # 0 => fresh

StillInv == FoundPlaces /\ Settled /\ StreamCached /\ OnlyYounger
=============================================================================
