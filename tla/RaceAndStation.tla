---------------------------- MODULE RaceAndStation ----------------------------
(***************************************************************************)
(* The other half of ControlLoop::run_playback_state_machines               *)
(* (src/src/fmod/dsp_control_loop.cpp): what races and changes of the       *)
(* station do to playback.  Each tick samples the game through              *)
(* GameStateProbe::read, which reports nothing while radio_state cannot be *)
(* read, compares the sample with the one before, and may stop or resume   *)
(* the source; tuning away and back within a second is the old way to give *)
(* a command (play/pause, when bound to 0x9999).  The source is            *)
(* OocRadioSource: its skip_next and restart_current do nothing, so of the *)
(* race actions only "off" acts.                                           *)
(*                                                                         *)
(* Times are in ticks and saturate one past the limit they are held to.    *)
(***************************************************************************)
EXTENDS Naturals

CONSTANTS
    RaceStartDebounce,     \* 45 s
    RaceRestartDebounce,   \* 5 s
    SkipCommandCooldown,   \* 1.5 s
    QuickSkipWindow,       \* 1 s
    CommandCooldown        \* 250 ms between two play/pause commands
ASSUME LimitsAssumption ==
    {RaceStartDebounce, RaceRestartDebounce, SkipCommandCooldown, QuickSkipWindow,
     CommandCooldown}
        \subseteq Nat \ {0}

VARIABLES
    tuned,       \* the user is tuned to our station
    race,        \* a race runs
    restart,     \* the game's restart field is -1
    readable,    \* radio_state can be read
    playing,     \* the source plays or buffers
    first,       \* first_connection_
    prevRace,    \* prev_race_
    prevRestart, \* prev_race_restart_
    prevR10,     \* prev_r10_
    armed,       \* quick_skip_armed_
    stopped,     \* paused_by_race_off_
    sinceRace,   \* now - last_race_event_
    sinceSkip,   \* now - last_skip_cmd_
    sinceOff,    \* now - last_r10_off_
    sinceCmd,    \* now - last_playpause_cmd_
    command,     \* the play/pause of the latest tick: "none", "key" or "tune"
    hush,        \* history: what silenced the source: "none", "race", "user" or
                 \* "failed", a play() that could not start its pipeline
    overruled,   \* history: the latest stop for a race was answered by a command
    away         \* history: the user tuned away since the latest quick tune

game == <<tuned, race, restart, readable>>
edges == <<first, prevRace, prevRestart, prevR10, armed, stopped>>
clocks == <<sinceRace, sinceSkip, sinceOff, sinceCmd>>
story == <<command, hush, overruled>>
raceVars == <<game, playing, edges, clocks, story, away>>

\* GameStateProbe::read
OnTarget == readable /\ tuned
RaceActive == readable /\ race
RaceRestart == readable /\ restart

RaceInit == /\ tuned \in BOOLEAN /\ race \in BOOLEAN
            /\ restart \in BOOLEAN /\ readable \in BOOLEAN
            /\ playing = TRUE
            /\ first = TRUE /\ prevRace = FALSE /\ prevRestart = FALSE /\ prevR10 = FALSE
            /\ armed = FALSE /\ stopped = FALSE
            /\ sinceRace = RaceStartDebounce
            /\ sinceSkip = SkipCommandCooldown
            /\ sinceOff = QuickSkipWindow + 1
            /\ sinceCmd = CommandCooldown
            /\ command = "none" /\ hush = "none" /\ overruled = FALSE
            /\ away = FALSE

-----------------------------------------------------------------------------
(* What a tick makes of its sample                                         *)

RaceEdgeIn == RaceActive /\ ~prevRace
RaceEdgeOut == ~RaceActive /\ prevRace
RestartEdgeIn == RaceRestart /\ ~prevRestart
RaceDebounce == IF RestartEdgeIn THEN RaceRestartDebounce ELSE RaceStartDebounce

\* A race begins, or begins again, for a user on our station.
RaceEvent == /\ RaceEdgeIn \/ RestartEdgeIn
             /\ OnTarget
             /\ sinceRace >= RaceDebounce
             /\ sinceSkip >= SkipCommandCooldown

\* race_start_playback = "off" stops a source that plays.
StopsForRace == RaceEvent /\ playing

\* The race is over: resume what was stopped for it.
DebouncedEnd == RaceEdgeOut /\ stopped /\ sinceSkip >= SkipCommandCooldown
ResumesAfterRace == RaceEdgeOut /\ (stopped \/ StopsForRace)

\* Tuned back in within the window.
QuickTune == ~prevR10 /\ OnTarget /\ armed /\ sinceOff <= QuickSkipWindow

\* What triggers the toggle of this tick; press is the hotkey's trigger.
Triggered(press) == IF sinceCmd < CommandCooldown THEN "none"
                    ELSE IF QuickTune THEN "tune" ELSE IF press THEN "key" ELSE "none"

-----------------------------------------------------------------------------
(* run_playback_state_machines                                             *)

\* The first tick only takes the sample.
FirstTick ==
    /\ first
    /\ first' = FALSE
    /\ prevRace' = RaceActive /\ prevRestart' = RaceRestart /\ prevR10' = OnTarget
    /\ UNCHANGED <<game, playing, armed, stopped, clocks, story, away>>

ForgetsToClear == stopped' = (stopped \/ StopsForRace)
StoppedFlag == stopped' = ((stopped \/ StopsForRace) /\ ~ResumesAfterRace)

\* The race rules first, then the command; a play() works or does not.
Playback(press, works) ==
    LET resumed == ResumesAfterRace /\ (~playing \/ StopsForRace)
        ruled == IF resumed THEN works ELSE playing /\ ~StopsForRace
        cause == IF ruled THEN "none" ELSE IF resumed THEN "failed"
                 ELSE IF StopsForRace THEN "race" ELSE hush
    IN /\ command' = Triggered(press)
       /\ IF command' = "none" THEN playing' = ruled /\ hush' = cause
          ELSE /\ playing' = (~ruled /\ works)
               /\ hush' = IF playing' THEN "none" ELSE IF ruled THEN "user" ELSE "failed"
       /\ overruled' = /\ ~RaceEdgeOut
                       /\ \/ command' # "none" /\ (StopsForRace \/ hush = "race")
                          \/ overruled /\ ~StopsForRace

Older(t, limit) == IF t < limit THEN t + 1 ELSE limit

Clocks ==
    /\ sinceRace' = IF RaceEvent THEN 1 ELSE Older(sinceRace, RaceStartDebounce)
    /\ sinceSkip' = IF StopsForRace THEN 1 ELSE Older(sinceSkip, SkipCommandCooldown)
    /\ sinceOff' = IF prevR10 /\ ~OnTarget THEN 1 ELSE Older(sinceOff, QuickSkipWindow + 1)
    /\ sinceCmd' = IF command' # "none" THEN 1 ELSE Older(sinceCmd, CommandCooldown)

StateTick(press, works) ==
    /\ ~first
    /\ StoppedFlag
    /\ Playback(press, works)
    /\ Clocks
    /\ prevRace' = RaceActive /\ prevRestart' = RaceRestart /\ prevR10' = OnTarget
    /\ armed' = IF prevR10 # OnTarget THEN prevR10 ELSE armed
    /\ away' = (away /\ command' # "tune")
    /\ UNCHANGED <<game, first>>

RaceTick == FirstTick \/ \E press, works \in BOOLEAN : StateTick(press, works)

-----------------------------------------------------------------------------
(* The game and the user                                                   *)

Tune == /\ tuned' = ~tuned
        /\ away' = (away \/ tuned)
        /\ UNCHANGED <<race, restart, readable, playing, edges, clocks, story>>

Race == /\ race' = ~race
        /\ UNCHANGED <<tuned, restart, readable, playing, edges, clocks, story, away>>

Restart == /\ restart' = ~restart
           /\ UNCHANGED <<tuned, race, readable, playing, edges, clocks, story, away>>

\* radio_state goes away and comes back (a world load, a scene swap)
World == /\ readable' = ~readable
         /\ UNCHANGED <<tuned, race, restart, playing, edges, clocks, story, away>>

RaceNext == RaceTick \/ Tune \/ Race \/ Restart \/ World
RaceSpec == RaceInit /\ [][RaceNext]_raceVars /\ WF_raceVars(RaceTick)

-----------------------------------------------------------------------------
(* Properties                                                              *)

RaceTypeOK ==
    /\ {tuned, race, restart, readable, playing, overruled, away} \subseteq BOOLEAN
    /\ {first, prevRace, prevRestart, prevR10, armed, stopped} \subseteq BOOLEAN
    /\ sinceRace \in 0 .. RaceStartDebounce
    /\ sinceSkip \in 0 .. SkipCommandCooldown
    /\ sinceOff \in 0 .. (QuickSkipWindow + 1)
    /\ sinceCmd \in 0 .. CommandCooldown
    /\ command \in {"none", "key", "tune"}
    /\ hush \in {"none", "race", "user", "failed"}

\* "R10 = user is currently tuned to our station": a quick tune is one the
\* user made, not a flap of what the probe sees.
QuickTuneIsReal == [][command # "tune" /\ command' = "tune" => away]_raceVars

\* "45 s ignores spurious race-flag flips during loading screens": a source
\* stopped for a race stays silent, without a command, while the race runs.
\* The 45 s are asked of the rising edge only; the falling edge acts at once,
\* and so does a moment in which radio_state cannot be read
\* (RaceAndStation_flip.cfg).  A flag that really falls and rises again within
\* a race is the end of a race here: the formula does not speak of it.
SilentForTheRace ==
    [][hush = "race" /\ playing' /\ command' = "none" => ~race]_raceVars

\* "race ended -- resuming playback" is for what the race had stopped: the end
\* of a race plays no source that the user, or a failure, has silenced, unless
\* a command had come between the stop and the end.
ResumesWhatItStopped ==
    [][~playing /\ playing' /\ command' = "none" => hush = "race" \/ overruled]_raceVars

\* A source stopped for a race is played again once the race is over, or a
\* command or a failed play() has settled what it is.
RaceStopEnds == (hush = "race" /\ prevRace) ~> (hush # "race" \/ race)

\* Why (proved in PlaybackProofs): the flag is up only after a stop that no
\* command, or only a command, has answered.
RaceInv ==
    /\ RaceTypeOK
    /\ playing => hush = "none"
    /\ stopped => hush = "race" \/ overruled
=============================================================================
