----------------------------- MODULE BridgeConfig -----------------------------
(***************************************************************************)
(* How the radio comes up: run_bridge and apply_config (src/src/bridge.cpp), *)
(* the dependency manager's download thread (src/src/deps.cpp), the          *)
(* configuration they read (src/src/config.cpp, config_store.cpp), and       *)
(* OocRadioSource's pipe with its two ways to start ffmpeg                   *)
(* (src/src/sources/ooc_radio_source.cpp).  Threads: the download thread,    *)
(* which also applies the configuration when a tool has landed, and the      *)
(* control loop, on which the user plays and pauses.  The game may die at    *)
(* any time and be started again; files stay.                                *)
(*                                                                         *)
(* No thread but run_bridge's own exists before it creates the control       *)
(* loop, so the start-up is one step.  CreatePipe and CreateJobObject do not *)
(* fail here.  ConfigStore's patch and reload have no caller: the            *)
(* configuration in memory is the one read at the start.                     *)
(***************************************************************************)
EXTENDS Naturals

CONSTANT
    OnPath        \* CreateProcess finds an ffmpeg without being given a path
ASSUME OnPathAssumption == OnPath \in BOOLEAN

VARIABLES
    up,        \* the bridge runs
    toml,      \* config.toml: ooc_radio "on", "off", or "broken": not there, not TOML
    enabled,   \* ooc_radio.enabled in memory: the source is registered and active
    bin,       \* [Tool -> what is at out_path: "none"; "half", a write that was not
               \* finished; "short", all of a body the network has cut; "whole"]
    part,      \* [Tool -> what is at out_path.part, likewise]
    dpc,       \* where the download thread is
    tool,      \* the tool it is at
    resolved,  \* apply_config: its ffmpeg_path is the managed one (else it is empty)
    managed,   \* the source's ffmpeg_path_, likewise
    state,     \* the source's state_
    pipe,      \* pipe_: "none", or started through the "worker", or "direct"
    worker,    \* "absent", "up" or "dead"
    hushed     \* history: the user paused, and has not played since

config == <<toml, enabled>>
files == <<bin, part>>
download == <<dpc, tool, resolved>>
source == <<managed, state, pipe>>
bvars == <<up, config, files, download, source, worker, hushed>>

Tool == {"ffmpeg", "texconv"}

BInit == /\ up = FALSE
         /\ toml \in {"on", "off", "broken"} /\ enabled = FALSE
         /\ bin = [t \in Tool |-> "none"] /\ part = [t \in Tool |-> "none"]
         /\ dpc = "off" /\ tool = "ffmpeg" /\ resolved = FALSE
         /\ managed = FALSE /\ state = "stopped" /\ pipe = "none"
         /\ worker = "absent" /\ hushed = FALSE

\* load_config: what cannot be read leaves the defaults, and the default is on.
LoadConfig == toml # "off"

Busy == state \in {"playing", "buffering"}

\* resolve(Tool::ffmpeg, ""): any file will do.
Resolves == bin["ffmpeg"] # "none"

-----------------------------------------------------------------------------
(* OocRadioSource                                                          *)

\* A file that is not all of the program does not start.
Launches(m) == IF m THEN bin["ffmpeg"] = "whole" ELSE OnPath

\* start_pipe_locked: a worker that is alive may still refuse.
NoFallback(m, w) == IF ~Launches(m) THEN {"none"}
                    ELSE IF w = "up" THEN {"worker", "none"} ELSE {"direct"}
Started(m, w) == IF ~Launches(m) THEN {"none"}
                 ELSE IF w = "up" THEN {"worker", "direct"} ELSE {"direct"}

Play(m, w) ==
    /\ pipe' \in IF pipe = "none" THEN Started(m, w) ELSE {pipe}
    /\ state' = IF pipe' = "none" THEN "stopped" ELSE "playing"
    /\ managed' = m

UserPlay ==
    /\ up /\ enabled /\ ~Busy
    /\ Play(managed, worker)
    /\ hushed' = FALSE
    /\ UNCHANGED <<up, config, files, download, worker>>

UserPause ==
    /\ up /\ enabled /\ Busy
    /\ pipe' = "none" /\ state' = "stopped"
    /\ hushed' = TRUE
    /\ UNCHANGED <<up, config, files, download, managed, worker>>

-----------------------------------------------------------------------------
(* run_bridge                                                              *)

\* WorkerClient::start: without the exe, a token, a process, or its control pipe
\* within five seconds, there is no worker.
StartWorker == worker' \in {"up", "absent"}

\* The source, if enabled, is registered with what resolve finds, and switch_to
\* plays it.
StartUp ==
    /\ ~up /\ up' = TRUE
    /\ enabled' = LoadConfig
    /\ StartWorker
    /\ IF LoadConfig THEN Play(Resolves, worker') ELSE UNCHANGED source
    /\ dpc' = "look" /\ tool' = "ffmpeg"
    /\ UNCHANGED <<toml, files, resolved, hushed>>

-----------------------------------------------------------------------------
(* DependencyManager::run_worker                                           *)

At(pc) == up /\ dpc = pc
Goto(pc) == dpc' = pc /\ UNCHANGED tool
NextTool == IF tool = "ffmpeg" THEN dpc' = "look" /\ tool' = "texconv"
                               ELSE dpc' = "done" /\ UNCHANGED tool

\* A tool that is there is never fetched again; else CREATE_ALWAYS.
Look ==
    /\ At("look")
    /\ IF bin[tool] # "none"
       THEN NextTool /\ UNCHANGED files
       ELSE Goto("fetch") /\ part' = [part EXCEPT ![tool] = "half"] /\ UNCHANGED bin
    /\ UNCHANGED <<up, config, resolved, source, worker, hushed>>

\* The body ends when a read returns nothing.  Content-Length is only counted
\* and no checksum is set, so a body the network has cut short ends as well.
Fetch ==
    /\ At("fetch")
    /\ \E body \in {"short", "whole"} : part' = [part EXCEPT ![tool] = body]
    /\ Goto("rename")
    /\ UNCHANGED <<up, config, bin, resolved, source, worker, hushed>>

\* A failed request, read, write or rename: remove(dl), and on to the next.
RenamesAnyway ==
    /\ up /\ dpc \in {"fetch", "rename"}
    /\ Goto("rename")
    /\ UNCHANGED <<up, config, files, resolved, source, worker, hushed>>
Fails ==
    /\ up /\ dpc \in {"fetch", "rename"}
    /\ part' = [part EXCEPT ![tool] = "none"]
    /\ NextTool
    /\ UNCHANGED <<up, config, bin, resolved, source, worker, hushed>>

Install ==
    /\ At("rename")
    /\ bin' = [bin EXCEPT ![tool] = part[tool]]
    /\ part' = [part EXCEPT ![tool] = "none"]
    /\ Goto("ready")
    /\ UNCHANGED <<up, config, resolved, source, worker, hushed>>

-----------------------------------------------------------------------------
(* apply_config, on the download thread                                    *)

\* with_resolved_bins; sync_sources finds nothing to change.
Resolve ==
    /\ At("ready")
    /\ resolved' = Resolves
    /\ IF enabled THEN Goto("apply") ELSE NextTool
    /\ UNCHANGED <<up, config, files, source, worker, hushed>>

SetPath ==
    /\ At("apply")
    /\ managed' = resolved
    /\ resolved' = FALSE
    /\ Goto("judge")
    /\ UNCHANGED <<up, config, files, state, pipe, worker, hushed>>

\* playback_state() is read without the source's mutex, play() takes it.
Judge ==
    /\ At("judge")
    /\ IF state # "playing" THEN Goto("play") ELSE NextTool
    /\ UNCHANGED <<up, config, files, resolved, source, worker, hushed>>

PlayAgain ==
    /\ At("play")
    /\ Play(managed, worker)
    /\ NextTool
    /\ UNCHANGED <<up, config, files, resolved, worker, hushed>>

Download == Look \/ Fetch \/ Fails \/ Install \/ Resolve \/ SetPath \/ Judge \/ PlayAgain

-----------------------------------------------------------------------------
(* The world                                                               *)

WorkerDies ==
    /\ up /\ worker = "up"
    /\ worker' = "dead"
    /\ UNCHANGED <<up, config, files, download, source, hushed>>

\* The game exits or crashes; its processes die with it.
Crash ==
    /\ up /\ up' = FALSE
    /\ enabled' = FALSE
    /\ dpc' = "off" /\ tool' = "ffmpeg" /\ resolved' = FALSE
    /\ managed' = FALSE /\ state' = "stopped" /\ pipe' = "none"
    /\ worker' = "absent" /\ hushed' = FALSE
    /\ UNCHANGED <<toml, files>>

HandEdit ==
    /\ toml' \in {"on", "off", "broken"} \ {toml}
    /\ UNCHANGED <<up, enabled, files, download, source, worker, hushed>>

-----------------------------------------------------------------------------
\* What takes the source's mutex, and what does not.
Locked == SetPath \/ PlayAgain \/ UserPlay \/ UserPause
Unlocked == \/ StartUp \/ Look \/ Fetch \/ Fails \/ Install \/ Resolve \/ Judge
            \/ WorkerDies \/ Crash \/ HandEdit

BNext == Locked \/ Unlocked

BTypeOK ==
    /\ {up, enabled, resolved, managed, hushed} \subseteq BOOLEAN
    /\ toml \in {"on", "off", "broken"}
    /\ {bin, part} \subseteq [Tool -> {"none", "half", "short", "whole"}]
    /\ dpc \in {"off", "look", "fetch", "rename", "ready", "apply", "judge", "play", "done"}
    /\ tool \in Tool
    /\ state \in {"stopped", "playing", "buffering"}
    /\ pipe \in {"none", "worker", "direct"}
    /\ worker \in {"absent", "up", "dead"}

\* "exists" is the only test a tool ever gets again, in this session or a later
\* one: wherever a download fails and whenever the game dies, what stands under
\* the tool's name was written to its end.
NeverHalfBinary == \A t \in Tool : bin[t] # "half"

\* Why (proved in SourcePumpProofs).
WrittenBeforeRename == dpc = "rename" => part[tool] \in {"short", "whole"}

\* What was written to its end is the whole tool.  The code does not see to it:
\* "sha256 hashes are intentionally empty" (SourcePump_short.cfg).
NeverShortBinary == \A t \in Tool : bin[t] # "short"

\* "Re-resolve binary paths into the live sources once a download lands": once
\* ffmpeg is there the source gets its stream, though nothing was found at the
\* start, the worker may refuse or die, and the user tries to play meanwhile.
LandedToolPlays ==
    (up /\ enabled /\ bin["ffmpeg"] = "whole") ~> (pipe # "none" \/ hushed \/ ~up)

\* A source the user paused stays silent until the user plays it.
PauseSticks == [][hushed /\ hushed' => ~(state = "stopped" /\ state' = "playing")]_bvars

\* "hand edits to config.toml are picked up live, no game restart needed"
HandEditApplied == (up /\ LoadConfig # enabled) ~> (LoadConfig = enabled \/ ~up)
=============================================================================
