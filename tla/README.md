# Formal models of OOC Radio for FH6

TLA+ modules, TLC configurations and TLAPS proofs for the concurrent core of
this repository: the mod that streams OOC Radio into the game's radio. Paths
below are relative to the repository (`src/...` is the C++ code, `include/...`
its headers). Every module opens with the source files it stands for, and
`PROJECT.json` maps every definition to the lines it translates.

    tlc -workers 2 -config RingBuffer_quiet.cfg RingBuffer
    tlapm RingBufferProofs.tla

## 1. The system

The program is a proxy DLL (`version.dll`) inside the game's process and a
worker process (`fh6-radio-worker.exe`). The worker runs ffmpeg for the DLL; the PCM
comes back over a named pipe, passes a lock-free ring, and is mixed into the
game's own radio channel by a DSP the DLL installs there.

| component (source) | state it keeps | operations | talks to |
|---|---|---|---|
| PCM ring (`ring_buffer.cpp`) | two positions, a hold flag, the bytes | write, read, drain, hold | pump (producer), mixer callback (consumer), control loop and source switch (drain) |
| Radio source (`ooc_radio_source.cpp`) | playback state, its pipe, now-playing | play, pause, stop, pump, now-playing poll | worker client, ring |
| Source manager (`audio_source_manager.cpp`) | sources, the active one | register, switch, pump_once | source, ring |
| Control loop (`fmod/dsp_control_loop.cpp`) | target, stale/idle counters, edges, cooldowns, gain | one tick every ~20 ms: pump, drain, watchdog, audibility, hotkeys, race rules, gain | everything in the DLL |
| DSP bridge (`fmod/dsp_bridge.cpp`) | stream pointer, channel handle, call count, gain | retarget, install, release, read_callback | FMOD's mixer thread, control loop |
| Radio discovery (`fmod/radio_discovery.cpp`) | cache of candidates, empty streak | discover | game memory |
| Game-state probe (`fmod/game_state_probe.cpp`) | none | read, retune (off, 300 ms, on) | game memory |
| Artwork jobs (`fmod/texture_injector.cpp`) | ticket, processing flag, pending pixels | update, job thread, pop | worker, control loop, render thread |
| Worker client (`worker/worker_client.cpp`) | worker process, next id | start, stop, request, spawn, kill | control pipe |
| Worker: server (`worker/worker_main.cpp`) | `g_pipelines`, `g_mu` | accept, spawn, kill, run, download, shutdown | client, children |
| Worker: pipeline (`worker/worker_main.cpp`) | child tree, job, proxies' handles | proxy threads, kill | children, the DLL's stream ends |
| Now-playing poll (`ooc_radio_source.cpp`) | `now_`, `live_` under `meta_mu_` | poll every few seconds, current_track | web service, control loop |
| Metadata injector (`fmod/metadata_injector.cpp`) | target object, the two strings it wrote last | set_target, update | game's HUD (string slots) |
| D3D12 hooks (`proxy/dll_main.cpp`) | list of unverified textures, list of logos | note a view, read back and compare, upload | artwork jobs, game's render and loader threads, GPU |
| Bridge (`bridge.cpp`) | - | start-up, apply_config | all of the above |
| Dependency manager (`deps.cpp`) | tools on disk, `.part` files | download thread, resolve | bridge, network |
| Configuration, ConfigStore (`config.cpp`, `config_store.cpp`) | config.toml, the snapshot | load, snapshot (patch, reload and save have no caller) | bridge |
| Equalizer (`playback_dsp.cpp`) | bands, filter state | set_options, process | source, under its mutex |
| Scanner, PE image, subprocess, HTTP, log | little or none | - | OS |

Threads: the control loop; FMOD's mixer; the game's render thread; one detached
thread per artwork; the source's poll thread; the download thread, which also runs
`apply_config`; a thread per request and two proxies per pipeline in the worker, plus its accept loop and a
thread waiting for the game to die.

What is hard about it, and what correctness means:

* **Ring.** No lock, three users of two positions. Correct: what the mixer gets
  is what was written, once, in order; free space never wraps. A drain is meant to be final, and is not
  (`RingBuffer_undrained.cfg`).
* **Pipeline teardown.** A kill must end threads that are parked in any of four
  blocking calls on shared handles. Correct: it ends, closes nothing in use, and
  an ordinary end of track loses no audio and is seen by the DLL.
* **Control protocol.** Requests race with kills, shutdown, the game's death and
  the gap between two pipe instances. Correct: no child outlives its track.
* **Artwork.** A job's check and its effect are not atomic. Correct: the newest
  artwork wins, the flag covers the newest job and always clears, but for an artwork requested
  in the very window of another's check.
* **Audio path.** Nobody reading means ring, pipe and ffmpeg fill up. Correct:
  PCM keeps moving, nothing audible is thrown away.
* **Channel watchdog.** Pointers and station are sampled, acted on later.
  Correct: a dead channel heals, nobody is yanked off a station.
* **Hotkeys.** Buttons of a combo arrive one by one. Correct: one command per
  hold, and the right one.
* **Race rules.** Flags flicker, and only the rising edge is debounced. Correct:
  resumption of exactly what was stopped, and in the end of all of it. That the race
  is silent to its end is meant, and is not so (`RaceAndStation_flip.cfg`).
* **HUD.** Text, artwork and the object they go to change on three threads' word.
  Correct: title and artwork appear together, the banner is not popped again for
  what the injector knows to stand there, and what is on the air is shown in the end.
* **String slots.** Three stores into a string the game may be reading. Correct: no
  reader combines two strings.
* **Textures.** Pointers outlive textures, addresses are reused. Correct: only the
  station's logo is overwritten, all copies of it alike, and it is found.
* **Bring-up.** ffmpeg may be missing, half downloaded, or refused by the worker, and
  the game may die at any point. Correct: no unfinished download is ever taken for a tool, and the
  arrival of ffmpeg brings the stream.
* **Pump.** ffmpeg writes any number of bytes. Correct: the ring receives whole
  frames, at frame boundaries.

`PROJECT.json` lists the hazards at their lines, with the property that covers
each, or a note why none does.

## 2. The modules

| module | lines modelled | actions correspond to |
|---|---|---|
| `PcmQueue` | the contract in `ring_buffer.hpp` | abstract: a bounded FIFO, all-or-nothing write, partial read, drain |
| `RingBuffer` | `ring_buffer.cpp` | every load, store and copied frame of write, read and drain |
| `RingBufferProofs` | - | theorems |
| `PipelineTeardown` | `Pipeline`, `proxy_thread_fn` | every call on a shared handle; `Pipeline::kill`'s five passes |
| `PipelineTeardownProofs` | - | theorems |
| `WorkerIpc` | `worker_client.cpp`, server half of `worker_main.cpp` | open/send/receive/close of a request; accept loop; handlers; shutdown; forced end |
| `WorkerIpcProofs` | - | theorems |
| `ArtworkJobs` | `texture_injector.cpp` | update's two stores, each step of a job's thread, the guard's check and its clear |
| `RadioPath` | source, manager, pump/drain/audibility/gain of the loop, callback | one action per phase of a tick; callback begin and end; `apply_config` |
| `ChannelWatchdog` | discovery cache, watchdog, select_instance, toggle, retarget | one action per read of shared state; the game and the user are the environment |
| `ChannelWatchdogProofs` | - | theorems |
| `PadHotkeys`, `MCPadHotkeys` | hotkey half of `run_playback_state_machines` | one action: a tick with a sample of buttons and keys |
| `RaceAndStation` | race and quick-tune half of the same function | one action: a tick; plus what the game does between ticks |
| `PlaybackProofs` | - | theorems about `PadHotkeys`, `RaceAndStation` and `RadioPath` |
| `NowPlayingHud`, `MCNowPlayingHud` | poll thread, `push_metadata` and its tick, injector | a poll; a tick's refresh up to `update_artwork_url`, then the gate and the writes; on top of every step of `ArtworkJobs` |
| `NowPlayingHudProofs` | - | theorems, also about `ArtworkJobs` |
| `MetadataSlots` | `write_string_slot` | each store of the exchange, each load of a reader |
| `TextureUpload` | `dll_main.cpp`'s hooks | a view; the render thread's phases between two locks; the game's textures |
| `TextureUploadProofs` | - | theorems |
| `BridgeConfig` | `run_bridge`, `apply_config`, `deps.cpp`, the source's pipe | each point where the download thread and the control loop can meet; crash and restart |
| `SourcePump` | `OocRadioSource::pump`, in bytes | peek, one turn of the read loop; on top of every step of `BridgeConfig` |
| `SourcePumpProofs` | - | theorems, also about `BridgeConfig` |

How they fit together. `RingBuffer` implements `PcmQueue` (`INSTANCE ... WITH`,
checked as a PROPERTY and proved). `RadioPath` uses a ring as an amount only, which is what
`PcmQueue` justifies; `PipelineTeardown` is the inside of the single step
`KillDestroy`/`ShutdownReap` of `WorkerIpc`, which `KillCompletes` justifies.
`StateMachines` in `RadioPath` stands for whatever `PadHotkeys` and `RaceAndStation`
decide, and `Toggled` steps of `ChannelWatchdog` show up there as `GameTurns`.

`NowPlayingHud` EXTENDS `ArtworkJobs`: its next-state relation is the disjunction of
the jobs' steps and its own, and the flag is the same variable. `SourcePump` EXTENDS
`BridgeConfig` in the same way: whatever replaces the pipe also resets what is known
of its bytes, and what takes the source's mutex waits for the pump. `PublishImage` of
`TextureUpload` is the publication of `ArtworkJobs`, `TextureSeen` of `NowPlayingHud`
its answer. `MetadataSlots` is the inside of one write of `UpdateHud`.

Modelling decisions worth knowing:

* A unit of PCM is a frame and carries its index in the accepted stream as its
  label, so "once, in order, not torn" is visible in the data. `Space` computes
  modulo `Modulus`, as `size_t` does.
* `RingBuffer.Drain` requires that no write is in progress, because both run
  under `swap_mutex_`; it does not require that no read is.
* In `PipelineTeardown`, `DisconnectNamedPipe` on an instance that still listens
  either fails and leaves it listening (what the throwaway client of `kill()`
  relies on) or cancels the wait: both are allowed. Wine and Windows may differ
  here, and the properties hold for either.
* In `RadioPath` a block is a `pump()` chunk; the pump may be interrupted by the
  callback between any two, but not by `apply_config`, because the source's mutex
  is held.
* In `WorkerIpc` the worker's other threads go on until `ExitProcess`: between the
  unlock at the end of the shutdown's loop and that call, a spawn that waited for `g_mu`
  registers and answers, and nobody reaps it.
* In `NowPlayingHud` a string slot holds the track (and, for the artist, whether a
  presenter is live) instead of characters; the fallback of an empty artist to the
  name of the playback state is left out: nothing known (0) is one text. The
  game goes back and forth between its objects as it likes, and their strings stand: as
  `set_target` forgets what it wrote, an object that is come back to is written once
  more, which pops the banner once.
* In `TextureUpload` a texture is an address with at most one owner; a reference held
  by a ComPtr keeps the address from being reused, a raw pointer does not. The game
  is assumed to upload a picture within the two seconds the hook waits. An upload whose
  fence fails after the copies were submitted may still change what the logos show.
* In `BridgeConfig` the start-up is one step, because no other thread of the bridge
  exists before it creates the control loop.
* A byte-mode pipe with one reader returns what `PeekNamedPipe` has seen, so a read
  of `SourcePump` is never short.
* Mutated forms of a definition stand before it, with its parameters; nothing uses
  them but `PROJECT.json`'s list of mutants, which replays each of them against the
  property that catches it.
* History variables (`fate`, `hushed`, `played`, `discarded`, `heard`, `silence`, `chosen`, `fresh`,
  `hush`, `overruled`, `away`, `held`, `fired`, `pads`, `raced`, `unwritten`, `answered`) are read by properties
  only, never by a guard of the code.

## 3. The runs

Ten runs must pass and two must find a violation. Distinct states of the passing
runs: `ring_quiet` 19 372, `teardown_settled` 59 440, `ipc_serve` 90 679, `hud`
610 156, `radio_audible` 29 234, `watchdog_still` 224 064, `pad_hotkeys` 1 061,
`race_stops` 15 104, `texture_steady` 117 200, `bring_up` 619 884; the two largest take
two to three minutes, the others less than one.

| run | question | result |
|---|---|---|
| `ring_quiet` | With drains kept out of reads: does the ring tear, repeat or overfill, and does it refine a FIFO? | `Occupancy NoTornRead NoReplay ImplementsQueue` hold |
| `teardown_settled` | Does a kill end, safely, and does an ordinary end lose nothing? | `NoUseAfterClose NoTailLost KillCompletes EndOfTrackSeen` hold |
| `teardown_early` | ... also when it comes before `ConnectNamedPipe`? | `KillCompletes` violated |
| `ipc_serve` | Two tracks spawned, killed and shut down in any order, threads serving to the last: is what was served reaped, what was answered before an exit too, and every spawn answered? | `ServedKillReaps ExitReapsAnswered SpawnAnswered DeliveredKillReaps` hold |
| `hud` | From the web service to the HUD: do text and artwork come together, once per object aimed at, and in the end? Does the newest artwork win, with an honest flag, where its ticket was not taken in a race? | `FlagCoversNewest NewestWins TitleWithItsArtwork NoRepop HudCatchesUp` hold |
| `slot_reader` | Does a HUD that reads a slot during an exchange see one string? | `ReaderInBounds` violated |
| `texture_steady` | Are only logos overwritten, all alike, and found? | `NoMixedArtwork OnlyLogosOverwritten LogoIsFound ArtworkIsDrawn` hold |
| `bring_up` | Start-up, downloads, crashes, edits, a refusing or dying worker, two threads on one pipe | `NeverHalfBinary FramesAligned LandedToolPlays` hold |
| `radio_audible` | Is the audibility edge true, does it end, does it unblock ffmpeg? | `NoPhantomSilence ResumeNoticed HeardNeverStuck` hold |
| `watchdog_still` | Does the DSP find and refind the channel without bothering the user? | `NeverYanked PausedLeftAlone FoundInTheEnd HealedInPlace` hold |
| `pad_hotkeys` | One command per hold, the right one, by the third tick | `OneCommandPerHold HoldFires ComboBeatsParts` hold |
| `race_stops` | Does the race rule resume only what it stopped, and that in the end, whatever flips, restarts, commands and world loads come between? | `ResumesWhatItStopped RaceStopEnds` hold |

Every module has a type invariant (`TypeOK`, with a prefix where two modules meet), which the runs do not repeat: it is part of the inductive
invariants of section 4, and for `MetadataSlots`, which has no proof, it is checked by
`MetadataSlots_heap.cfg`.

### Hypotheses of the passing runs

Four of the passing runs are about a restricted specification. The restriction
is not something the code enforces; it is the situation the code's own comments
assume, and for each there is a configuration of the unrestricted specification
that shows what happens without it.

| specification | what it assumes | why that is worth checking | what breaks without it |
|---|---|---|---|
| `RingBuffer!QuietSpec` | no drain while a read is in progress | "SPSC" (`include/fh6/ring_buffer.hpp:3`) | `RingBuffer_undrained.cfg`, `RingBuffer_overfill.cfg` |
| `PipelineTeardown!SettledSpec` | `kill()` begins when each proxy is past the test that precedes `ConnectNamedPipe`; the DLL reads what it is sent | the comment in `kill()` (`worker_main.cpp:99-103`) | `teardown_early` |
| `TextureUpload!SteadySpec` | the UI is not reloaded while an upload is under way; the GPU answers a readback | an upload takes a frame, a reload is rare | `TextureUpload_reload.cfg`, `TextureUpload_stall.cfg` |
| `ChannelWatchdog!StillSpec` | the game keeps the station's object and builds a channel within the cooldown; neither user nor world load interrupts a toggle | the ordinary case | `ChannelWatchdog_off.cfg`, `ChannelWatchdog_yank.cfg`, `ChannelWatchdog_moved.cfg` |

What a restriction excludes is nowhere claimed: the hazards that live in the excluded
windows name the configuration that reproduces them instead of a property.

Further hypotheses, which are part of a module and not of a run:

* `TextureUpload`, with every theorem about it: one thread submits command lists. The
  hook keeps the copies of the list and the popped pixels in locals and takes each lock
  for itself, so nothing in it enforces that. The device is not lost, and the game fills
  a texture within the two seconds.
* `NowPlayingHud`: the game leaves the strings of its objects alone
  (`MCNowPlayingHud_rewrite.cfg`), and its texture is seen before the first job or never.
* `SourcePump_bringup.cfg`: no ffmpeg is on the PATH; the safety theorems hold either way.

Four properties carry an exemption in themselves, because the code does not keep what
they would say without it: `FlagCoversNewest`, `NewestWins` and `TitleWithItsArtwork`
exempt an artwork whose ticket was taken while an older job stood between its check and
its act (`raced`), and hold again from the next ticket on; `NoRepop` exempts the first
write of a string after a change of object (`unwritten`).

### Further configurations

Kept beside the runs, because each answers a question a maintainer will ask.

| configuration | checks | result |
|---|---|---|
| `RingBuffer_undrained.cfg` | `DrainDiscards` ("Discard everything currently in flight", `ring_buffer.hpp:28`) | violated: the read that overlaps a drain stores the old position back |
| `RingBuffer_overfill.cfg` | `Occupancy` ("never partial", 0 if it does not fit, `ring_buffer.hpp:22`) | violated: after such a read, which takes the position back below what a writer already reused |
| `WorkerIpc_lostkill.cfg` | `KilledIsReaped` ("The worker reaps on its own; an unread reply is harmless", `worker_client.cpp:327-330`) | violated: a client that is gone before `ConnectNamedPipe` |
| `WorkerIpc_orphans.cfg` | `NoOrphans` ("a crash never leaves yt-dlp/ffmpeg orphaned", `worker_main.cpp:435-436`) | violated where job objects do not reap (Wine): a spawn under way at the exit is in no map, or enters it after the shutdown has emptied it |
| `ArtworkJobs_early_clear.cfg` | `FlagNeverEarly` ("only clear the processing flag if this thread is still the newest job", `texture_injector.cpp:37`) | violated: an update between the guard's load and its store |
| `ArtworkJobs_stale.cfg` | `NeverStale` ("don't lock the mutex and push pixels if stale", `texture_injector.cpp:292`) | violated: an update, and a faster job, between the check and the push |
| `MCNowPlayingHud_rewrite.cfg` | `HudRecovers`: `HudCatchesUp` once the game has stopped writing into its strings | violated: the injector compares with what it wrote, not with what is there (`metadata_injector.cpp:116`) |
| `MetadataSlots_heap.cfg` | `TypeOK`, `ReaderInBounds` for a slot on the heap, read size first | hold |
| `TextureUpload_reload.cfg` | `OnlyLogosOverwritten` with reloads at any time | violated: the copies of line 406 hold no reference |
| `TextureUpload_stall.cfg` | `OnlyLogosOverwritten` when a readback times out (`dll_main.cpp:148`) | violated: the command list stays closed, the next texture is judged by the previous one's pixels |
| `TextureUpload_missed.cfg` | `LogoGetsArtwork`: whatever fails, artwork that waits for a listed logo is drawn | violated: `pop_pending_pixels` consumes it before the upload fails |
| `TextureUpload_late.cfg` | `NotedLogoGetsArtwork`: ... also for a logo still in its two seconds | violated: it was popped for the logos listed before |
| `SourcePump_short.cfg` | `NeverShortBinary`: what stands under a tool's name is the whole tool | violated: no checksum is set (`deps.cpp:25-30`), and what exists is never fetched again |
| `SourcePump_pause.cfg` | `PauseSticks`: what the user paused stays paused | violated: `apply_config` plays whatever is not playing (`bridge.cpp:170`) |
| `SourcePump_edit.cfg` | `HandEditApplied` ("hand edits to config.toml are picked up live", `bridge.cpp:121-123`) | violated: nothing calls `ConfigStore::reload` |
| `RadioPath_stuck.cfg` | `NeverStuck` ("draining it here keeps pump() able to keep accepting fresh data ... indefinitely", `dsp_control_loop.cpp:119-125`) | violated: the edge that starts the drain arms at the first callback only |
| `RadioPath_consumers.cfg` | `SingleConsumer` (the ring is "SPSC", `ring_buffer.hpp:3`) | violated: the control loop drains during a callback |
| `ChannelWatchdog_off.cfg` | `ToggleComesBack` ("Toggle the in-game station off and back on", `game_state_probe.hpp:25-28`) | violated: the state is unreadable after the 300 ms, and no later gate tunes back |
| `ChannelWatchdog_yank.cfg` | `NeverYanked` ("never yank the user off a station they chose", `dsp_control_loop.cpp:159-160`) | violated: the user tunes away during the toggle's 300 ms |
| `ChannelWatchdog_moved.cfg` | `DspFollows` ("re-point at the live one", `dsp_control_loop.cpp:183-184`) | violated: the game builds the channel on an object that the candidate cache does not have |
| `RaceAndStation_flip.cfg` | `SilentForTheRace` ("45 s ignores spurious race-flag flips", `dsp_control_loop.cpp:293-294`) | violated: the falling edge is not debounced, so a spurious flip, or an unreadable state, resumes in the middle of a race |
| `RaceAndStation_world.cfg` | `QuickTuneIsReal` ("R10 = user is currently tuned to our station", `dsp_control_loop.cpp:317-320`) | violated: an unreadable state looks like tuning away |

### Bounds, and why they are enough

* Ring: capacity 3, chunks of up to 2, 7 frames accepted: the positions go round
  the buffer twice, every write/read pair can be adjacent to a wrap and to the
  full and the empty ring. The modulus 16 leaves room to see `Space` wrap.
  `MaxPos` is the model's only counter bound; the proofs hold for any value of it.
* Teardown: the two proxies a pipeline has. Bytes in a pipe are present or not,
  because a proxy parks on full, wakes on room, and asks nothing else.
* IPC: two tracks, one spawn and one kill each; the protocol has no other
  interaction between tracks than the single door and the map.
* Artwork and HUD: two jobs in `hud` (the picture of nothing known, then the
  album's), three in `ArtworkJobs_stale.cfg` and its like: an older, a newer, and one
  that overtakes both; the theorems are for any number. Two tracks, one change of what is on the air, two objects of the
  game, between which it changes without a limit, a refresh every second tick: every poll, write and selection may fail between
  any two of them.
* String slots: an inline capacity of 2 and texts of up to 6: in place, first
  allocation, a second one.
* Textures: two addresses, each made, freed and made again as a logo or not; a delay
  of one clock tick; two pictures.
* Bring-up: no counter but the bytes: a pipe of 9 and a ring of 12, so that every
  remainder modulo 4 meets every amount of room, with a chunk of 8 between them.
  Crashes, edits, failures and restarts are unlimited.
* Audio path: a ring of 3 blocks, a pipe of 2, watermarks 1 and 2, an audibility
  limit of 3 ticks: below, at and above every threshold.
* Watchdog: two objects, two handles (a rebuilt channel has another one), limits
  of 2 and 3 ticks, one spontaneous loss of the channel.
* Hotkeys: three commands on two buttons, so that a combo and its parts compete.
* Race: limits of 4, 3, 2, 2 and 2 ticks keep the code's order (45 s > 5 s > 1.5 s
  > 1 s > 250 ms, the last three of one size); clocks saturate past their limit.

### Fairness

* `RadioPath`, `ChannelWatchdog`, `RaceAndStation`: weak fairness of the tick:
  the control loop is a thread that sleeps a bounded time. Weak fairness of the
  callback while the game mixes: FMOD's mixer is a real-time thread.
* `ChannelWatchdog`: strong fairness of an install and of an acquisition that
  succeeds: FMOD's `addDSP` and the resolution of its system may fail, and are
  retried, but not for ever. `StillSpec` adds that the game builds a channel
  when it is tuned to the station, which is the watchdog's premise.
* `PipelineTeardown`, `WorkerIpc`: weak fairness per thread. Nothing is assumed of
  ffmpeg; the DLL is assumed to read in `SettledSpec` only.
* `ArtworkJobs`: weak fairness of every job (each of its waits has a limit) and of
  the second half of `update_artwork_url`.
* `NowPlayingHud`: the same, weak fairness of the control loop and of a poll that
  succeeds, strong fairness of a selection and of a write that succeed: they may
  fail any number of times, but not for ever. The strong fairness of the refresh also
  says that the radio is heard again and again at ticks that are due.
* `TextureUpload`: weak fairness of the render thread, of the clock and of the game's
  own upload, strong fairness of a successful attempt to hook (the code makes 500).
* `SourcePump`: weak fairness of the download thread and of the control loop's pump.
  Nothing is assumed of ffmpeg, the worker, the network or the user.
* None for the user, for world loads, or for failures.

Deadlock checking is off where the system really stops: a pipeline that was
killed, a worker that has exited, a bounded number of jobs, pictures or frames.

## 4. What is proved

Every safety property of a passing run, and every module's type invariant but that of
`MetadataSlots`, for every value of the constants: any capacity, any number of proxies,
tracks, jobs, textures, buttons and commands, any limit. The proofs use the constants'
assumptions that the modules name (`CapacityAssumption`, `HudAssumption`,
`BytesAssumption`, ...), which TLC evaluates on every run, and nothing else. Properties
of a restricted specification (section 3) are proved of that specification.

All proofs have one shape. The property is seldom inductive by itself; an invariant
that is (`...Inv`, checked by TLC first) is proved from `Init` and kept by every action,
one step each, and the property follows from it, or, for an action property, from it and
the step.

**Ring** (`RingBufferProofs`). Two inductive invariants.
`AnyInv` is inductive under `Spec`, drains at any time: types, plus that a write in
progress starts at `write_pos_` (nobody else moves it), and that a read in
progress asks only for what was published when it looked. From it
`RingTypes` and `ConsumerNeverAhead`: even a misplaced drain never makes the
consumer pass the producer.
`QuietInv` is inductive under `QuietSpec` and adds what makes the properties
inductive: the reader alone moves `read_pos_` while it reads, the space given to
a writer stays free until it commits, every unread frame and every frame
already copied by the writer sits in its slot (`WindowIntact`), and what was
played or drained is behind `read_pos_`. `NoTornRead` by itself is not
inductive: that the slot under the `memcpy` is right rests on `WindowIntact`,
which rests on `Occupancy` and on the lemma that two positions less than a
capacity apart have different slots (`SlotInjective`). From it
`OccupancyBounded`, `ReadsAreNeverTorn`, `PlayedOnceInOrder`.
`RingImplementsQueue` is the refinement: the window between the positions is the
queue, the store that ends a write, a read or a drain is the queue's step, and every
load and copied frame is a stutter. That the read's step hands out the queue's front
is `NoTornRead` again, and that a write's step finds room is `WriteFits`.

**Teardown** (`PipelineTeardownProofs`). `TeardownInv` under `Spec`, early kills
included: from its second pass on `kill()` has told every proxy to stop; past the
join every proxy has ended; handles are closed only after that; only a connected
instance holds bytes, and a proxy about to disconnect an unkilled pipeline has
flushed. From it `HandlesClosedAfterJoin`, and the action property
`TailReachesReader`.

**Protocol** (`WorkerIpcProofs`). `IpcInv` under `Spec`: a client that may kill has
had its spawn answered (`ClientOrder`); a track's processes belong to a spawn
being served, to the map, or to a kill being served, and to exactly the
last of these once the kill has taken it (`Owned`); and once the shutdown has let go
of `g_mu`, what is still running was not answered when the shutdown began (`Cleared`),
although the map may have filled again. From it `ServedKillLeavesNothing` and
`OrderlyExit`.

**Artwork and HUD** (`NowPlayingHudProofs`). `JobsInv`, of the jobs under every
interleaving: a job past its check (at `publish` or `clear`) is the newest, or the
newest ticket was taken in a race; what is pending is no newer than the newest ticket.
The point is that a race is over with the next ticket taken outside one, however many
overtaken jobs are still running: they meet `TryIfNewest` or the guard's check first. It
gives `FlagAlwaysCoversNewest` and `NewestAlwaysWins`. `HudStepIsJobStep` shows that a
step of the whole system is one of the jobs' or leaves them alone, so that the invariant
and both properties carry over to `HSpec` without a second proof (`HudFlagCoversNewest`,
`HudNewestWins`). `HudInv` adds what the text needs: between its halves
`push_metadata` holds the picture of the track it is about to write (`AtGate`), a
picture was asked for (`AskedFor`), and the injector's memory is what stands in the
object it aims at, and is empty only of strings it has not written since it aimed there
(`RemembersSlots`). From it `TitleComesWithItsArtwork` and `NeverRepops`.

**Textures** (`TextureUploadProofs`). Under `Spec`, with reloads at any moment, what is
in the list is a logo (`ListHoldsLogos`): the list's reference keeps the address from
being reused. Under `SteadySpec` `UploadInv` adds that the render thread's raw copies
are the list for as long as it uses them (`CopiesAreList`), which is exactly what a
reload breaks. That a failed upload may still have copied everything changes nothing:
all copies are made by one list, or none. From it `NeverMixedArtwork` and `OnlyLogosEverOverwritten`.

**Bring-up and pump** (`SourcePumpProofs`). `PumpInv`, under `Spec`: `pump()` asks the
pipe for no more than it saw. With it `FramesStayAligned` is arithmetic: `Want` is a
multiple of four, and so are the ring's and the buffer's sizes; a new pipe starts a new
stream. `ToolInv` says that what is about to be renamed was written to the end of
the body (`WrittenBeforeRename`), which a crash, that leaves a `.part` file behind, does
not disturb; it gives `ToolsWrittenToTheEnd`. A body the network cut short has an end,
too: nothing more can be proved, as `SourcePump_short.cfg` shows.

**Hotkeys** (`PlaybackProofs`, parts 1 and 2). Part 1 is about the operators of a
tick: the largest number of buttons among the bindings that match exists (`MaxBitsIs`),
and at most one command is triggered, a buffered one of that size (`WinnerIs`). `PadInv`, under `Spec`: a
command that was triggered leaves the wait spent until the release (`OnceSpent`), and
while the same buttons are down all that was pressed at the first tick is still
buffered (`Buffered`). From it `HoldTriggersOnce`, `PartsWait`, `HeldButtonsFire`.

**Races** (part 3). `RaceInv`, under `RaceSpec`, world loads and spurious flips
included: a source that plays is not hushed, and `paused_by_race_off_` is up only
between a stop for a race and its end, or after a command has overruled the stop. The
last part is what `ResumesWhatItStopped` lacks to be inductive. From it
`ResumesOnlyWhatItStopped`.

**Audibility** (part 4). `PathInv`, under `PathSpec`: what primes the edge is a call
that was really made, and as long as the loop has seen every call its count is no
longer than the silence. From it `SilenceIsReal`.

**Watchdog** (`ChannelWatchdogProofs`). The types under `Spec`, whatever the game does
(`WatchdogTypes`). `StillInv`, under `StillSpec`: past the search a target was found
(`FoundPlaces`), outside a toggle the station is the user's choice and inside one the
user's choice is ours (`Settled`), the target stays in the candidate cache
(`StreamCached`), and a channel the watchdog has not seen is younger than its look
(`OnlyYounger`). From it `UserNeverYanked` and `PausedIsLeftAlone`.

**Only model-checked.** All liveness properties (`KillCompletes`, `EndOfTrackSeen`,
`SpawnAnswered`, `DeliveredKillReaps`, `HudCatchesUp`, `LogoIsFound`, `ArtworkIsDrawn`,
`LandedToolPlays`, `ResumeNoticed`, `HeardNeverStuck`, `FoundInTheEnd`,
`HealedInPlace`, `RaceStopEnds`): liveness under fairness is outside what the prover can
do here. `MetadataSlots`, whose property is violated but for a slot on the heap. And
that the properties do fail without their hypotheses: the configurations of section 3
show that, by counterexample.

## 5. Disagreements between code and comments

1. **A kill that comes early does not end** (`worker_main.cpp:149`, run
   `teardown_early`). A proxy reads `stop`, then calls `ConnectNamedPipe`. A kill
   in between disconnects and self-connects first, and nobody is left to wake the
   proxy; the join waits for ever, under `g_mu` if it is the shutdown.
2. **A reader may combine two strings** (`metadata_injector.cpp:79`, run
   `slot_reader`). The comment rules out "a mismatched (ptr, size, cap) trio"; three
   separate stores, the capacity last, allow it for every string that moves from the
   slot to the heap.

The further configurations above reproduce the rest, each with the words it
contradicts where there are any: a kill that is lost (`WorkerIpc_lostkill.cfg`), a
source nobody has heard that is not drained (`RadioPath_stuck.cfg`), a toggle that
leaves the radio off (`ChannelWatchdog_off.cfg`), hand edits nobody reads
(`SourcePump_edit.cfg`), and so on.

## 6. Not modelled, and why

* Float processing (equalizer, gain ramp values, sample conversion), image
  conversion, parsing and memory probing: data without protocol.
* The equalizer's version handshake: `set_playback_options` and `pump` both hold the
  source's mutex, so nothing is left of the concurrency it is written for.
* `ConfigStore::patch`, `reload`, `save_config` and the unregistration of the source:
  nothing calls them at this commit.
* `request()`'s limit of 50 attempts, the requests `run` and `download` (they touch no
  pipeline).
* In the start-up: the game's process that is not the game, a PE image that cannot be
  parsed, failures of `CreatePipe` and of job objects.
* The dependency manager's progress atomics and `snapshot()`: no reader.
* Texture geometry, descriptor rewriting, barriers and fences in detail; HTTP,
  logging, signature scanner, PE image, subprocess wrappers: I/O and memory probing.
* Memory-model effects: the code's atomics are acquire/release or sequentially
  consistent and each modelled step is one of them; plain data is written
  before it is published.

## 7. Plan

The order follows what hurts most when it is wrong. Done: ring and its abstract
queue; teardown; protocol; artwork; audio path; watchdog; hotkeys; race rules; HUD;
string slots; textures; bring-up and byte-level pump; the proofs of section 4.

Next:

1. A composition of `WorkerIpc` with `PipelineTeardown`: the one-step destruction of the
   former, refined by the five passes of the latter, with the theorem that each of
   `IpcInv`'s clauses survives the refinement.
2. `RadioPath`'s ring against `PcmQueue`: that an amount is all the audio path needs of
   the ring, as a refinement instead of an argument.
3. A game that moves the station's object: what `StillInv` keeps then, and a weaker
   `NeverYanked` for it.
4. `ReaderInBounds` of a slot on the heap, for every capacity.
