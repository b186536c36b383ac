---------------------------- MODULE NowPlayingHud ----------------------------
(***************************************************************************)
(* From the station's web service to the game's HUD: the poll thread of     *)
(* src/src/sources/ooc_radio_source.cpp, push_metadata and the part of the  *)
(* tick that calls it in src/src/fmod/dsp_control_loop.cpp, the injector in *)
(* src/src/fmod/metadata_injector.cpp, and the artwork jobs (ArtworkJobs),  *)
(* which hold the text back until the picture is ready.  A track is a       *)
(* number, 0 while none is known; a string slot holds the number it shows.  *)
(* The one source the program has is registered and active.                 *)
(***************************************************************************)
EXTENDS ArtworkJobs

CONSTANTS
    ArtOf,        \* [tracks -> artwork of the track], ArtOf[0] for no picture
    Avatar,       \* the presenter's picture, or ArtOf[0]
    NoString,     \* the empty string: what an injector's cache starts with
    Placeholder,  \* what the game writes into a new object's slots
    MetaEvery,    \* kMetaEveryNTicks
    Body          \* the game's objects, each with the two strings

Track == DOMAIN ArtOf
ASSUME HudAssumption == /\ {0, 1} \subseteq Track
                        /\ MetaEvery \in Nat \ {0}
                        /\ Body # {}
                        /\ {NoString, Placeholder} \cap Track = {}
                        /\ {NoString, Placeholder} \cap [track : Track, live : BOOLEAN] = {}
                        /\ NoString \notin {ArtOf[t] : t \in Track} \cup {Avatar}

VARIABLES
    server,       \* what is on the air: [track, live]
    now, onAir,   \* now_ and live_ of the source
    hpc,          \* the control loop: at a "tick", or at the "gate" in push_metadata
    was,          \* texture_was_processing
    metaTick,     \* meta_tick
    url,          \* current_artwork_url, NoString before the first
    info,         \* the track push_metadata works on
    body,         \* the object whose channel is alive: the HUD shows its strings
    target,       \* body_ of the injector
    slots,        \* [Body -> its title and artist strings]
    last,         \* last_title_ and last_artist_
    unwritten     \* history: strings not yet written since the injector aimed here

pollVars == <<server, now, onAir>>
loopVars == <<hpc, was, metaTick, url, info>>
hudVars == <<body, target, slots, last, unwritten>>
hvars == <<vars, pollVars, loopVars, hudVars>>

Slot == {"title", "artist"}
NoStrings == [title |-> NoString, artist |-> NoString]
OnAir(t, l) == [track |-> t, live |-> l]
Nothing == OnAir(0, FALSE)

HInit ==
    /\ Init
    /\ server = OnAir(1, FALSE)
    /\ now = 0 /\ onAir = FALSE
    /\ hpc = "tick" /\ was = FALSE /\ metaTick = 0
    /\ url = NoString
    /\ info = Nothing
    /\ body = (CHOOSE b \in Body : TRUE) /\ target = body      \* acquire_target
    /\ slots = [b \in Body |-> [title |-> Placeholder, artist |-> Placeholder]]
    /\ last = NoStrings /\ unwritten = Slot

-----------------------------------------------------------------------------
(* The poll thread                                                         *)

\* One round of fetch_now_playing and, every few rounds, fetch_live.  A request
\* may fail, and its last good value stays.  Requests take any time, so rounds
\* are not counted, and the loop sees one answer without the other by a round
\* in which the other fails.
Poll(nowOk, liveOk) ==
    /\ now' = IF nowOk THEN server.track ELSE now
    /\ onAir' = IF liveOk THEN server.live ELSE onAir
    /\ UNCHANGED <<vars, loopVars, hudVars, server>>

-----------------------------------------------------------------------------
(* The control loop                                                        *)

\* A presenter's picture, if there is one, goes before the track's.
Artwork(i) == IF i.live /\ Avatar # ArtOf[0] THEN Avatar ELSE ArtOf[i.track]

\* Refreshes every MetaEvery ticks, and at once when the picture is ready.
Due == (was /\ ~flag) \/ metaTick + 1 >= MetaEvery

\* A tick that is not due, or that is and finds radio_audible_ down: the watchdog
\* (ChannelWatchdog) may have found anything.
TickOnly == /\ hpc = "tick"
            /\ was' = flag
            /\ metaTick' = IF Due THEN 0 ELSE metaTick + 1
            /\ UNCHANGED <<vars, pollVars, hpc, url, info, hudVars>>

\* set_target: another object, be it one that it has written to before, makes the
\* injector forget what it wrote.
AlwaysForgets(b) == target' = b /\ last' = NoStrings
Aim(b) == /\ target' = b
          /\ last' = IF target = b THEN last ELSE NoStrings

\* select_instance may find none.  Then the first half of push_metadata:
\* current_track, and update_artwork_url when its artwork is another one.
PushBegin(found) ==
    LET i == OnAir(now, onAir)
    IN /\ hpc = "tick" /\ Due                  \* and radio_audible_
       /\ was' = flag /\ metaTick' = 0 /\ hpc' = "gate"
       /\ IF found THEN Aim(body) ELSE UNCHANGED <<target, last>>
       /\ unwritten' = IF target' = target THEN unwritten ELSE Slot
       /\ info' = i
       /\ url' = Artwork(i)
       /\ IF url' # url THEN UpdateFlag ELSE UNCHANGED vars
       /\ UNCHANGED <<pollVars, body, slots>>

\* The other half, after update_artwork_url: the text waits while is_processing().
\* Each string is written when it is not as remembered; a write that fails (the
\* page, or a header that is no string's) is tried again at the next refresh.
Text(s) == IF s = "title" THEN info.track ELSE info
Stale == {s \in Slot : last[s] # Text(s)}

Withheld == /\ hpc = "gate" /\ upc = "idle" /\ flag
            /\ hpc' = "tick" /\ info' = Nothing
            /\ UNCHANGED <<vars, pollVars, was, metaTick, url, hudVars>>

RemembersFailed(written) == [s \in Slot |-> Text(s)]
Remembered(written) == [s \in Slot |-> IF s \in written THEN Text(s) ELSE last[s]]

UpdateUnheld(written) ==
    /\ hpc = "gate" /\ upc = "idle"
    /\ written \subseteq Stale
    /\ slots' = [slots EXCEPT ![target] =
                   [s \in Slot |-> IF s \in written THEN Text(s) ELSE @[s]]]
    /\ last' = Remembered(written)
    /\ unwritten' = unwritten \ written
    /\ hpc' = "tick" /\ info' = Nothing
    /\ UNCHANGED <<vars, pollVars, was, metaTick, url, body, target>>
UpdateHud(written) == ~flag /\ UpdateUnheld(written)

ControlStep == \/ TickOnly \/ Withheld
               \/ \E found \in BOOLEAN : PushBegin(found)
               \/ \E written \in SUBSET Stale : UpdateHud(written)

-----------------------------------------------------------------------------
(* The station and the game                                                *)

OnlyWorld == UNCHANGED <<vars, loopVars, now, onAir, target, last, unwritten>>

\* One change of what is on the air
NextTrack == /\ server = OnAir(1, FALSE)
             /\ \E t \in Track \ {0, 1} : server' = OnAir(t, FALSE)
             /\ OnlyWorld /\ UNCHANGED <<body, slots>>
GoLive == /\ server = OnAir(1, FALSE)
          /\ server' = OnAir(1, TRUE)
          /\ OnlyWorld /\ UNCHANGED <<body, slots>>
\* Another object carries the channel from now on: a new one, or an earlier one
\* whose strings still stand.
Reallocate == /\ \E b \in Body \ {body} : body' = b
              /\ OnlyWorld /\ UNCHANGED <<server, slots>>

\* The game writes its own strings into the object it has, or frees it and
\* gets the same address for the next.
Rewrite == /\ slots' = [slots EXCEPT ![body] = [title |-> Placeholder, artist |-> Placeholder]]
           /\ OnlyWorld /\ UNCHANGED <<server, body>>

Others == UNCHANGED <<pollVars, loopVars, hudVars>>
\* The render thread has seen the station's texture: before the first job, or never
TextureSeen == latest = 0 /\ SetTargetHeight /\ height' = "supported" /\ Others
HNext == \/ \E nowOk, liveOk \in BOOLEAN : Poll(nowOk, liveOk)
         \/ ControlStep
         \/ UpdateTicket /\ Others
         \/ (\E j \in Job : JobStep(j)) /\ Others
         \/ TextureSeen
         \/ NextTrack \/ GoLive \/ Reallocate

\* The threads go on, and what may fail (a request, a selection, a write) does
\* not fail every time; nor is the station silent at every tick that is due.
HFairness ==
    /\ WF_hvars(Poll(TRUE, TRUE))
    /\ WF_hvars(ControlStep)
    /\ SF_hvars(PushBegin(TRUE)) /\ SF_hvars(UpdateHud(Stale))
    /\ WF_hvars(UpdateTicket /\ Others)
    /\ \A j \in Job : WF_hvars(JobStep(j) /\ Others)
HSpec == HInit /\ [][HNext]_hvars /\ HFairness
RewriteSpec == HInit /\ [][HNext \/ Rewrite]_hvars /\ HFairness

-----------------------------------------------------------------------------
(* Properties                                                              *)

HTypeOK ==
    /\ TypeOK
    /\ server \in [track : Track, live : BOOLEAN] /\ info \in [track : Track, live : BOOLEAN]
    /\ now \in Track /\ onAir \in BOOLEAN
    /\ hpc \in {"tick", "gate"}
    /\ metaTick \in 0 .. MetaEvery - 1
    /\ was \in BOOLEAN
    /\ body \in Body /\ target \in Body /\ unwritten \subseteq Slot
    /\ slots \in [Body -> [title : Track \cup {Placeholder},
                           artist : [track : Track, live : BOOLEAN] \cup {Placeholder}]]

\* "the text and image will update onto the screen at the same time": a title is
\* written only when the job of this very track's artwork is over, and no other
\* artwork has been asked for since (unless its ticket was taken in a race: raced).
TitleWithItsArtwork ==
    [][slots' # slots => url = Artwork(info) /\ (raced \/ pc[latest] = "ended")]_hvars

\* "so the game doesn't re-pop its now-playing banner": through pauses, retries
\* and failures, a string that stands in the object is not written again, but for
\* the first time the injector writes it after it has changed to that object: of
\* an object it comes back to it does not know that the string still stands.
NoRepop ==
    [][\A s \in Slot :
         last'[s] # last[s] /\ last'[s] # NoString
             => s \in unwritten \/ slots[target][s] # last'[s]]_hvars

\* Why the two hold (proved in NowPlayingHudProofs).
\* What push_metadata works on between its halves.
AtGate == hpc = "gate" => url = Artwork(info)

\* A picture was asked for: its job has started, or its ticket is being taken.
AskedFor == url # NoString => latest > 0 \/ upc = "ticket"

\* The injector remembers what it has put into the object it aims at, and knows
\* nothing only of strings it has not written since.
RemembersSlots == \A s \in Slot :
    /\ last[s] # NoString => slots[target][s] = last[s]
    /\ last[s] = NoString => s \in unwritten

HudInv == JobsInv /\ HTypeOK /\ AtGate /\ AskedFor /\ RemembersSlots

\* What was on the air last is on the HUD in the end, in the object the game
\* reads, whatever requests, jobs and writes have failed, if the station is heard
\* again and again (HFairness) and the game comes to stay with an object.
Shown == slots[body] = [title |-> server.track, artist |-> server]
HudCatchesUp == <>[][body' = body]_hvars => <>[]Shown

\* The same with a game that stops writing into its object's strings, or using
\* its address again, at some point.
HudRecovers == (<>[][slots' # slots => hpc = "gate"]_hvars) => HudCatchesUp
=============================================================================
