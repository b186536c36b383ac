---------------------------- MODULE TextureUpload ----------------------------
(***************************************************************************)
(* src/src/proxy/dll_main.cpp: the two Direct3D hooks.  One notes the        *)
(* textures of the right size the game makes views of; the other, on the    *)
(* render thread, reads them back after two seconds, keeps those that hold   *)
(* the station's logo, and copies the newest artwork over them.  The two     *)
(* run on different threads and share two lists under a lock.  A texture is  *)
(* an address; the game may free it and get the address for another one.     *)
(*                                                                         *)
(* The game is taken to submit its command lists from one thread: nothing in *)
(* the hook keeps two of them from working at once.  Nor is the loss of the  *)
(* device modelled, after which nothing is shown any more.                   *)
(***************************************************************************)
EXTENDS Naturals

CONSTANTS
    Tex,          \* addresses of textures
    Delay,        \* two seconds, in ticks of the clock
    MaxImage      \* bound on the artworks published

ASSUME UploadAssumption == {Delay, MaxImage} \subseteq Nat \ {0}

VARIABLES
    kind,         \* [Tex -> "logo", or "other" for another picture of its size]
    filled,       \* [Tex -> has the game uploaded its picture]
    shows,        \* [Tex -> 0 for the game's picture, or the artwork over it]
    owned,        \* textures the game holds
    hooks,        \* hooks bound: "none", "view" or "both"
    unverified,   \* g_UnverifiedResources
    age,          \* [Tex -> time since discovered, up to Delay]
    streamer,     \* g_StreamerModeResources
    sinceView,    \* time since last_time, up to Delay
    rpc,          \* the render thread: "idle", "read", "inject", "upload"
    ready,        \* its ready_to_fingerprint
    copies,       \* its streamer_copy: pointers without a reference
    popped,       \* its new_pixels
    image, hasNew,\* pending_pixels_ and has_new_image_
    fate          \* [Tex -> what became of it: "noted", "listed", "missed" an upload,
                  \*  "no logo", or "gone" by a reload or a failed readback]

gameVars == <<kind, filled, shows, owned>>
listVars == <<unverified, age, streamer, sinceView>>
renderVars == <<rpc, ready, copies, popped>>
vars == <<gameVars, listVars, renderVars, hooks, image, hasNew, fate>>

\* A reference of the game or of the hooks keeps a texture alive.
OwnedOnly(t) == t \in owned
Alive(t) == t \in owned \cup unverified \cup streamer \cup ready

Init == /\ kind = [t \in Tex |-> "other"]
        /\ filled = [t \in Tex |-> FALSE]
        /\ shows = [t \in Tex |-> 0]
        /\ owned = {}
        /\ hooks = "none"
        /\ unverified = {} /\ streamer = {}
        /\ age = [t \in Tex |-> 0]
        /\ sinceView = 0
        /\ rpc = "idle" /\ ready = {} /\ copies = {} /\ popped = 0
        /\ image = 0 /\ hasNew = FALSE
        /\ fate = [t \in Tex |-> "none"]

-----------------------------------------------------------------------------
(* InitDX12HookThread: both hooks, or neither until the next attempt         *)

BindHooks == /\ \/ hooks = "none" /\ hooks' = "view"
                \/ hooks = "view" /\ hooks' \in {"both", "none"}
             /\ UNCHANGED <<gameVars, listVars, renderVars, image, hasNew, fate>>

-----------------------------------------------------------------------------
(* The game                                                                 *)

CreateTexture(t, k) ==
    /\ ~Alive(t)
    /\ kind' = [kind EXCEPT ![t] = k]
    /\ filled' = [filled EXCEPT ![t] = FALSE]
    /\ shows' = [shows EXCEPT ![t] = 0]
    /\ owned' = owned \cup {t}
    /\ fate' = [fate EXCEPT ![t] = "none"]
    /\ UNCHANGED <<listVars, renderVars, hooks, image, hasNew>>
FillTexture(t) ==
    /\ t \in owned /\ ~filled[t]
    /\ filled' = [filled EXCEPT ![t] = TRUE]
    /\ UNCHANGED <<kind, shows, owned, listVars, renderVars, hooks, image, hasNew, fate>>
ReleaseTexture(t) ==
    /\ t \in owned
    /\ owned' = owned \ {t}
    /\ UNCHANGED <<kind, filled, shows, listVars, renderVars, hooks, image, hasNew, fate>>

\* A picture follows its view within the two seconds the hook waits.
Clock ==
    /\ \A t \in unverified \cap owned : age[t] + 1 >= Delay => filled[t]
    /\ age' = [t \in Tex |-> IF t \in unverified /\ age[t] < Delay THEN age[t] + 1 ELSE age[t]]
    /\ sinceView' = IF sinceView < Delay THEN sinceView + 1 ELSE Delay
    /\ UNCHANGED <<gameVars, unverified, streamer, renderVars, hooks, image, hasNew, fate>>

-----------------------------------------------------------------------------
(* HookedCreateSRV                                                          *)

\* No view of a target texture for two seconds: the UI was reloaded, forget all.
Reloaded == sinceView >= Delay
Known == IF Reloaded THEN {} ELSE unverified \cup streamer

CreateView(t) ==
    /\ hooks # "none" /\ t \in owned
    /\ unverified' = (IF Reloaded THEN {} ELSE unverified) \cup ({t} \ Known)
    /\ streamer' = IF Reloaded THEN {} ELSE streamer
    /\ age' = IF t \in Known THEN age ELSE [age EXCEPT ![t] = 0]
    /\ sinceView' = 0
    /\ fate' = [u \in Tex |-> IF Reloaded /\ u \in unverified \cup streamer THEN "gone"
                              ELSE IF u = t /\ t \notin Known THEN "noted"
                              ELSE fate[u]]
    /\ UNCHANGED <<gameVars, renderVars, hooks, image, hasNew>>

-----------------------------------------------------------------------------
(* HookedExecuteCommandLists, on the direct queue                            *)

OnlyRender == UNCHANGED <<kind, filled, owned, age, sinceView, hooks, image>>

AnyAge(t) == t \in unverified
OldEnough(t) == t \in unverified /\ age[t] >= Delay
TakeReady ==
    /\ hooks = "both" /\ rpc = "idle" /\ rpc' = "read"
    /\ ready' = {t \in Tex : OldEnough(t)}
    /\ unverified' = unverified \ ready'
    /\ OnlyRender /\ UNCHANGED <<shows, streamer, copies, popped, hasNew, fate>>

\* The hash is one of the logo's: nothing has been copied over it.
Matches(t) == kind[t] = "logo" /\ filled[t] /\ shows[t] = 0

Fingerprint(t) ==
    /\ rpc = "read" /\ t \in ready
    /\ ready' = ready \ {t}
    /\ streamer' = IF Matches(t) THEN streamer \cup {t} ELSE streamer
    /\ fate' = [fate EXCEPT ![t] = IF Matches(t) THEN "listed" ELSE "no logo"]
    /\ OnlyRender /\ UNCHANGED <<shows, unverified, rpc, copies, popped, hasNew>>

\* A readback that cannot be made, for one texture or for all, is not repeated.
FingerprintFails ==
    /\ rpc = "read" /\ ready # {}
    /\ \E failed \in {ready} \cup {{t} : t \in ready} :
         /\ ready' = ready \ failed
         /\ fate' = [t \in Tex |-> IF t \in failed THEN "gone" ELSE fate[t]]
    /\ OnlyRender /\ UNCHANGED <<shows, unverified, streamer, rpc, copies, popped, hasNew>>

\* A wait that fails leaves the command list closed.  The next texture's commands
\* are not recorded, the list that is executed is t's again, and u gets t's hash.
ReadbackStalls(t, u) ==
    /\ rpc = "read" /\ {t, u} \subseteq ready /\ t # u
    /\ ready' = ready \ {t, u}
    /\ streamer' = IF Matches(t) THEN streamer \cup {u} ELSE streamer
    /\ fate' = [fate EXCEPT ![t] = "gone", ![u] = IF Matches(t) THEN "listed" ELSE "no logo"]
    /\ OnlyRender /\ UNCHANGED <<shows, unverified, rpc, copies, popped, hasNew>>

SnapshotList ==
    /\ rpc = "read" /\ ready = {}
    /\ copies' = streamer
    /\ rpc' = IF copies' = {} THEN "idle" ELSE "inject"
    /\ OnlyRender /\ UNCHANGED <<shows, unverified, streamer, ready, popped, hasNew, fate>>

PopPixels ==
    /\ rpc = "inject"
    /\ IF hasNew THEN rpc' = "upload" /\ popped' = image /\ UNCHANGED copies
                 ELSE rpc' = "idle" /\ copies' = {} /\ UNCHANGED popped
    /\ hasNew' = FALSE
    /\ OnlyRender /\ UNCHANGED <<shows, unverified, streamer, ready, fate>>

Finished == rpc' = "idle" /\ copies' = {} /\ popped' = 0

\* One command list copies to all of them; a dead pointer throws before it runs.
FirstOf(s) == {CHOOSE t \in s : TRUE}
Destinations(s) == s
Overwrite ==
    /\ \A t \in copies : Alive(t)
    /\ shows' = [t \in Tex |-> IF t \in Destinations(copies) THEN popped ELSE shows[t]]
InjectAll ==
    /\ rpc = "upload"
    /\ Overwrite
    /\ Finished
    /\ OnlyRender /\ UNCHANGED <<unverified, streamer, ready, hasNew, fate>>

\* What fails before the list is submitted copies nothing; a wait that fails
\* after it only stops waiting, and the copies may still be made.
InjectFails ==
    /\ rpc = "upload"
    /\ Overwrite \/ UNCHANGED shows
    /\ fate' = [t \in Tex |-> IF t \in copies THEN "missed" ELSE fate[t]]
    /\ Finished
    /\ OnlyRender /\ UNCHANGED <<unverified, streamer, ready, hasNew>>

RenderStep == \/ TakeReady \/ (\E t \in Tex : Fingerprint(t)) \/ FingerprintFails
              \/ SnapshotList \/ PopPixels \/ InjectAll \/ InjectFails

-----------------------------------------------------------------------------
\* An artwork job has published (ArtworkJobs.Publish).
PublishImage == /\ image < MaxImage /\ image' = image + 1
                /\ hasNew' = TRUE
                /\ fate' = [t \in Tex |-> IF fate[t] = "missed" THEN "listed" ELSE fate[t]]
                /\ UNCHANGED <<gameVars, listVars, renderVars, hooks>>

Kind == {"logo", "other"}
Next == \/ BindHooks
        \/ \E t \in Tex : \/ \E k \in Kind : CreateTexture(t, k)
                          \/ FillTexture(t) \/ ReleaseTexture(t) \/ CreateView(t)
        \/ Clock \/ RenderStep \/ PublishImage

\* The game renders and uploads its textures; one of the attempts to hook succeeds.
Fairness == /\ WF_vars(Clock) /\ WF_vars(RenderStep)
            /\ \A t \in Tex : WF_vars(FillTexture(t))
            /\ WF_vars(BindHooks) /\ SF_vars(BindHooks /\ hooks' = "both")
Spec == Init /\ [][Next]_vars /\ Fairness

\* The UI is not reloaded while an upload is under way.
Steady == rpc \in {"inject", "upload"} => streamer \subseteq streamer'
SteadySpec == Init /\ [][Next /\ Steady]_vars /\ Fairness
StallSpec == Init /\ [][(Next \/ \E t, u \in Tex : ReadbackStalls(t, u)) /\ Steady]_vars

-----------------------------------------------------------------------------
(* Properties                                                              *)

TypeOK == /\ {unverified, streamer, ready, copies, owned} \subseteq SUBSET Tex
          /\ kind \in [Tex -> Kind] /\ filled \in [Tex -> BOOLEAN]
          /\ age \in [Tex -> 0 .. Delay] /\ sinceView \in 0 .. Delay
          /\ image \in 0 .. MaxImage /\ hasNew \in BOOLEAN
          /\ shows \in [Tex -> 0 .. image] /\ popped \in 0 .. image
          /\ rpc \in {"idle", "read", "inject", "upload"}
          /\ hooks \in {"none", "view", "both"}

\* Nothing but the station's logo is ever overwritten, whatever the game frees
\* and allocates at an address between the fingerprint and the copy.
OnlyLogosOverwritten ==
    [][\A t \in Tex : shows'[t] > 0 /\ shows'[t] # shows[t] => kind[t] = "logo"]_vars

\* An upload reaches all the listed textures or none: two that are listed and
\* have artwork have the same.
NoMixedArtwork ==
    \A t, u \in streamer : shows[t] > 0 /\ shows[u] > 0 => shows[t] = shows[u]

\* Why the two hold of SteadySpec (proved in TextureUploadProofs): what is in the
\* list is the station's logo for as long as the list keeps it alive, and the
\* copy the render thread works on is the list.
ListedAreLogos == \A t \in streamer : kind[t] = "logo"
CopiesAreList == rpc \in {"inject", "upload"} => copies = streamer /\ copies # {}
UploadInv == TypeOK /\ ListedAreLogos /\ CopiesAreList /\ NoMixedArtwork

\* A logo that was noted ends in the list, unless its readback fails, the UI is
\* reloaded or the game lets it go: it is not read before it has its picture.
LogoIsFound ==
    \A t \in Tex : fate[t] = "noted" /\ kind[t] = "logo" /\ shows[t] = 0
                     ~> fate[t] \in {"listed", "gone"} \/ t \notin owned

\* Artwork that waits for a listed texture gets there, unless its upload fails
\* or the UI is reloaded.
ArtworkIsDrawn ==
    \A t \in Tex : hasNew /\ t \in streamer
                     ~> shows[t] = image \/ fate[t] = "missed" \/ t \notin streamer

\* The hopes that the code does not fulfil: a logo on the screen gets its artwork...
LogoGetsArtwork ==
    \A t \in Tex : hasNew /\ t \in streamer ~> shows[t] = image \/ t \notin owned
\* ... and so does one that was noted while the artwork waited.
NotedLogoGetsArtwork ==
    \A t \in Tex : hasNew /\ fate[t] = "noted" /\ kind[t] = "logo" /\ shows[t] = 0
                     ~> shows[t] = image \/ fate[t] \in {"gone", "missed"}
=============================================================================
