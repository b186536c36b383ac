------------------------- MODULE TextureUploadProofs -------------------------
(***************************************************************************)
(* Proofs about the Direct3D hooks, for any set of textures, any delay and *)
(* any number of artworks.  Part 1 is about everything the code does but    *)
(* the stalled readback (Spec), part 2 about a UI that is not reloaded in   *)
(* the middle of an upload (SteadySpec).                                    *)
(***************************************************************************)
EXTENDS TextureUpload, TLAPS

(* Part 1: what gets into the list.                                        *)

ListInv == TypeOK /\ ListedAreLogos

LEMMA InitList == Init => UploadInv
<1> SUFFICES ASSUME Init
             PROVE  UploadInv
  OBVIOUS
<1>1. 0 \in 0 .. Delay /\ 0 \in 0 .. MaxImage /\ 0 \in 0 .. 0
  BY UploadAssumption
<1>2. TypeOK
  BY <1>1 DEF Init, TypeOK, Kind
<1> QED
  BY <1>2 DEF Init, UploadInv, ListedAreLogos, CopiesAreList, NoMixedArtwork

\* A texture the game makes gets an address nobody refers to, so never one that
\* is listed.
LEMMA CreateKeepsList == ASSUME ListInv, NEW t \in Tex, NEW k \in Kind, CreateTexture(t, k)
                         PROVE  ListInv'
<1>1. t \notin streamer
  BY DEF CreateTexture, Alive
<1>2. /\ kind' = [kind EXCEPT ![t] = k] /\ shows' = [shows EXCEPT ![t] = 0]
      /\ filled' = [filled EXCEPT ![t] = FALSE] /\ owned' = owned \cup {t}
      /\ UNCHANGED <<listVars, renderVars, hooks, image, hasNew>>
  BY DEF CreateTexture
<1>3. 0 \in 0 .. image
  BY UploadAssumption DEF ListInv, TypeOK
<1> QED
  BY <1>1, <1>2, <1>3 DEF ListInv, TypeOK, ListedAreLogos, listVars, renderVars

LEMMA ViewKeepsList == ASSUME ListInv, NEW t \in Tex, CreateView(t)
                       PROVE  ListInv'
<1>1. /\ unverified' \subseteq unverified \cup {t}
      /\ streamer' = streamer \/ streamer' = {}
      /\ age' = age \/ age' = [age EXCEPT ![t] = 0]
      /\ sinceView' = 0
      /\ UNCHANGED <<gameVars, renderVars, hooks, image, hasNew>>
  BY DEF CreateView
<1>2. 0 \in 0 .. Delay
  BY UploadAssumption
<1> QED
  BY <1>1, <1>2 DEF ListInv, TypeOK, ListedAreLogos, gameVars, renderVars

LEMMA ClockKeepsList == ASSUME ListInv, Clock
                        PROVE  ListInv'
<1>1. \A n \in 0 .. Delay : (n < Delay => n + 1 \in 0 .. Delay) /\ Delay \in 0 .. Delay
  BY UploadAssumption
<1>2. age' \in [Tex -> 0 .. Delay] /\ sinceView' \in 0 .. Delay
  BY <1>1 DEF Clock, ListInv, TypeOK
<1> QED
  BY <1>2 DEF Clock, ListInv, TypeOK, ListedAreLogos, gameVars, renderVars

\* Only what hashes to the logo is listed.
LEMMA RenderKeepsList == ASSUME ListInv, RenderStep
                         PROVE  ListInv'
<1> USE DEF ListInv, ListedAreLogos, OnlyRender
<1>1. CASE TakeReady
  BY <1>1 DEF TakeReady, TypeOK
<1>2. ASSUME NEW t \in Tex, Fingerprint(t)
      PROVE  ListInv'
  BY <1>2 DEF Fingerprint, Matches, TypeOK
<1>3. CASE FingerprintFails
  BY <1>3 DEF FingerprintFails, TypeOK
<1>4. CASE SnapshotList
  BY <1>4 DEF SnapshotList, TypeOK
<1>5. CASE PopPixels
  <2>1. image \in 0 .. image
    BY UploadAssumption DEF TypeOK
  <2>2. /\ rpc' \in {"idle", "upload"} /\ (popped' = image \/ popped' = popped)
        /\ (copies' = copies \/ copies' = {}) /\ hasNew' = FALSE
        /\ UNCHANGED <<kind, filled, owned, age, sinceView, hooks, image,
                       shows, unverified, streamer, ready, fate>>
    BY <1>5 DEF PopPixels
  <2>3. popped' \in 0 .. image' /\ rpc' \in {"idle", "read", "inject", "upload"}
    BY <2>1, <2>2 DEF TypeOK
  <2>4. copies' \subseteq Tex
    BY <2>2 DEF TypeOK
  <2> QED
    BY <2>2, <2>3, <2>4 DEF TypeOK
<1>6. CASE InjectAll
  BY <1>6, UploadAssumption DEF InjectAll, Overwrite, Finished, TypeOK
<1>7. CASE InjectFails
  BY <1>7, UploadAssumption DEF InjectFails, Overwrite, Finished, TypeOK
<1> QED
  BY <1>1, <1>2, <1>3, <1>4, <1>5, <1>6, <1>7 DEF RenderStep

LEMMA StepKeepsList == ListInv /\ [Next]_vars => ListInv'
<1> SUFFICES ASSUME ListInv, [Next]_vars
             PROVE  ListInv'
  OBVIOUS
<1>1. CASE BindHooks
  BY <1>1 DEF BindHooks, ListInv, TypeOK, ListedAreLogos, gameVars, listVars, renderVars
<1>2. ASSUME NEW t \in Tex, NEW k \in Kind, CreateTexture(t, k)
      PROVE  ListInv'
  BY <1>2, CreateKeepsList
<1>3. ASSUME NEW t \in Tex, FillTexture(t) \/ ReleaseTexture(t)
      PROVE  ListInv'
  BY <1>3 DEF FillTexture, ReleaseTexture, ListInv, TypeOK, ListedAreLogos, listVars, renderVars
<1>4. ASSUME NEW t \in Tex, CreateView(t)
      PROVE  ListInv'
  BY <1>4, ViewKeepsList
<1>5. CASE Clock
  BY <1>5, ClockKeepsList
<1>6. CASE RenderStep
  BY <1>6, RenderKeepsList
<1>7. CASE PublishImage
  <2>1. /\ image' = image + 1 /\ image' \in 0 .. MaxImage /\ hasNew' = TRUE
        /\ UNCHANGED <<gameVars, listVars, renderVars, hooks>>
    BY <1>7, UploadAssumption DEF PublishImage, ListInv, TypeOK
  <2>2. \A n \in 0 .. image : n \in 0 .. image'
    BY <2>1, UploadAssumption DEF ListInv, TypeOK
  <2>3. shows' \in [Tex -> 0 .. image'] /\ popped' \in 0 .. image'
    BY <2>1, <2>2 DEF ListInv, TypeOK, gameVars, renderVars
  <2> QED
    BY <2>1, <2>3 DEF ListInv, TypeOK, ListedAreLogos, gameVars, listVars, renderVars
<1>8. CASE UNCHANGED vars
  BY <1>8 DEF vars, ListInv, TypeOK, ListedAreLogos, gameVars, listVars, renderVars
<1> QED
  BY <1>1, <1>2, <1>3, <1>4, <1>5, <1>6, <1>7, <1>8 DEF Next

\* While the list holds a texture, nothing else can get its address: what is
\* listed is the station's logo, whatever the game frees and allocates
\* (dll_main.cpp, HookedExecuteCommandLists; the list's references).
THEOREM ListHoldsLogos == Spec => []ListInv
<1>1. Init => ListInv
  BY InitList DEF UploadInv, ListInv
<1> QED
  BY <1>1, StepKeepsList, PTL DEF Spec

-----------------------------------------------------------------------------
(* Part 2: uploads, when the UI is not reloaded in the middle of one.      *)

\* What a view of a texture does to the list: nothing, or empty it.
LEMMA ViewEmptiesOrKeeps == ASSUME NEW t \in Tex, CreateView(t)
                            PROVE  /\ streamer' = streamer \/ streamer' = {}
                                   /\ UNCHANGED <<gameVars, renderVars>>
  BY DEF CreateView

LEMMA RenderKeepsUpload == ASSUME UploadInv, RenderStep
                           PROVE  CopiesAreList' /\ NoMixedArtwork'
<1> USE DEF UploadInv, CopiesAreList, NoMixedArtwork, OnlyRender
<1>1. CASE TakeReady
  BY <1>1 DEF TakeReady
\* A texture is listed while it shows its own picture.
<1>2. ASSUME NEW t \in Tex, Fingerprint(t)
      PROVE  CopiesAreList' /\ NoMixedArtwork'
  <2>1. /\ rpc = "read" /\ UNCHANGED <<rpc, shows, copies>>
        /\ streamer' = streamer \/ (streamer' = streamer \cup {t} /\ shows[t] = 0)
    BY <1>2 DEF Fingerprint, Matches
  <2>2. 0 > 0 <=> FALSE
    OBVIOUS
  <2> QED
    BY <2>1, <2>2
<1>3. CASE FingerprintFails
  BY <1>3 DEF FingerprintFails
<1>4. CASE SnapshotList
  BY <1>4 DEF SnapshotList
<1>5. CASE PopPixels
  BY <1>5 DEF PopPixels
\* The copies are the whole list, and get one picture.
<1>6. CASE InjectAll \/ InjectFails
  <2>1. /\ rpc = "upload" /\ rpc' = "idle" /\ streamer' = streamer
        /\ Overwrite \/ shows' = shows
    BY <1>6 DEF InjectAll, InjectFails, Finished
  <2>2. copies = streamer /\ streamer \subseteq Tex
    BY <2>1 DEF TypeOK
  \* All of the list has the artwork that was popped, or nothing has changed.
  <2>3. CASE Overwrite
    <3>1. \A t \in streamer' : shows'[t] = popped
      BY <2>1, <2>2, <2>3 DEF Overwrite, Destinations
    <3> QED
      BY <2>1, <3>1
  <2> QED
    BY <2>1, <2>3
<1> QED
  BY <1>1, <1>2, <1>3, <1>4, <1>5, <1>6 DEF RenderStep

LEMMA StepKeepsUpload == UploadInv /\ [Next /\ Steady]_vars => UploadInv'
<1> SUFFICES ASSUME UploadInv, [Next /\ Steady]_vars
             PROVE  UploadInv'
  OBVIOUS
<1>0. TypeOK' /\ ListedAreLogos'
  BY StepKeepsList DEF UploadInv, ListInv
<1> SUFFICES CopiesAreList' /\ NoMixedArtwork'
  BY <1>0 DEF UploadInv
<1> USE DEF UploadInv, CopiesAreList, NoMixedArtwork
<1>1. CASE BindHooks \/ Clock \/ PublishImage \/ UNCHANGED vars
  BY <1>1 DEF BindHooks, Clock, PublishImage, vars, gameVars, listVars, renderVars
<1>2. ASSUME NEW t \in Tex, NEW k \in Kind, CreateTexture(t, k)
      PROVE  CopiesAreList' /\ NoMixedArtwork'
  <2>1. t \notin streamer /\ shows' = [shows EXCEPT ![t] = 0]
        /\ UNCHANGED <<streamer, copies, rpc>>
    BY <1>2 DEF CreateTexture, Alive, listVars, renderVars
  <2> QED
    BY <2>1 DEF TypeOK
<1>3. ASSUME NEW t \in Tex, FillTexture(t) \/ ReleaseTexture(t)
      PROVE  CopiesAreList' /\ NoMixedArtwork'
  BY <1>3 DEF FillTexture, ReleaseTexture, listVars, renderVars
<1>4. ASSUME NEW t \in Tex, CreateView(t), Steady
      PROVE  CopiesAreList' /\ NoMixedArtwork'
  <2>1. /\ streamer' = streamer \/ streamer' = {}
        /\ UNCHANGED <<shows, copies, rpc>>
    BY <1>4, ViewEmptiesOrKeeps DEF gameVars, renderVars
  <2>2. rpc \in {"inject", "upload"} => streamer' = streamer
    BY <1>4, <2>1 DEF Steady
  <2> QED
    BY <2>1, <2>2
<1>5. CASE RenderStep
  BY <1>5, RenderKeepsUpload
<1> QED
  BY <1>1, <1>2, <1>3, <1>4, <1>5 DEF Next, vars

\* UploadInv is an inductive invariant of uploads no reload interrupts.
THEOREM UploadInvariant == SteadySpec => []UploadInv
  BY InitList, StepKeepsUpload, PTL DEF SteadySpec

\* An upload reaches all the listed textures or none (dll_main.cpp: one command
\* list for the copy of the list).
THEOREM NeverMixedArtwork == SteadySpec => []NoMixedArtwork
<1>1. UploadInv => NoMixedArtwork
  BY DEF UploadInv
<1> QED
  BY <1>1, UploadInvariant, PTL

\* Nothing but the station's logo is overwritten: the pointers the render thread
\* copies to are those of the list, which keeps each of them alive.
THEOREM OnlyLogosEverOverwritten == SteadySpec => OnlyLogosOverwritten
<1>1. UploadInv /\ [Next /\ Steady]_vars
        => \A t \in Tex : shows'[t] > 0 /\ shows'[t] # shows[t] => kind[t] = "logo"
  <2> SUFFICES ASSUME UploadInv, [Next /\ Steady]_vars,
                      NEW t \in Tex, shows'[t] > 0, shows'[t] # shows[t]
               PROVE  kind[t] = "logo"
    OBVIOUS
  <2>1. CASE rpc = "upload" /\ Overwrite
    <3>1. t \in copies
      BY <2>1 DEF Overwrite, Destinations
    <3> QED
      BY <2>1, <3>1 DEF UploadInv, CopiesAreList, ListedAreLogos
  <2>2. ASSUME NEW u \in Tex, NEW k \in Kind, CreateTexture(u, k)
        PROVE  FALSE
    BY <2>2 DEF CreateTexture, UploadInv, TypeOK
  <2>3. CASE shows' = shows
    BY <2>3
  <2> QED
    BY <2>1, <2>2, <2>3
    DEF Next, vars, BindHooks, FillTexture, ReleaseTexture, CreateView, Clock, PublishImage,
        RenderStep, TakeReady, Fingerprint, FingerprintFails, SnapshotList, PopPixels,
        InjectAll, InjectFails, gameVars
<1> QED
  BY <1>1, UploadInvariant, PTL DEF SteadySpec, OnlyLogosOverwritten
=============================================================================
