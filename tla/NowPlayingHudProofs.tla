------------------------- MODULE NowPlayingHudProofs -------------------------
(***************************************************************************)
(* Proofs about the artwork jobs and the HUD's text, for any number of     *)
(* jobs, tracks and objects of the game, and for every interleaving.  Part  *)
(* 1 is about ArtworkJobs alone; part 2 shows that the composed system is   *)
(* one more environment of it, so that part 1 carries over; part 3 is about *)
(* the text.                                                               *)
(***************************************************************************)
EXTENDS NowPlayingHud, TLAPS

(* Part 1: the artwork jobs.                                               *)

LEMMA InitJobs == Init => JobsInv
<1> SUFFICES ASSUME Init
             PROVE  JobsInv
  OBVIOUS
<1>1. pc \in [Job -> JobPC] /\ \A j \in Job : pc[j] = "none"
  BY DEF Init, JobPC
<1>2. 0 \in 0 .. MaxJob
  BY MaxJobAssumption
<1>3. TypeOK
  BY <1>1, <1>2 DEF Init, TypeOK
<1> QED
  BY <1>1, <1>3 DEF Init, JobsInv, FlagCoversNewest, FlagNeverEarly

\* A job's thread moves its own program counter only.  It gets to "publish" or
\* "clear" only with the newest ticket; what it does there it does with the ticket
\* that it has, newest or not.
LEMMA JobEffect ==
    ASSUME JobsInv, NEW j \in Job, JobStep(j)
    PROVE  /\ pc[j] \notin {"none", "ended"}
           /\ UNCHANGED <<upc, latest, height, raced>>
           /\ \E to \in JobPC \ {"none"} :
                /\ pc' = [pc EXCEPT ![j] = to]
                /\ to \in {"publish", "clear"} => latest = j
                /\ flag' # flag => pc[j] = "clear" /\ to = "ended"
           /\ pending' # pending => pending' = j /\ pc[j] = "publish"
           /\ flag' \in BOOLEAN /\ hasNew' \in BOOLEAN
<1>0. /\ flag \in BOOLEAN /\ hasNew \in BOOLEAN
  BY DEF JobsInv, TypeOK
<1>1. CASE Begin(j)
  BY <1>0, <1>1 DEF Begin, TryIfNewest, Goto, OnlyPC, JobPC
<1>2. CASE Download(j)
  BY <1>0, <1>2 DEF Download, Goto, OnlyPC, JobPC
<1>3. CASE FindSource(j)
  BY <1>0, <1>3 DEF FindSource, TryIfNewest, Goto, OnlyPC, JobPC
<1>4. CASE Load(j)
  BY <1>0, <1>4 DEF Load, TryIfNewest, Goto, OnlyPC, JobPC
<1>5. CASE AwaitHeight(j)
  BY <1>0, <1>5 DEF AwaitHeight, Goto, OnlyPC, JobPC
<1>6. CASE Convert(j)
  BY <1>0, <1>6 DEF Convert, Try, Goto, OnlyPC, JobPC
<1>7. CASE LastCheck(j)
  BY <1>0, <1>7 DEF LastCheck, TryIfNewest, Goto, OnlyPC, JobPC
<1>8. CASE Publish(j)
  BY <1>0, <1>8 DEF Publish, Goto, JobPC
<1>9. CASE GuardCheck(j)
  BY <1>0, <1>9 DEF GuardCheck, Goto, OnlyPC, JobPC
<1>10. CASE GuardClear(j)
  BY <1>0, <1>10 DEF GuardClear, Goto, JobPC
<1> QED
  BY <1>1, <1>2, <1>3, <1>4, <1>5, <1>6, <1>7, <1>8, <1>9, <1>10 DEF JobStep

LEMMA UpdateFlagKeepsJobs == ASSUME JobsInv, UpdateFlag
                             PROVE  JobsInv'
  BY DEF UpdateFlag, JobsInv, TypeOK, FlagCoversNewest, FlagNeverEarly

\* A ticket: whoever is between check and act makes it a raced one.
LEMMA UpdateTicketKeepsJobs == ASSUME JobsInv, UpdateTicket
                               PROVE  JobsInv'
<1> DEFINE j == latest + 1
<1>0. latest < MaxJob
  BY DEF UpdateTicket, JobsInv
<1>1. /\ upc = "ticket" /\ upc' = "idle" /\ latest' = j /\ flag' = flag
      /\ pc' = [pc EXCEPT ![j] = "born"]
      /\ raced' = (~flag \/ \E k \in Job : pc[k] \in {"publish", "clear"})
      /\ UNCHANGED <<height, pending, hasNew>>
  BY DEF UpdateTicket
<1>3. /\ latest \in 0 .. MaxJob /\ pending <= latest /\ pending \in Nat
      /\ pc \in [Job -> JobPC]
      /\ \A k \in Job : k > latest => pc[k] = "none"
  BY MaxJobAssumption DEF JobsInv, TypeOK
<1>4. j \in Job
  BY <1>0, <1>3, MaxJobAssumption DEF Job
<1>5. TypeOK'
  BY <1>1, <1>3, <1>4 DEF JobsInv, TypeOK, Job, JobPC
<1>6. \A k \in Job : k > latest' => pc'[k] = "none"
  BY <1>1, <1>3 DEF Job
<1>7. \A k \in Job : pc'[k] \in {"publish", "clear"} => raced'
  BY <1>1, <1>3, <1>4
<1>8. pending' <= latest'
  BY <1>1, <1>3
<1>9. FlagCoversNewest'
  BY <1>1 DEF FlagCoversNewest, FlagNeverEarly
<1> QED
  BY <1>1, <1>5, <1>6, <1>7, <1>8, <1>9 DEF JobsInv

LEMMA JobKeepsJobs == ASSUME JobsInv, NEW j \in Job, JobStep(j)
                      PROVE  JobsInv'
<1>1. PICK to \in JobPC \ {"none"} :
        /\ pc' = [pc EXCEPT ![j] = to]
        /\ to \in {"publish", "clear"} => latest = j
        /\ flag' # flag => pc[j] = "clear" /\ to = "ended"
  BY JobEffect
<1>2. /\ pc[j] \notin {"none", "ended"} /\ UNCHANGED <<upc, latest, height, raced>>
      /\ pending' # pending => pending' = j /\ pc[j] = "publish"
      /\ flag' \in BOOLEAN /\ hasNew' \in BOOLEAN
  BY JobEffect
<1>3. /\ pc \in [Job -> JobPC] /\ latest \in Nat /\ pending \in Nat
      /\ raced \in BOOLEAN /\ j <= latest
  BY <1>2, MaxJobAssumption DEF JobsInv, TypeOK, Job
<1>4. TypeOK'
  BY <1>1, <1>2, <1>3 DEF JobsInv, TypeOK, Job
<1>5. pending' <= latest'
  BY <1>2, <1>3 DEF JobsInv
<1>6. \A k \in Job : k > latest' => pc'[k] = "none"
  BY <1>1, <1>2, <1>3 DEF JobsInv
<1>7. \A k \in Job : pc'[k] \in {"publish", "clear"} => k = latest' \/ raced'
  BY <1>1, <1>2, <1>3 DEF JobsInv
<1>8. FlagCoversNewest'
  <2>1. latest > 0 => latest \in Job
    BY DEF JobsInv, TypeOK, Job
  <2>2. raced \/ (upc = "idle" /\ latest > 0 => flag \/ pc[latest] = "ended")
    BY DEF JobsInv, FlagCoversNewest, FlagNeverEarly
  <2>3. CASE flag' = flag
    <3>1. pc[latest] = "ended" /\ latest > 0 => pc'[latest] = "ended"
      BY <1>1, <1>2, <1>3, <2>1
    <3> QED
      BY <1>2, <2>2, <2>3, <3>1 DEF FlagCoversNewest, FlagNeverEarly
  <2>4. CASE flag' # flag
    <3>1. j = latest \/ raced
      BY <1>1, <2>4 DEF JobsInv
    <3>2. j = latest => pc'[latest] = "ended"
      BY <1>1, <1>3, <2>4
    <3> QED
      BY <1>2, <3>1, <3>2 DEF FlagCoversNewest, FlagNeverEarly
  <2> QED
    BY <2>3, <2>4
<1>9. upc' = "ticket" => latest' < MaxJob
  BY <1>2 DEF JobsInv
<1> QED
  BY <1>4, <1>5, <1>6, <1>7, <1>8, <1>9 DEF JobsInv

LEMMA StepKeepsJobs == JobsInv /\ [Next]_vars => JobsInv'
<1> SUFFICES ASSUME JobsInv, [Next]_vars
             PROVE  JobsInv'
  OBVIOUS
<1>1. CASE UpdateFlag
  BY <1>1, UpdateFlagKeepsJobs
<1>2. CASE UpdateTicket
  BY <1>2, UpdateTicketKeepsJobs
<1>3. ASSUME NEW j \in Job, JobStep(j)
      PROVE  JobsInv'
  BY <1>3, JobKeepsJobs
<1>4. CASE SetTargetHeight
  BY <1>4 DEF SetTargetHeight, JobsInv, TypeOK, FlagCoversNewest, FlagNeverEarly
<1>5. CASE PopPendingPixels
  BY <1>5 DEF PopPendingPixels, JobsInv, TypeOK, FlagCoversNewest, FlagNeverEarly
<1>6. CASE UNCHANGED vars
  BY <1>6 DEF vars, JobsInv, TypeOK, FlagCoversNewest, FlagNeverEarly
<1> QED
  BY <1>1, <1>2, <1>3, <1>4, <1>5, <1>6 DEF Next

\* Pixels give way to older ones only in a race for the newest ticket.
LEMMA StepNewestWins == JobsInv /\ [Next]_vars => (pending' < pending => raced)
<1> SUFFICES ASSUME JobsInv, [Next]_vars, pending' < pending
             PROVE  raced
  OBVIOUS
<1>1. pending \in Nat /\ latest \in Nat /\ pending <= latest
  BY MaxJobAssumption DEF JobsInv, TypeOK
<1>2. ASSUME NEW j \in Job, JobStep(j)
      PROVE  raced
  <2>1. pending' # pending => pending' = j /\ pc[j] = "publish"
    BY <1>2, JobEffect
  <2>2. pending' # pending
    BY <1>1
  <2>3. j = latest \/ raced
    BY <2>1, <2>2 DEF JobsInv
  <2> QED
    BY <1>1, <2>1, <2>2, <2>3
<1>3. CASE UpdateFlag \/ UpdateTicket \/ SetTargetHeight \/ PopPendingPixels \/ UNCHANGED vars
  BY <1>1, <1>3 DEF UpdateFlag, UpdateTicket, SetTargetHeight, PopPendingPixels, vars
<1> QED
  BY <1>2, <1>3 DEF Next

\* JobsInv is an inductive invariant of the jobs.
THEOREM JobsInvariant == Spec => []JobsInv
  BY InitJobs, StepKeepsJobs, PTL DEF Spec

\* While the job with the newest ticket runs, is_processing() says so, unless the
\* ticket was taken while an older job stood between its check and its act
\* (texture_injector.cpp:30-45, 183-194): the text of a new track waits for its
\* picture, whatever the jobs that were overtaken before do later.
THEOREM FlagAlwaysCoversNewest == Spec => []FlagCoversNewest
<1>1. JobsInv => FlagCoversNewest
  BY DEF JobsInv
<1> QED
  BY <1>1, JobsInvariant, PTL

\* The picture of an older job replaces that of a newer one only when the newest
\* ticket was taken between an older job's check and its act
\* (texture_injector.cpp:292-320).
THEOREM NewestAlwaysWins == Spec => NewestWins
  BY JobsInvariant, StepNewestWins, PTL DEF Spec, NewestWins

-----------------------------------------------------------------------------
(* Part 2: the control loop and the HUD drive the jobs as ArtworkJobs says. *)

\* Every step of the composed system is a step of ArtworkJobs, or leaves it alone.
LEMMA HudStepIsJobStep == [HNext]_hvars => [Next]_vars
<1> SUFFICES ASSUME [HNext]_hvars
             PROVE  [Next]_vars
  OBVIOUS
<1>1. ASSUME NEW nowOk \in BOOLEAN, NEW liveOk \in BOOLEAN, Poll(nowOk, liveOk)
      PROVE  UNCHANGED vars
  BY <1>1 DEF Poll
<1>2. CASE TickOnly \/ Withheld
  BY <1>2 DEF TickOnly, Withheld
<1>3. ASSUME NEW found \in BOOLEAN, PushBegin(found)
      PROVE  UpdateFlag \/ UNCHANGED vars
  BY <1>3 DEF PushBegin
<1>4. ASSUME NEW written \in SUBSET Stale, UpdateHud(written)
      PROVE  UNCHANGED vars
  BY <1>4 DEF UpdateHud, UpdateUnheld
<1>5. ASSUME TextureSeen
      PROVE  SetTargetHeight
  BY <1>5 DEF TextureSeen
<1>6. CASE NextTrack \/ GoLive \/ Reallocate
  BY <1>6 DEF NextTrack, GoLive, Reallocate, OnlyWorld
<1>7. CASE UNCHANGED hvars
  BY <1>7 DEF hvars
<1> QED
  BY <1>1, <1>2, <1>3, <1>4, <1>5, <1>6, <1>7 DEF HNext, ControlStep, Next

\* So the jobs keep their invariant under the control loop's pushes.
THEOREM HudJobsInvariant == HSpec => []JobsInv
<1>1. HInit => JobsInv
  BY InitJobs DEF HInit
<1> QED
  BY <1>1, HudStepIsJobStep, StepKeepsJobs, PTL DEF HSpec

\* In the composed system, too, the text of a new track waits for its picture.
THEOREM HudFlagCoversNewest == HSpec => []FlagCoversNewest
<1>1. JobsInv => FlagCoversNewest
  BY DEF JobsInv
<1> QED
  BY <1>1, HudJobsInvariant, PTL

\* ... and an older picture never replaces a newer one.
THEOREM HudNewestWins == HSpec => NewestWins
  BY HudJobsInvariant, HudStepIsJobStep, StepNewestWins, PTL DEF HSpec, NewestWins

-----------------------------------------------------------------------------
(* Part 3: the text on the HUD.                                            *)

\* A track's strings are neither empty nor the game's own, and its picture has
\* a name.
LEMMA TextIsNew == ASSUME HTypeOK, NEW s \in Slot
                   PROVE  Text(s) # NoString /\ Text(s) # Placeholder
  BY HudAssumption DEF HTypeOK, Slot, Text

LEMMA ArtworkIsNamed == ASSUME NEW i \in [track : Track, live : BOOLEAN]
                        PROVE  Artwork(i) # NoString
  BY HudAssumption DEF Artwork

LEMMA InitHud == HInit => HudInv
<1> SUFFICES ASSUME HInit
             PROVE  HudInv
  OBVIOUS
<1>1. JobsInv
  BY InitJobs DEF HInit
<1>2. body \in Body /\ target = body /\ MetaEvery - 1 \in Nat
  BY HudAssumption DEF HInit
<1>3. HTypeOK
  <2>1. server \in [track : Track, live : BOOLEAN] /\ info \in [track : Track, live : BOOLEAN]
    <3>1. 0 \in Track /\ 1 \in Track
      BY HudAssumption
    <3> QED
      BY <3>1 DEF HInit, OnAir, Nothing
  <2>2. slots \in [Body -> [title : Track \cup {Placeholder},
                            artist : [track : Track, live : BOOLEAN] \cup {Placeholder}]]
    BY DEF HInit
  <2>3. now \in Track /\ metaTick \in 0 .. MetaEvery - 1
    BY <1>2, HudAssumption DEF HInit
  <2> QED
    BY <1>1, <1>2, <2>1, <2>2, <2>3 DEF HInit, HTypeOK, JobsInv
<1>4. RemembersSlots
  BY DEF HInit, RemembersSlots, Slot, NoStrings
<1>5. AtGate /\ AskedFor
  BY DEF HInit, AtGate, AskedFor
<1> QED
  BY <1>1, <1>3, <1>4, <1>5 DEF HudInv

\* What the injector's memory and the slots say holds as long as neither they nor
\* the objects change.
LEMMA MemoryKept == ASSUME RemembersSlots, UNCHANGED hudVars
                    PROVE  RemembersSlots'
  BY DEF hudVars, RemembersSlots, Slot

\* A step of the jobs or of the game's texture leaves what is asked for.
LEMMA AskedForKept ==
    ASSUME JobsInv, AskedFor, UNCHANGED url,
           \/ UpdateTicket \/ SetTargetHeight \/ UNCHANGED vars
           \/ \E j \in Job : JobStep(j)
    PROVE  AskedFor'
<1>1. latest \in Nat
  BY MaxJobAssumption DEF JobsInv, TypeOK
<1>2. ASSUME NEW j \in Job, JobStep(j)
      PROVE  UNCHANGED <<upc, latest>>
  BY <1>2, JobEffect
<1>3. CASE UpdateTicket
  BY <1>1, <1>3 DEF UpdateTicket, AskedFor
<1>4. CASE SetTargetHeight \/ UNCHANGED vars
  BY <1>4 DEF SetTargetHeight, vars, AskedFor
<1> QED
  BY <1>2, <1>3, <1>4 DEF AskedFor

\* The first half of push_metadata.
LEMMA PushKeepsHud == ASSUME HudInv, JobsInv', NEW found \in BOOLEAN, PushBegin(found)
                      PROVE  HudInv'
<1>1. /\ hpc' = "gate" /\ was' = flag /\ metaTick' = 0
      /\ info' = OnAir(now, onAir) /\ url' = Artwork(info')
      /\ IF url' # url THEN UpdateFlag ELSE UNCHANGED vars
      /\ UNCHANGED <<pollVars, body, slots>>
  BY DEF PushBegin
<1>2. JobsInv /\ HTypeOK /\ RemembersSlots
  BY DEF HudInv
<1>3. HTypeOK'
  <2>1. info' \in [track : Track, live : BOOLEAN]
    BY <1>1, <1>2 DEF HTypeOK, OnAir
  <2>2. 0 \in 0 .. MetaEvery - 1
    BY HudAssumption
  <2>3. target' \in Body
    BY <1>2 DEF PushBegin, Aim, HTypeOK
  <2>4. unwritten' \subseteq Slot
    BY <1>2 DEF PushBegin, HTypeOK
  <2> QED
    BY <1>1, <1>2, <2>1, <2>2, <2>3, <2>4 DEF HTypeOK, JobsInv, TypeOK, pollVars
<1>4. AskedFor'
  <2>1. CASE url' # url
    BY <1>1, <2>1 DEF UpdateFlag, AskedFor
  <2>2. CASE url' = url
    BY <1>1, <2>2 DEF vars, HudInv, AskedFor
  <2> QED
    BY <2>1, <2>2
<1>5. AtGate'
  BY <1>1 DEF AtGate, Artwork
<1>6. RemembersSlots'
  <2>1. CASE UNCHANGED <<target, last>>
    BY <1>1, <1>2, <2>1 DEF PushBegin, RemembersSlots, Slot
  <2>2. CASE found /\ target = body
    BY <1>1, <1>2, <2>2 DEF PushBegin, Aim, RemembersSlots, Slot
  <2>3. CASE found /\ target # body
    BY <2>3 DEF PushBegin, Aim, RemembersSlots, NoStrings, Slot
  <2> QED
    BY <2>1, <2>2, <2>3 DEF PushBegin
<1> QED
  BY <1>3, <1>4, <1>5, <1>6 DEF HudInv

\* The other half, which writes the strings that are not as remembered.
LEMMA WriteKeepsHud ==
    ASSUME HudInv, JobsInv', NEW written \in SUBSET Stale, UpdateHud(written)
    PROVE  HudInv'
<1>1. /\ slots' = [slots EXCEPT ![target] =
                     [s \in Slot |-> IF s \in written THEN Text(s) ELSE @[s]]]
      /\ last' = [s \in Slot |-> IF s \in written THEN Text(s) ELSE last[s]]
      /\ unwritten' = unwritten \ written
      /\ hpc' = "tick" /\ info' = Nothing
      /\ UNCHANGED <<vars, pollVars, was, metaTick, url, body, target>>
  BY DEF UpdateHud, UpdateUnheld, Remembered
<1>2. JobsInv /\ HTypeOK /\ RemembersSlots /\ AskedFor
  BY DEF HudInv
<1>3. /\ slots'[target] = [s \in Slot |-> IF s \in written THEN Text(s) ELSE slots[target][s]]
      /\ \A b \in Body : b # target => slots'[b] = slots[b]
      /\ target \in Body
  BY <1>1, <1>2 DEF HTypeOK
<1>4. HTypeOK'
  <2>1. slots'[target] \in [title : Track \cup {Placeholder},
                            artist : [track : Track, live : BOOLEAN] \cup {Placeholder}]
    <3>1. info \in [track : Track, live : BOOLEAN] /\ info.track \in Track
      BY <1>2 DEF HTypeOK
    <3>2. slots[target] \in [title : Track \cup {Placeholder},
                             artist : [track : Track, live : BOOLEAN] \cup {Placeholder}]
      BY <1>2, <1>3 DEF HTypeOK
    <3>3. slots'[target] = [title |-> IF "title" \in written THEN info.track
                                      ELSE slots[target].title,
                            artist |-> IF "artist" \in written THEN info
                                       ELSE slots[target].artist]
      BY <1>3 DEF Slot, Text
    <3> QED
      BY <3>1, <3>2, <3>3
  <2>2. slots' \in [Body -> [title : Track \cup {Placeholder},
                             artist : [track : Track, live : BOOLEAN] \cup {Placeholder}]]
    BY <1>1, <1>2, <1>3, <2>1 DEF HTypeOK
  <2>3. info' \in [track : Track, live : BOOLEAN]
    BY <1>1, HudAssumption DEF Nothing, OnAir
  <2> QED
    BY <1>1, <1>2, <2>2, <2>3 DEF HTypeOK, JobsInv, pollVars, vars
<1>5. AtGate' /\ AskedFor'
  BY <1>1, <1>2 DEF AtGate, AskedFor, vars
<1>6. RemembersSlots'
  <2>1. ASSUME NEW s \in Slot
        PROVE  /\ last'[s] # NoString => slots'[target'][s] = last'[s]
               /\ last'[s] = NoString => s \in unwritten'
    <3>1. CASE s \in written
      <4>1. slots'[target][s] = Text(s) /\ last'[s] = Text(s)
        BY <1>1, <1>3, <3>1
      <4>2. Text(s) # NoString
        BY <1>2, TextIsNew
      <4> QED
        BY <1>1, <4>1, <4>2
    <3>2. CASE s \notin written
      BY <1>1, <1>2, <1>3, <3>2 DEF RemembersSlots
    <3> QED
      BY <3>1, <3>2
  <2> QED
    BY <2>1 DEF RemembersSlots
<1> QED
  BY <1>4, <1>5, <1>6 DEF HudInv

LEMMA StepKeepsHud == HudInv /\ [HNext]_hvars => HudInv'
<1> SUFFICES ASSUME HudInv, [HNext]_hvars
             PROVE  HudInv'
  OBVIOUS
<1>0. JobsInv /\ JobsInv'
  BY HudStepIsJobStep, StepKeepsJobs DEF HudInv
<1> USE DEF HudInv
<1>1. ASSUME NEW nowOk \in BOOLEAN, NEW liveOk \in BOOLEAN, Poll(nowOk, liveOk)
      PROVE  HudInv'
  <2>1. HTypeOK'
    BY <1>0, <1>1 DEF Poll, HTypeOK, JobsInv, loopVars, hudVars
  <2>2. RemembersSlots'
    BY <1>1, MemoryKept DEF Poll
  <2> QED
    BY <1>0, <1>1, <2>1, <2>2 DEF Poll, loopVars, vars, AtGate, AskedFor
<1>2. CASE TickOnly \/ Withheld
  <2>1. HTypeOK'
    <3>1. metaTick' \in 0 .. MetaEvery - 1
      BY <1>2, HudAssumption DEF TickOnly, Withheld, Due, HTypeOK
    <3>2. info' \in [track : Track, live : BOOLEAN]
      <4>1. Nothing \in [track : Track, live : BOOLEAN]
        BY HudAssumption DEF Nothing, OnAir
      <4> QED
        BY <1>2, <4>1 DEF TickOnly, Withheld, HTypeOK
    <3>3. was' \in BOOLEAN
      BY <1>0, <1>2 DEF TickOnly, Withheld, HTypeOK, JobsInv, TypeOK
    <3> QED
      BY <1>0, <1>2, <3>1, <3>2, <3>3
      DEF TickOnly, Withheld, HTypeOK, JobsInv, pollVars, hudVars
  <2>2. RemembersSlots'
    BY <1>2, MemoryKept DEF TickOnly, Withheld
  <2> QED
    BY <1>0, <1>2, <2>1, <2>2 DEF TickOnly, Withheld, vars, AtGate, AskedFor
<1>3. ASSUME NEW found \in BOOLEAN, PushBegin(found)
      PROVE  HudInv'
  BY <1>0, <1>3, PushKeepsHud
<1>4. ASSUME NEW written \in SUBSET Stale, UpdateHud(written)
      PROVE  HudInv'
  BY <1>0, <1>4, WriteKeepsHud
<1>5. ASSUME \/ UpdateTicket /\ Others
             \/ (\E j \in Job : JobStep(j)) /\ Others
             \/ TextureSeen
             \/ UNCHANGED hvars
      PROVE  HudInv'
  <2>1. UNCHANGED <<pollVars, loopVars, hudVars>>
    BY <1>5 DEF Others, TextureSeen, hvars
  <2>2. HTypeOK'
    BY <1>0, <2>1 DEF HTypeOK, JobsInv, pollVars, loopVars, hudVars
  <2>3. RemembersSlots'
    BY <2>1, MemoryKept
  <2>4. AtGate'
    BY <2>1 DEF AtGate, loopVars, Artwork
  <2>5. AskedFor'
    BY <1>0, <1>5, <2>1, AskedForKept DEF TextureSeen, loopVars, hvars
  <2> QED
    BY <1>0, <2>2, <2>3, <2>4, <2>5
<1>6. CASE NextTrack \/ GoLive \/ Reallocate
  <2>0. \A t \in Track, l \in BOOLEAN : OnAir(t, l) \in [track : Track, live : BOOLEAN]
    BY DEF OnAir
  <2>1. /\ UNCHANGED <<vars, loopVars, now, onAir, target, last, unwritten, slots>>
        /\ server' \in [track : Track, live : BOOLEAN]
        /\ body' \in Body
    BY <1>0, <1>6, <2>0, HudAssumption
    DEF NextTrack, GoLive, Reallocate, OnlyWorld, HTypeOK
  <2>2. HTypeOK'
    BY <1>0, <2>1 DEF HTypeOK, JobsInv, loopVars
  <2>3. RemembersSlots'
    BY <2>1 DEF RemembersSlots, Slot
  <2>4. AtGate' /\ AskedFor'
    BY <2>1 DEF AtGate, AskedFor, loopVars, vars, Artwork
  <2> QED
    BY <1>0, <2>2, <2>3, <2>4
<1> QED
  BY <1>1, <1>2, <1>3, <1>4, <1>5, <1>6 DEF HNext, ControlStep

\* HudInv is an inductive invariant of the composed system.
THEOREM HudInvariant == HSpec => []HudInv
  BY InitHud, StepKeepsHud, PTL DEF HSpec

\* Slots change in one place: where a string that is not as remembered is written.
LEMMA OnlyWritesChangeSlots ==
    ASSUME [HNext]_hvars, slots' # slots
    PROVE  \E written \in SUBSET Stale : UpdateHud(written)
  BY DEF HNext, ControlStep, hvars, hudVars, Poll, TickOnly, Withheld, PushBegin, Others,
         TextureSeen, NextTrack, GoLive, Reallocate

\* A title is shown with its own picture, whose job is over, unless that job's
\* ticket was taken in a race: push_metadata (dsp_control_loop.cpp:656-699) holds
\* it back while is_processing(), and the picture the jobs work on is that of the
\* track it writes.
THEOREM TitleComesWithItsArtwork == HSpec => TitleWithItsArtwork
<1>1. HudInv /\ [HNext]_hvars
        => (slots' # slots => url = Artwork(info) /\ (raced \/ pc[latest] = "ended"))
  <2> SUFFICES ASSUME HudInv, [HNext]_hvars, slots' # slots
               PROVE  url = Artwork(info) /\ (raced \/ pc[latest] = "ended")
    OBVIOUS
  <2>1. PICK written \in SUBSET Stale : UpdateHud(written)
    BY OnlyWritesChangeSlots
  <2>2. hpc = "gate" /\ upc = "idle" /\ ~flag
    BY <2>1 DEF UpdateHud, UpdateUnheld
  <2>3. url = Artwork(info)
    BY <2>2 DEF HudInv, AtGate
  <2>4. url # NoString
    BY <2>3, ArtworkIsNamed DEF HudInv, HTypeOK
  <2>5. latest > 0
    BY <2>2, <2>4 DEF HudInv, AskedFor
  <2> QED
    BY <2>2, <2>3, <2>5 DEF HudInv, JobsInv, FlagCoversNewest, FlagNeverEarly
<1> QED
  BY <1>1, HudInvariant, PTL DEF HSpec, TitleWithItsArtwork

\* A string that stands in the game's object is not written again
\* (metadata_injector.cpp:97-142, set_target and update), through pauses and writes
\* that failed, once the injector has written it since it aimed at this object:
\* what it remembers is what is there.
THEOREM NeverRepops == HSpec => NoRepop
<1>1. HudInv /\ [HNext]_hvars
        => \A s \in Slot :
             last'[s] # last[s] /\ last'[s] # NoString
               => s \in unwritten \/ slots[target][s] # last'[s]
  <2> SUFFICES ASSUME HudInv, [HNext]_hvars,
                      NEW s \in Slot, last'[s] # last[s], last'[s] # NoString,
                      s \notin unwritten
               PROVE  slots[target][s] # last'[s]
    OBVIOUS
  <2>1. last[s] # NoString /\ slots[target][s] = last[s]
    BY DEF HudInv, RemembersSlots
  <2> QED
    BY <2>1
<1> QED
  BY <1>1, HudInvariant, PTL DEF HSpec, NoRepop
=============================================================================
