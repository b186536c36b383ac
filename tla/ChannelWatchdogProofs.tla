------------------------ MODULE ChannelWatchdogProofs ------------------------
(***************************************************************************)
(* Proofs about the discovery loop, the watchdog and the station toggle     *)
(* (ChannelWatchdog), for any objects and channels and any of the limits.   *)
(* Parts 3 and 4 are about a game that keeps the streamer station's object  *)
(* (StillSpec).                                                             *)
(***************************************************************************)
EXTENDS ChannelWatchdog, TLAPS

(* Part 1: discovery.                                                      *)

\* Every instance is a candidate, and what is acquired is an instance.
LEMMA AcquiredIsInstance == ASSUME NEW o, AcquireTarget(o)
                            PROVE  o \in Candidates /\ obj[o] = "ready"
  BY DEF AcquireTarget, Selectable, Instances

\* A discovery that finds an instance keeps its candidates.
LEMMA DiscoverKeeps == ASSUME Discover, NEW o \in Candidates, obj[o] = "ready"
                       PROVE  o \in cache'
<1>1. Instances # {}
  BY DEF Instances
<1> QED
  BY <1>1 DEF Discover

\* The object that carries the channel is a candidate once it is cached.
LEMMA CachedIsCandidate == ASSUME NEW o \in cache
                           PROVE  o \in Candidates
  BY DEF Candidates

\* A watchdog that looks at a user on our station sees the channel that is there.
LEMMA SeesChannel == ASSUME stream \in cache, obj[stream] = "ready", OnTarget, chan # 0
                     PROVE  \E o \in Selectable : LiveHandle(o) # 0
<1>1. stream \in Instances /\ LiveHandle(stream) # 0
  BY CachedIsCandidate DEF Instances, LiveHandle
<1> QED
  BY <1>1 DEF Selectable

-----------------------------------------------------------------------------
(* Part 2: the types.                                                      *)

LEMMA InitTypes == Init => TypeOK
<1> SUFFICES ASSUME Init
             PROVE  TypeOK
  OBVIOUS
<1>1. /\ 0 \in 0 .. Handles /\ 0 \in 0 .. MaxLost /\ 0 \in 0 .. (RescanAfter - 1)
      /\ 0 \in 0 .. (Misses - 1) /\ 0 \in 0 .. (StaleTicks - 1) /\ 0 \in 0 .. Cooldown
  BY TicksAssumption
<1> QED
  BY <1>1 DEF Init, TypeOK

\* Of the cache and its streak: a streak that comes to RescanAfter starts again.
LEMMA DiscoverTypes == ASSUME TypeOK, Discover
                       PROVE  cache' \in SUBSET Obj /\ streak' \in 0 .. (RescanAfter - 1)
<1>1. Candidates \in SUBSET Obj
  BY DEF Candidates, TypeOK
<1>2. RescanAfter \in Nat /\ RescanAfter > 0 /\ streak \in 0 .. (RescanAfter - 1)
  BY TicksAssumption DEF TypeOK
<1>3. cache' \in {Candidates, {}}
  BY DEF Discover
<1>4. streak' = 0 \/ (streak' = streak + 1 /\ ~(streak + 1 >= RescanAfter))
  BY DEF Discover
<1>5. streak' \in 0 .. (RescanAfter - 1)
  BY <1>2, <1>4
<1> QED
  BY <1>1, <1>3, <1>5

\* A change of station, and the channel that goes with it.
LEMMA StationTypes == ASSUME TypeOK, NEW s, SetStation(s)
                      PROVE  chan' \in 0 .. Handles /\ wants' \in BOOLEAN /\ station' = s
<1>1. chan \in 0 .. Handles /\ 0 \in 0 .. Handles /\ wants \in BOOLEAN
  BY TicksAssumption DEF TypeOK
<1>2. chan' \in {chan, 0} /\ wants' \in {wants, TRUE, FALSE} /\ station' = s
  <2>1. CASE s = station
    BY <2>1 DEF SetStation
  <2>2. CASE s # station
    BY <2>2 DEF SetStation
  <2> QED
    BY <2>1, <2>2
<1> QED
  BY <1>1, <1>2

LEMMA TickTypes == ASSUME TypeOK, Tick
                   PROVE  TypeOK'
<1> USE DEF TypeOK, game, user, discovery, bridge
<1>1. CASE Search
  <2>1. cache' \in SUBSET Obj /\ streak' \in 0 .. (RescanAfter - 1)
    BY <1>1, DiscoverTypes DEF Search
  <2>2. misses' \in 0 .. (Misses - 1)
    <3>1. Misses \in Nat /\ Misses > 0 /\ misses + 1 \in Nat
      BY TicksAssumption
    <3>2. (misses + 1) % Misses \in 0 .. (Misses - 1)
      BY <3>1
    <3> QED
      BY <1>1, <3>2 DEF Search
  <2>3. /\ target' \in Obj \cup {Nowhere} /\ found' \in BOOLEAN
        /\ tpc' \in {"retarget", "off", "search"}
    BY <1>1 DEF Search, AcquireTarget
  <2> QED
    BY <1>1, <2>1, <2>2, <2>3 DEF Search
<1>2. CASE Retarget
  <2>1. handle' \in 0 .. Handles
    BY <1>2, TicksAssumption DEF Retarget, LiveHandle
  <2> QED
    BY <1>2, <2>1 DEF Retarget
<1>3. CASE Watch
  <2>1. /\ StaleTicks \in Nat /\ StaleTicks > 0 /\ Cooldown \in Nat
        /\ stale \in 0 .. (StaleTicks - 1) /\ cool \in 0 .. Cooldown
    BY TicksAssumption
  <2>2. cool' \in 0 .. Cooldown
    BY <1>3, <2>1 DEF Watch
  <2>3. /\ stale' = 0 \/ (stale' = stale + 1 /\ ~(stale + 1 >= StaleTicks))
        /\ tpc' \in {"judge", "retarget"} /\ called' = FALSE
    BY <1>3 DEF Watch
  <2>4. stale' \in 0 .. (StaleTicks - 1)
    BY <2>1, <2>3
  <2> QED
    BY <1>3, <2>2, <2>3, <2>4 DEF Watch
<1>4. CASE Judge
  <2>1. cache' \in SUBSET Obj /\ streak' \in 0 .. (RescanAfter - 1)
    BY <1>4, DiscoverTypes DEF Judge
  <2> QED
    BY <1>4, <2>1 DEF Judge
<1>5. CASE Gate
  BY <1>5 DEF Gate
<1>6. CASE RetuneOff
  <2>1. chan' \in 0 .. Handles /\ wants' \in BOOLEAN /\ station' \in {station, "off"}
    <3>1. CASE readable
      <4>1. SetStation("off")
        BY <1>6, <3>1 DEF RetuneOff
      <4> QED
        BY <4>1, StationTypes
    <3>2. CASE ~readable
      BY <1>6, <3>2 DEF RetuneOff
    <3> QED
      BY <3>1, <3>2
  <2> QED
    BY <1>6, <2>1 DEF RetuneOff, Resume
<1>7. CASE RetuneOn
  <2>1. chan' \in 0 .. Handles /\ wants' \in BOOLEAN /\ station' \in {station, "streamer"}
    <3>1. CASE readable
      <4>1. SetStation("streamer")
        BY <1>7, <3>1 DEF RetuneOn
      <4> QED
        BY <4>1, StationTypes
    <3>2. CASE ~readable
      BY <1>7, <3>2 DEF RetuneOn
    <3> QED
      BY <3>1, <3>2
  <2>2. cool' \in 0 .. Cooldown
    BY <1>7, TicksAssumption DEF RetuneOn
  <2>3. chosen' \in {chosen, "streamer"} /\ tpc' \in {"acquire", "search", "retarget"}
    BY <1>7 DEF RetuneOn, Resume
  <2> QED
    BY <1>7, <2>1, <2>2, <2>3 DEF RetuneOn
<1>8. CASE Reacquire
  <2>1. cache' \in SUBSET Obj /\ streak' \in 0 .. (RescanAfter - 1)
    BY <1>8, DiscoverTypes DEF Reacquire
  <2> QED
    BY <1>8, <2>1 DEF Reacquire, AcquireTarget
<1> QED
  BY <1>1, <1>2, <1>3, <1>4, <1>5, <1>6, <1>7, <1>8 DEF Tick

LEMMA EnvironmentTypes == ASSUME TypeOK, Environment \/ Called \/ UNCHANGED vars
                          PROVE  TypeOK'
<1> USE DEF TypeOK, game, user, discovery, bridge, loop
<1>1. ASSUME NEW o \in Obj, NEW s \in {"absent", "wrapper", "ready"}, ObjectChanges(o, s)
      PROVE  TypeOK'
  BY <1>1 DEF ObjectChanges
<1>2. ASSUME NEW o \in Obj, Build(o)
      PROVE  TypeOK'
  <2>1. stream' \in Obj /\ chan' \in 0 .. Handles
    BY <1>2, TicksAssumption DEF Build
  <2> QED
    BY <1>2, <2>1 DEF Build
<1>3. CASE TearDown
  <2>1. chan' \in 0 .. Handles /\ lost' \in 0 .. MaxLost
    BY <1>3, TicksAssumption DEF TearDown
  <2> QED
    BY <1>3, <2>1 DEF TearDown
<1>4. CASE Pause
  BY <1>4 DEF Pause
<1>5. CASE World
  BY <1>5 DEF World
<1>6. CASE PlayOrStop
  BY <1>6 DEF PlayOrStop
<1>7. ASSUME NEW s \in {"streamer", "other", "off"}, Tune(s)
      PROVE  TypeOK'
  <2>1. chan' \in 0 .. Handles /\ wants' \in BOOLEAN /\ station' = s /\ chosen' = s
    BY <1>7, StationTypes DEF Tune
  <2> QED
    BY <1>7, <2>1 DEF Tune
<1>8. CASE Called
  BY <1>8 DEF Called
<1>9. CASE UNCHANGED vars
  BY <1>9 DEF vars
<1> QED
  BY <1>1, <1>2, <1>3, <1>4, <1>5, <1>6, <1>7, <1>8, <1>9 DEF Environment

\* The types hold in any game, whatever it does to the radio.
THEOREM WatchdogTypes == Spec => []TypeOK
<1>1. TypeOK /\ [Next]_vars => TypeOK'
  BY TickTypes, EnvironmentTypes DEF Next
<1> QED
  BY <1>1, InitTypes, PTL DEF Spec

-----------------------------------------------------------------------------
(* Part 3: the invariant.                                                  *)

LEMMA InitStill == Init => StillInv
  BY DEF Init, StillInv, FoundPlaces, Settled, StreamCached, OnlyYounger

LEMMA SearchKeeps == ASSUME StillInv, Still, Search
                     PROVE  StillInv'
<1> USE DEF StillInv, FoundPlaces, Settled, StreamCached, OnlyYounger
<1>1. UNCHANGED <<obj, stream, chan, station, chosen, readable, fresh>> /\ ~found
  BY DEF Search, game, user
<1>2. CASE \E o \in Obj : AcquireTarget(o)
  <2>1. PICK o \in Obj : AcquireTarget(o)
    BY <1>2
  <2>2. o = stream /\ o \in Candidates /\ obj[o] = "ready"
    BY <1>1, <2>1, AcquiredIsInstance DEF Still
  <2>3. stream \in cache'
    BY <2>2, DiscoverKeeps DEF Search
  <2> QED
    BY <1>1, <2>2, <2>3 DEF Search
<1>3. CASE ~ \E o \in Obj : AcquireTarget(o)
  BY <1>1, <1>3 DEF Search
<1> QED
  BY <1>2, <1>3

LEMMA JudgeKeeps == ASSUME StillInv, Still, Judge
                    PROVE  StillInv'
<1> USE DEF StillInv, FoundPlaces, Settled, StreamCached, OnlyYounger
<1>1. /\ UNCHANGED <<obj, stream, chan, station, chosen, readable, found>>
      /\ tpc = "judge" /\ found
  BY DEF Judge, game, user
<1>2. stream \in cache'
  BY <1>1, CachedIsCandidate, DiscoverKeeps DEF Judge
\* What it does not see is not there, or not ours.
<1>3. tpc' = "gate" /\ OnTarget => chan = 0
  BY <1>1, SeesChannel DEF Judge
<1>4. OnTarget' = OnTarget
  BY <1>1 DEF OnTarget
<1> QED
  BY <1>1, <1>2, <1>3, <1>4 DEF Judge

LEMMA ReacquireKeeps == ASSUME StillInv, Still, Reacquire
                        PROVE  StillInv'
<1> USE DEF StillInv, FoundPlaces, Settled, StreamCached, OnlyYounger
<1>1. /\ UNCHANGED <<obj, stream, chan, station, chosen, readable, found>>
      /\ tpc = "acquire" /\ found
  BY DEF Reacquire, game, user
<1>2. stream \in cache'
  BY <1>1, CachedIsCandidate, DiscoverKeeps DEF Reacquire
<1> QED
  BY <1>1, <1>2 DEF Reacquire

LEMMA LoopKeeps == ASSUME StillInv, Still,
                          Retarget \/ Watch \/ Gate \/ RetuneOff \/ RetuneOn
                   PROVE  StillInv'
<1> USE DEF StillInv, FoundPlaces, Settled, StreamCached, OnlyYounger, game, user, discovery
<1>1. CASE Retarget
  BY <1>1 DEF Retarget
<1>2. CASE Watch
  BY <1>2 DEF Watch
\* The gate lets through only a user on our station: the one who chose it.
<1>3. CASE Gate
  BY <1>3 DEF Gate, OnTarget
<1>4. CASE RetuneOff
  BY <1>4 DEF RetuneOff, Resume, SetStation
<1>5. CASE RetuneOn
  BY <1>5 DEF RetuneOn, Resume, SetStation
<1> QED
  BY <1>1, <1>2, <1>3, <1>4, <1>5

\* The game and the user: nobody retunes, and radio_state stays, during a toggle.
LEMMA EnvironmentKeeps == ASSUME StillInv, Still, Environment
                          PROVE  StillInv'
<1> USE DEF StillInv, FoundPlaces, Settled, StreamCached, OnlyYounger,
            game, user, discovery, loop
<1>1. CASE \E o \in Obj, s \in {"absent", "wrapper", "ready"} : ObjectChanges(o, s)
  BY <1>1 DEF ObjectChanges, OnTarget, Still
<1>2. CASE \E o \in Obj : Build(o)
  BY <1>2 DEF Build, OnTarget, Still
<1>3. CASE TearDown
  BY <1>3 DEF TearDown, OnTarget
<1>4. CASE Pause \/ PlayOrStop
  BY <1>4 DEF Pause, PlayOrStop, OnTarget
<1>5. CASE World
  BY <1>5 DEF World, OnTarget, Still, Toggling
<1>6. CASE \E s \in {"streamer", "other", "off"} : Tune(s)
  <2>1. PICK s \in {"streamer", "other", "off"} : Tune(s)
    BY <1>6
  <2>2. /\ station' = s /\ chosen' = s /\ s # station /\ readable
        /\ UNCHANGED <<obj, stream, readable, cache, found, tpc, fresh>>
    BY <2>1 DEF Tune, SetStation
  <2>3. found => tpc \notin {"gate", "off"}
    BY <2>2 DEF Still, Toggling
  <2> QED
    BY <2>2, <2>3 DEF OnTarget, Still, Toggling
<1> QED
  BY <1>1, <1>2, <1>3, <1>4, <1>5, <1>6 DEF Environment

LEMMA StepKeepsStill == StillInv /\ [Next /\ Still]_vars => StillInv'
<1> SUFFICES ASSUME StillInv, [Next /\ Still]_vars
             PROVE  StillInv'
  OBVIOUS
<1>1. CASE Tick /\ Still
  BY <1>1, SearchKeeps, JudgeKeeps, ReacquireKeeps, LoopKeeps DEF Tick
<1>2. CASE Environment /\ Still
  BY <1>2, EnvironmentKeeps
<1>3. CASE Called \/ UNCHANGED vars
  <2>1. UNCHANGED <<game, user, discovery, loop, fresh>>
    BY <1>3 DEF Called, vars
  <2> QED
    BY <2>1 DEF StillInv, FoundPlaces, Settled, StreamCached, OnlyYounger, OnTarget,
                game, user, discovery, loop
<1> QED
  BY <1>1, <1>2, <1>3 DEF Next

\* StillInv is an inductive invariant of that game.
THEOREM StillInvariant == StillSpec => []StillInv
  BY InitStill, StepKeepsStill, PTL DEF StillSpec

-----------------------------------------------------------------------------
(* Part 4: what the toggle does to the user.                               *)

\* A step of the running loop that changes the station is one of the toggle's two.
LEMMA ToggleSteps == ASSUME [Next /\ Still]_vars, Toggled
                     PROVE  (RetuneOff /\ readable) \/ (RetuneOn /\ readable)
<1>1. station' # station /\ tpc' # tpc
  BY DEF Toggled
<1>2. ~(UNCHANGED vars) /\ ~Called /\ ~Environment
  BY <1>1 DEF vars, user, loop, Called, Environment, ObjectChanges, Build, TearDown, Pause,
              World, PlayOrStop, Tune
<1>3. ~Search /\ ~Retarget /\ ~Watch /\ ~Judge /\ ~Gate /\ ~Reacquire
  BY <1>1 DEF Search, Retarget, Watch, Judge, Gate, Reacquire, user
<1>4. RetuneOff \/ RetuneOn
  BY <1>2, <1>3 DEF Next, Tick
<1> QED
  BY <1>1, <1>4 DEF RetuneOff, RetuneOn

\* Once it runs, the mod changes the station only of a user who chose ours
\* (dsp_control_loop.cpp:160: "we never yank the user off a station they chose"),
\* when nobody retunes between its look at the station and the toggle.
THEOREM UserNeverYanked == StillSpec => NeverYanked
<1>1. StillInv /\ [Next /\ Still]_vars => [Toggled => chosen = "streamer"]_vars
  <2> SUFFICES ASSUME StillInv, [Next /\ Still]_vars, Toggled
               PROVE  chosen = "streamer"
    OBVIOUS
  <2>1. tpc \in {"off", "sleep"} /\ found
    BY ToggleSteps DEF RetuneOff, RetuneOn, Toggled
  <2> QED
    BY <2>1 DEF StillInv, Settled
<1> QED
  BY <1>1, StillInvariant, PTL DEF StillSpec, NeverYanked

\* No toggle ends a channel that was there when the watchdog looked
\* (dsp_control_loop.cpp:175-176: "if it's still alive the game is just paused").
THEOREM PausedIsLeftAlone == StillSpec => PausedLeftAlone
<1>1. StillInv /\ [Next /\ Still]_vars
        => [Toggled /\ station' = "off" /\ chan # 0 => fresh]_vars
  <2> SUFFICES ASSUME StillInv, [Next /\ Still]_vars,
                      Toggled, station' = "off", chan # 0
               PROVE  fresh
    OBVIOUS
  <2>1. tpc = "off" /\ found
    BY ToggleSteps DEF RetuneOff, RetuneOn, SetStation, Toggled
  <2> QED
    BY <2>1 DEF StillInv, OnlyYounger
<1> QED
  BY <1>1, StillInvariant, PTL DEF StillSpec, PausedLeftAlone
=============================================================================
