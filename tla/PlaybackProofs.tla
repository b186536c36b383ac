---------------------------- MODULE PlaybackProofs ----------------------------
(***************************************************************************)
(* Proofs about a tick of ControlLoop::run.  Parts 1 and 2 are about the    *)
(* controller hotkeys (PadHotkeys), for any buttons, commands, bindings and *)
(* order, and any number of ticks a button is held: part 1 about the        *)
(* operators of a tick, part 2 about the ticks.  Part 3 is about the races  *)
(* (RaceAndStation), for any of the limits, part 4 about the audibility     *)
(* edge (RadioPath), for any ring, pipe and number of ticks.  The three are *)
(* separate specifications, each over its own variables.                    *)
(***************************************************************************)
EXTENDS PadHotkeys, RaceAndStation, RadioPath, FiniteSetTheorems, WellFoundedInduction, TLAPS

(* Part 1: what one tick computes.                                         *)

\* Some of the natural numbers have a least one.
LEMMA LeastNumber == ASSUME NEW T \in SUBSET Nat, T # {}
                     PROVE  \E x \in T : \A y \in T : x <= y
<1> DEFINE R == OpToRel(<, Nat)
<1>1. IsWellFoundedOn(R, Nat)
  BY NatLessThanWellFounded
<1>2. \A x, y \in Nat : y < x => <<y, x>> \in R
  BY DEF OpToRel
<1> HIDE DEF R
<1>3. PICK x \in T : \A y \in T : ~(<<y, x>> \in R)
  BY <1>1, WFMin
<1>4. ASSUME NEW y \in T
      PROVE  x <= y
  <2>1. ~(y < x)
    BY <1>2, <1>3
  <2> QED
    BY <2>1
<1> QED
  BY <1>4

\* ... and, when they are bounded, a greatest.
LEMMA GreatestNumber == ASSUME NEW T \in SUBSET Nat, T # {}, NEW n \in Nat, \A x \in T : x <= n
                        PROVE  \E x \in T : \A y \in T : y <= x
<1> DEFINE U == {i \in Nat : n - i \in T}
<1>1. U \in SUBSET Nat
  OBVIOUS
<1>2. U # {}
  <2>1. PICK x \in T : TRUE
    OBVIOUS
  <2>2. n - x \in Nat /\ n - (n - x) = x
    BY <2>1
  <2> QED
    BY <2>1, <2>2
<1>3. PICK i \in U : \A j \in U : i <= j
  <2> HIDE DEF U
  <2> QED
    BY <1>1, <1>2, LeastNumber
<1>4. n - i \in T /\ i \in Nat
  BY <1>3
<1>5. ASSUME NEW y \in T
      PROVE  y <= n - i
  <2>1. y \in Nat /\ y <= n /\ n - y \in Nat /\ n - (n - y) = y
    BY <1>5
  <2>2. n - y \in U
    BY <1>5, <2>1
  <2>3. i <= n - y
    BY <1>3, <2>2
  <2> QED
    BY <1>4, <2>1, <2>3
<1> QED
  BY <1>4, <1>5

\* A binding is a finite set of buttons.
LEMMA BindIs == ASSUME NEW c \in Command
                PROVE  /\ Bind[c] \subseteq Pad /\ IsFiniteSet(Bind[c])
                       /\ Cardinality(Bind[c]) \in 0 .. Cardinality(Pad)
<1>1. Bind[c] \in SUBSET Pad
  BY BindAssumption
<1> QED
  BY <1>1, OrderAssumption, FS_Subset, FS_CardinalityType

\* The complexity that is pressed: the one of the largest bindings that match.
LEMMA MaxBitsIs == ASSUME NEW p
                   PROVE  /\ MaxBits(p) \in Nat
                          /\ \A c \in Matching(p) : Cardinality(Bind[c]) <= MaxBits(p)
                          /\ Matching(p) # {} => PadPressed(p) # {}
<1> DEFINE Good(n) == /\ \A c \in Matching(p) : Cardinality(Bind[c]) <= n
                      /\ n = 0 \/ \E c \in Matching(p) : Cardinality(Bind[c]) = n
           T == {Cardinality(Bind[c]) : c \in Matching(p)}
<1>1. Cardinality(Pad) \in Nat
  BY OrderAssumption, FS_CardinalityType
<1>2. Matching(p) \subseteq Command
  BY DEF Matching
<1>3. \A c \in Matching(p) : Cardinality(Bind[c]) \in 0 .. Cardinality(Pad)
  BY <1>2, BindIs
<1>4. \E n \in 0 .. Cardinality(Pad) : Good(n)
  <2>1. CASE Matching(p) = {}
    <3>1. 0 \in 0 .. Cardinality(Pad)
      BY <1>1
    <3> QED
      BY <2>1, <3>1
  <2>2. CASE Matching(p) # {}
    <3>1. T \in SUBSET Nat /\ T # {} /\ \A x \in T : x <= Cardinality(Pad)
      BY <1>1, <1>3, <2>2
    <3>2. PICK n \in T : \A y \in T : y <= n
      <4> HIDE DEF T
      <4> QED
        BY <1>1, <3>1, GreatestNumber
    <3>3. PICK c \in Matching(p) : n = Cardinality(Bind[c])
      BY <3>2
    <3> QED
      BY <1>3, <3>2, <3>3
  <2> QED
    BY <2>1, <2>2
<1>5. MaxBits(p) \in 0 .. Cardinality(Pad) /\ Good(MaxBits(p))
  <2>1. MaxBits(p) = CHOOSE n \in 0 .. Cardinality(Pad) : Good(n)
    BY DEF MaxBits
  <2> HIDE DEF Good
  <2> QED
    BY <1>4, <2>1
<1>6. Matching(p) # {} => PadPressed(p) # {}
  <2> SUFFICES ASSUME Matching(p) # {}
               PROVE  \E c \in Matching(p) : Cardinality(Bind[c]) = MaxBits(p)
    BY DEF PadPressed
  <2>1. CASE MaxBits(p) = 0
    <3>1. PICK c \in Matching(p) : TRUE
      OBVIOUS
    <3> QED
      BY <1>3, <1>5, <2>1, <3>1
  <2>2. CASE MaxBits(p) # 0
    BY <1>5, <2>2
  <2> QED
    BY <2>1, <2>2
<1> QED
  BY <1>1, <1>5, <1>6

\* At most one command is triggered, a buffered one of the pressed complexity; and
\* one is, if there is any.
LEMMA WinnerIs ==
    ASSUME NEW p, NEW k
    PROVE  /\ \A c \in Winner(p, k) : /\ c \in Command /\ c \in Queued(p, k)
                                      /\ Cardinality(Bind[c]) = MaxBits(p)
           /\ IsFiniteSet(Winner(p, k)) /\ Cardinality(Winner(p, k)) \in {0, 1}
           /\ (\E c \in Command : c \in Queued(p, k) /\ Cardinality(Bind[c]) = MaxBits(p))
                 => Cardinality(Winner(p, k)) = 1
<1> DEFINE ready == {i \in DOMAIN Order : /\ Order[i] \in Queued(p, k)
                                          /\ Cardinality(Bind[Order[i]]) = MaxBits(p)}
           lowest == {j \in ready : \A l \in ready : j <= l}
<1>1. Winner(p, k) = {Order[i] : i \in lowest}
  BY DEF Winner
<1>2. DOMAIN Order \subseteq Nat
  BY OrderAssumption
<1>3. \A i \in DOMAIN Order : Order[i] \in Command
  BY DEF Command, ToSet
<1>4. \A i, j \in lowest : i = j
  BY <1>2
<1>5. \A c \in Winner(p, k) : /\ c \in Command /\ c \in Queued(p, k)
                              /\ Cardinality(Bind[c]) = MaxBits(p)
  BY <1>1, <1>3
<1>6. Winner(p, k) = {} \/ \E c : Winner(p, k) = {c}
  BY <1>1, <1>4
<1>7. IsFiniteSet(Winner(p, k)) /\ Cardinality(Winner(p, k)) \in {0, 1}
  <2>1. CASE Winner(p, k) = {}
    BY <2>1, FS_EmptySet
  <2>2. ASSUME NEW c, Winner(p, k) = {c}
        PROVE  IsFiniteSet(Winner(p, k)) /\ Cardinality(Winner(p, k)) \in {0, 1}
    BY <2>2, FS_Singleton
  <2> QED
    BY <1>6, <2>1, <2>2
<1>8. ASSUME NEW c \in Command, c \in Queued(p, k), Cardinality(Bind[c]) = MaxBits(p)
      PROVE  Cardinality(Winner(p, k)) = 1
  <2>1. PICK i \in DOMAIN Order : Order[i] = c
    BY DEF Command, ToSet
  <2>2. i \in ready /\ ready \in SUBSET Nat
    BY <1>2, <1>8, <2>1
  <2>3. PICK j \in ready : \A l \in ready : j <= l
    <3> HIDE DEF ready
    <3> QED
      BY <2>2, LeastNumber
  <2>4. Winner(p, k) # {}
    BY <1>1, <2>3
  <2> QED
    BY <1>6, <2>4, FS_Singleton
<1> QED
  BY <1>5, <1>7, <1>8

-----------------------------------------------------------------------------
(* Part 2: the ticks.                                                      *)

\* What is waited before it is looked at, and when something is due.
LEMMA WaitedIs ==
    ASSUME NEW p, wait \in Waits
    PROVE  /\ Waited(p) \in Waits
           /\ PadPressed(p) = {} => Waited(p) = 0 /\ ~Due(p)
           /\ wait = Spent /\ PadPressed(p) # {} => Waited(p) = Spent /\ ~Due(p)
<1>1. HoldTicks \in Nat /\ HoldTicks > 0 /\ Spent = HoldTicks + 1 /\ wait \in 0 .. Spent
  BY HoldAssumption DEF Spent, Waits
<1>2. CASE PadPressed(p) = {}
  <2>1. Waited(p) = 0
    BY <1>2 DEF Waited
  <2> QED
    BY <1>1, <1>2, <2>1 DEF Due, Waits
<1>3. CASE PadPressed(p) # {} /\ wait = Spent
  <2>1. Waited(p) = Spent
    BY <1>3 DEF Waited
  <2> QED
    BY <1>1, <1>3, <2>1 DEF Due, Waits
<1>4. CASE PadPressed(p) # {} /\ wait # Spent
  <2>1. Waited(p) = wait + 1
    BY <1>4 DEF Waited
  <2> QED
    BY <1>1, <1>4, <2>1 DEF Waits
<1> QED
  BY <1>2, <1>3, <1>4

LEMMA InitPad == Init => PadInv
<1> SUFFICES ASSUME Init
             PROVE  PadInv
  OBVIOUS
<1>1. HoldTicks \in Nat /\ 0 \in Waits /\ 0 \notin 1 .. HoldTicks
  BY HoldAssumption DEF Waits, Spent
<1>2. PadPressed({}) = {}
  BY DEF PadPressed, Matching
<1> QED
  BY <1>1, <1>2 DEF Init, PadInv, TypeOK, OneCommandPerHold, ComboBeatsParts, OnceSpent, Buffered

\* Before it is spent nothing has been triggered; when it is, nothing is any more.
LEMMA TickFires ==
    ASSUME PadInv, NEW p \in SUBSET Pad, NEW k \in SUBSET Command, Tick(p, k)
    PROVE  /\ byPad' \in SUBSET Command
           /\ fired' = (IF PadPressed(p) = {} THEN 0 ELSE fired) + Cardinality(byPad')
           /\ fired' \in {0, 1}
           /\ OnceSpent'
<1>1. wait \in Waits /\ fired \in {0, 1} /\ (fired > 0 => wait = Spent)
  BY DEF PadInv, TypeOK, OneCommandPerHold, OnceSpent
<1>2. ~Due(p) => byPad' = {} /\ Cardinality(byPad') = 0 /\ wait' = Waited(p)
  BY FS_EmptySet DEF Tick
<1>3. Due(p) => /\ byPad' = Winner(p, k) /\ Cardinality(byPad') \in {0, 1}
                /\ wait' = Spent /\ PadPressed(p) # {} /\ wait # Spent
  BY <1>1, WaitedIs, WinnerIs DEF Tick
<1>4. byPad' \in SUBSET Command
  BY <1>2, <1>3, WinnerIs
<1>5. fired' = LET now == (IF PadPressed(p) = {} THEN 0 ELSE fired) + Cardinality(byPad')
               IN IF now > 2 THEN 2 ELSE now
  BY DEF Tick
<1>6. CASE Due(p)
  BY <1>1, <1>3, <1>4, <1>5, <1>6 DEF OnceSpent
<1>7. CASE ~Due(p)
  BY <1>1, <1>2, <1>4, <1>5, <1>7, WaitedIs DEF OnceSpent
<1> QED
  BY <1>6, <1>7

\* A part of a combo that is down is bound to fewer buttons than is pressed.
LEMMA TickBeatsParts ==
    ASSUME NEW p \in SUBSET Pad, NEW k \in SUBSET Command, Tick(p, k)
    PROVE  ComboBeatsParts'
<1> SUFFICES ASSUME NEW c \in byPad', NEW d \in Command,
                    Bind[c] \subseteq Bind[d], Bind[d] \subseteq p
             PROVE  Bind[d] = Bind[c]
  BY DEF ComboBeatsParts, Tick
<1>1. c \in Winner(p, k)
  BY DEF Tick
<1>2. c \in Command /\ Cardinality(Bind[c]) = MaxBits(p)
  BY <1>1, WinnerIs
<1>3. CASE Bind[d] = {}
  BY <1>3
<1>4. CASE Bind[d] # {}
  <2>1. Cardinality(Bind[d]) <= Cardinality(Bind[c])
    BY <1>2, <1>4, MaxBitsIs DEF Matching
  <2>2. Cardinality(Bind[c]) <= Cardinality(Bind[d])
    BY BindIs, FS_Subset
  <2>3. Cardinality(Bind[d]) = Cardinality(Bind[c])
    BY <1>2, <2>1, <2>2, BindIs
  <2> QED
    BY <2>3, BindIs, FS_Subset
<1> QED
  BY <1>3, <1>4

\* A tick that finds something buffered of the pressed complexity triggers it.
LEMMA TickTriggers ==
    ASSUME PadInv, NEW p \in SUBSET Pad, NEW k \in SUBSET Command, Tick(p, k),
           fired = 0, PadPressed(p) # {}, Queued(p, k) = PadPressed(p), Due(p)
    PROVE  fired' = 1 /\ wait' = Spent
<1>1. \E c \in Command : c \in Queued(p, k) /\ Cardinality(Bind[c]) = MaxBits(p)
  BY DEF PadPressed, Matching
<1>2. Cardinality(byPad') = 1
  BY <1>1, WinnerIs DEF Tick
<1> QED
  BY <1>2, TickFires DEF Tick

LEMMA TickKeepsBuffered ==
    ASSUME PadInv, NEW p \in SUBSET Pad, NEW k \in SUBSET Command, Tick(p, k)
    PROVE  Buffered' /\ held' \in Waits
<1>1. /\ HoldTicks \in Nat /\ HoldTicks > 0 /\ Spent = HoldTicks + 1
      /\ wait \in 0 .. Spent /\ held \in 0 .. Spent /\ Waits = 0 .. Spent
  BY HoldAssumption DEF Spent, Waits, PadInv, TypeOK
<1>2. pads' = p
  BY DEF Tick
<1>3. CASE k # {} \/ (p # pads /\ PadPressed(pads) # {})
  <2>1. held' = Spent
    BY <1>3 DEF Tick
  <2> QED
    BY <1>1, <2>1 DEF Buffered
\* Everything is let go.
<1>4. CASE k = {} /\ ~(p # pads /\ PadPressed(pads) # {}) /\ PadPressed(p) = {}
  <2>1. held' = 0 /\ prev' = {}
    BY <1>4 DEF Tick
  <2>2. ~Due(p) /\ Waited(p) = 0
    BY <1>1, <1>4, WaitedIs
  <2>3. pending' = {} /\ wait' = 0
    BY <1>4, <2>2 DEF Tick, Queued
  <2>4. fired' = 0
    BY <1>4, <2>2, TickFires, FS_EmptySet DEF Tick
  <2> QED
    BY <1>1, <1>2, <1>4, <2>1, <2>3, <2>4 DEF Buffered
<1>5. CASE k = {} /\ ~(p # pads /\ PadPressed(pads) # {}) /\ PadPressed(p) # {}
  <2>1. prev' = PadPressed(p) /\ PadPressed(p)' = PadPressed(p)
    BY <1>5 DEF Tick, PadPressed, Matching, MaxBits
  <2>2. CASE held = Spent
    BY <1>1, <1>5, <2>2 DEF Tick, Buffered
  <2>3. CASE held # Spent
    <3>1. held' = held + 1 /\ held' \in 1 .. Spent
      BY <1>1, <1>5, <2>3 DEF Tick
    <3>2. CASE fired = 1
      <4>1. held \in 1 .. HoldTicks /\ wait = Spent
        BY <1>1, <2>3, <3>2 DEF Buffered, PadInv, OnceSpent
      <4>2. ~Due(p) /\ Waited(p) = Spent
        BY <1>1, <1>5, <4>1, WaitedIs
      <4>3. fired' = 1 /\ wait' = Spent
        BY <1>5, <3>2, <4>2, TickFires, FS_EmptySet DEF Tick
      <4> QED
        BY <1>1, <1>2, <1>5, <2>1, <3>1, <4>3 DEF Buffered
    \* The same buttons as before, or the first ones after none.
    <3>3. CASE fired = 0
      <4>1. Queued(p, k) = PadPressed(p) /\ wait = held /\ held < HoldTicks
        <5>1. CASE held = 0
          BY <1>1, <1>5, <5>1 DEF Buffered, PadInv, Queued
        <5>2. CASE held # 0
          <6>1. held \in 1 .. HoldTicks
            BY <1>1, <2>3, <5>2
          <6>2. /\ p = pads /\ prev = PadPressed(p) /\ pending = prev
                /\ wait = held /\ held < HoldTicks
            BY <1>5, <3>3, <6>1 DEF Buffered, PadInv
          <6> QED
            BY <1>5, <6>2 DEF Queued
        <5> QED
          BY <5>1, <5>2
      <4>2. Waited(p) = held + 1
        BY <1>1, <1>5, <2>3, <4>1 DEF Waited
      <4>3. CASE Due(p)
        <5>1. fired' = 1 /\ wait' = Spent
          BY <1>5, <3>3, <4>1, <4>3, TickTriggers
        <5> QED
          BY <1>1, <1>2, <1>5, <2>1, <3>1, <5>1 DEF Buffered
      <4>4. CASE ~Due(p)
        <5>1. held + 1 < HoldTicks /\ MaxBits(p) <= 1
          BY <1>1, <4>1, <4>2, <4>4, MaxBitsIs DEF Due
        <5>2. pending' = PadPressed(p) /\ wait' = held + 1
          BY <4>1, <4>2, <4>4 DEF Tick
        <5>3. fired' = 0
          BY <1>5, <3>3, <4>4, TickFires, FS_EmptySet DEF Tick
        <5> QED
          BY <1>1, <1>2, <1>5, <2>1, <3>1, <5>1, <5>2, <5>3 DEF Buffered
      <4> QED
        BY <4>3, <4>4
    <3> QED
      BY <3>2, <3>3 DEF PadInv, TypeOK, OneCommandPerHold
  <2> QED
    BY <2>2, <2>3
<1> QED
  BY <1>3, <1>4, <1>5

LEMMA StepKeepsPad == PadInv /\ [Next]_vars => PadInv'
<1> SUFFICES ASSUME PadInv, [Next]_vars
             PROVE  PadInv'
  OBVIOUS
<1>1. ASSUME NEW p \in SUBSET Pad, NEW k \in SUBSET Command, Tick(p, k)
      PROVE  PadInv'
  <2>1. byPad' \in SUBSET Command /\ fired' \in {0, 1} /\ OnceSpent'
    BY <1>1, TickFires
  <2>2. Buffered' /\ held' \in Waits
    BY <1>1, TickKeepsBuffered
  <2>3. prev' \in SUBSET Command /\ byKey' \in SUBSET Command
    BY <1>1 DEF Tick, PadPressed, Matching
  <2>4. pending' \in SUBSET Command
    BY <1>1 DEF Tick, Queued, PadPressed, Matching, PadInv, TypeOK
  <2>5. wait' \in Waits
    <3>1. Waited(p) \in Waits /\ Spent \in Waits
      BY WaitedIs, HoldAssumption DEF PadInv, TypeOK, Waits, Spent
    <3> QED
      BY <1>1, <3>1 DEF Tick
  <2>6. ComboBeatsParts'
    BY <1>1, TickBeatsParts
  <2>7. pads' \in SUBSET Pad
    BY <1>1 DEF Tick
  <2> QED
    BY <2>1, <2>2, <2>3, <2>4, <2>5, <2>6, <2>7 DEF PadInv, TypeOK, OneCommandPerHold
<1>2. CASE UNCHANGED vars
  BY <1>2 DEF vars, PadInv, TypeOK, OneCommandPerHold, ComboBeatsParts, OnceSpent, Buffered,
              PadPressed, Matching, MaxBits
<1> QED
  BY <1>1, <1>2 DEF Next

\* PadInv is an inductive invariant.
THEOREM PadInvariant == Spec => []PadInv
  BY InitPad, StepKeepsPad, PTL DEF Spec

\* Until no command's buttons are down any more the controller triggers one command
\* at most (run_playback_state_machines: combo_wait_ticks_ is set to -9999 after a
\* command), whatever is added, swapped, or let go.
THEOREM HoldTriggersOnce == Spec => []OneCommandPerHold
<1>1. PadInv => OneCommandPerHold
  BY DEF PadInv
<1> QED
  BY <1>1, PadInvariant, PTL

\* A combo never lets a part of it through (the popcount filter in front of the
\* buffers, and again in front of the commands), whatever the bindings are.
THEOREM PartsWait == Spec => []ComboBeatsParts
<1>1. PadInv => ComboBeatsParts
  BY DEF PadInv
<1> QED
  BY <1>1, PadInvariant, PTL

\* Buttons that go down together and stay down, with no key, have triggered one
\* command by the last tick of the wait.
THEOREM HeldButtonsFire == Spec => []HoldFires
<1>1. PadInv => HoldFires
  BY HoldAssumption DEF PadInv, Buffered, HoldFires
<1> QED
  BY <1>1, PadInvariant, PTL

-----------------------------------------------------------------------------
(* Part 3: the races.                                                      *)

\* A clock that saturates stays between its bounds.
LEMMA OlderStays == ASSUME NEW limit \in Nat, NEW t \in 0 .. limit
                    PROVE  Older(t, limit) \in 0 .. limit
  BY DEF Older

LEMMA InitRace == RaceInit => RaceInv
<1> SUFFICES ASSUME RaceInit
             PROVE  RaceInv
  OBVIOUS
<1>1. /\ sinceRace \in 0 .. RaceStartDebounce
      /\ sinceSkip \in 0 .. SkipCommandCooldown
      /\ sinceOff \in 0 .. (QuickSkipWindow + 1)
      /\ sinceCmd \in 0 .. CommandCooldown
  BY LimitsAssumption DEF RaceInit
<1>2. {tuned, race, restart, readable} \subseteq BOOLEAN
  BY DEF RaceInit
<1>3. /\ playing = TRUE /\ hush = "none" /\ command = "none" /\ overruled = FALSE
      /\ away = FALSE /\ first = TRUE /\ prevRace = FALSE /\ prevRestart = FALSE
      /\ prevR10 = FALSE /\ armed = FALSE /\ stopped = FALSE
  BY DEF RaceInit
<1> QED
  BY <1>1, <1>2, <1>3 DEF RaceInv, RaceTypeOK

\* What a tick makes of playback.
LEMMA PlaybackTypes ==
    ASSUME RaceInv, NEW press \in BOOLEAN, NEW works \in BOOLEAN,
           Playback(press, works)
    PROVE  /\ playing' \in BOOLEAN /\ overruled' \in BOOLEAN
           /\ command' \in {"none", "key", "tune"}
           /\ hush' \in {"none", "race", "user", "failed"}
           /\ playing' => hush' = "none"
<1> DEFINE resumed == ResumesAfterRace /\ (~playing \/ StopsForRace)
           ruled == IF resumed THEN works ELSE playing /\ ~StopsForRace
           cause == IF ruled THEN "none" ELSE IF resumed THEN "failed"
                    ELSE IF StopsForRace THEN "race" ELSE hush
<1>1. hush \in {"none", "race", "user", "failed"} /\ playing \in BOOLEAN
  BY DEF RaceInv, RaceTypeOK
<1>2. /\ ruled \in BOOLEAN /\ cause \in {"none", "race", "user", "failed"}
      /\ ruled => cause = "none"
  BY <1>1
<1>3. /\ command' = Triggered(press)
      /\ IF command' = "none" THEN playing' = ruled /\ hush' = cause
         ELSE /\ playing' = (~ruled /\ works)
              /\ hush' = IF playing' THEN "none" ELSE IF ruled THEN "user" ELSE "failed"
  BY DEF Playback
<1>4. command' \in {"none", "key", "tune"}
  BY <1>3 DEF Triggered
<1>5. overruled' \in BOOLEAN
  BY DEF Playback
<1> HIDE DEF ruled, cause
<1> QED
  BY <1>2, <1>3, <1>4, <1>5

\* The flag stays up only between a stop for a race and the end of it.
LEMMA FlagExplained ==
    ASSUME RaceInv, NEW press \in BOOLEAN, NEW works \in BOOLEAN,
           StateTick(press, works), stopped'
    PROVE  hush' = "race" \/ overruled'
<1>1. ~RaceEdgeOut /\ (stopped \/ StopsForRace)
  BY DEF StateTick, StoppedFlag, ResumesAfterRace
<1>2. ~ResumesAfterRace
  BY <1>1 DEF ResumesAfterRace
<1>3. overruled' <=> \/ command' # "none" /\ (StopsForRace \/ hush = "race")
                     \/ overruled /\ ~StopsForRace
  BY <1>1 DEF StateTick, Playback
<1>4. command' = "none" => hush' = (IF playing /\ ~StopsForRace THEN "none"
                                    ELSE IF StopsForRace THEN "race" ELSE hush)
  BY <1>2 DEF StateTick, Playback
<1>5. CASE StopsForRace
  BY <1>3, <1>4, <1>5
<1>6. CASE ~StopsForRace
  <2>1. hush = "race" \/ overruled
    BY <1>1, <1>6 DEF RaceInv
  <2>2. hush = "race" => ~playing
    BY DEF RaceInv
  <2> QED
    BY <1>3, <1>4, <1>6, <2>1, <2>2
<1> QED
  BY <1>5, <1>6

LEMMA StateTickKeepsRace ==
    ASSUME RaceInv, NEW press \in BOOLEAN, NEW works \in BOOLEAN,
           StateTick(press, works)
    PROVE  RaceInv'
<1>1. /\ playing' \in BOOLEAN /\ overruled' \in BOOLEAN
      /\ command' \in {"none", "key", "tune"}
      /\ hush' \in {"none", "race", "user", "failed"}
      /\ playing' => hush' = "none"
  BY PlaybackTypes DEF StateTick
<1>2. stopped' => hush' = "race" \/ overruled'
  BY FlagExplained
<1>3. /\ UNCHANGED <<tuned, race, restart, readable, first>>
      /\ prevRace' = (readable /\ race)
      /\ {prevRestart', prevR10', armed', stopped', away'} \subseteq BOOLEAN
  BY DEF StateTick, game, RaceActive, RaceRestart, OnTarget,
         StoppedFlag, RaceInv, RaceTypeOK
<1>4. /\ sinceRace' \in 0 .. RaceStartDebounce
      /\ sinceSkip' \in 0 .. SkipCommandCooldown
      /\ sinceOff' \in 0 .. (QuickSkipWindow + 1)
      /\ sinceCmd' \in 0 .. CommandCooldown
  <2>1. /\ RaceStartDebounce \in Nat /\ 1 \in 0 .. RaceStartDebounce
        /\ SkipCommandCooldown \in Nat /\ 1 \in 0 .. SkipCommandCooldown
        /\ QuickSkipWindow + 1 \in Nat /\ 1 \in 0 .. (QuickSkipWindow + 1)
        /\ CommandCooldown \in Nat /\ 1 \in 0 .. CommandCooldown
    BY LimitsAssumption
  <2> QED
    BY <2>1, OlderStays DEF StateTick, Clocks, RaceInv, RaceTypeOK
<1> QED
  BY <1>1, <1>2, <1>3, <1>4 DEF RaceInv, RaceTypeOK

LEMMA StepKeepsRace ==
    ASSUME RaceInv, [RaceNext]_raceVars
    PROVE  RaceInv'
<1> USE DEF game, edges, clocks, story
<1>1. CASE FirstTick
  BY <1>1 DEF FirstTick, RaceActive, RaceRestart, OnTarget,
              RaceInv, RaceTypeOK
<1>2. ASSUME NEW press \in BOOLEAN, NEW works \in BOOLEAN, StateTick(press, works)
      PROVE  RaceInv'
  BY <1>2, StateTickKeepsRace
<1>3. CASE Tune
  BY <1>3 DEF Tune, RaceInv, RaceTypeOK
<1>4. CASE Race
  BY <1>4 DEF Race, RaceInv, RaceTypeOK
<1>5. CASE Restart
  BY <1>5 DEF Restart, RaceInv, RaceTypeOK
<1>6. CASE World
  BY <1>6 DEF World, RaceInv, RaceTypeOK
<1>7. CASE UNCHANGED raceVars
  BY <1>7 DEF raceVars, RaceInv, RaceTypeOK
<1> QED
  BY <1>1, <1>2, <1>3, <1>4, <1>5, <1>6, <1>7 DEF RaceNext, RaceTick

\* RaceInv is an inductive invariant, whatever the game shows of radio_state.
THEOREM RaceInvariant == RaceSpec => []RaceInv
  BY InitRace, StepKeepsRace, PTL DEF RaceSpec

\* Only a tick resumes a source without a command, and only at the end of a race.
LEMMA ResumeIs == ASSUME RaceInv, [RaceNext]_raceVars,
                         ~playing, playing', command' = "none"
                  PROVE  RaceEdgeOut /\ stopped
<1>1. PICK press \in BOOLEAN, works \in BOOLEAN : StateTick(press, works)
  BY DEF RaceNext, RaceTick, FirstTick, Tune, Race, Restart, World, raceVars
<1>2. ~StopsForRace
  BY DEF StopsForRace
<1>3. ResumesAfterRace
  BY <1>1 DEF StateTick, Playback
<1> QED
  BY <1>2, <1>3 DEF ResumesAfterRace

\* The end of a race plays no source that a user or a failure has silenced
\* (dsp_control_loop.cpp: paused_by_race_off_), unless a command had come between
\* the stop and the end.
THEOREM ResumesOnlyWhatItStopped == RaceSpec => ResumesWhatItStopped
<1>1. RaceInv /\ [RaceNext]_raceVars
        => [~playing /\ playing' /\ command' = "none"
              => hush = "race" \/ overruled]_raceVars
  BY ResumeIs DEF RaceInv
<1> QED
  BY <1>1, RaceInvariant, PTL DEF RaceSpec, ResumesWhatItStopped

-----------------------------------------------------------------------------
(* Part 4: the audibility edge.                                            *)

\* What saturates grows no further, and never gets ahead of what it was behind.
LEMMA CappedIs == ASSUME NEW m \in 0 .. InaudibleTicks, NEW n \in 0 .. InaudibleTicks
                  PROVE  /\ Capped(n) \in 0 .. InaudibleTicks
                         /\ m <= n => Capped(m) <= Capped(n)
  BY SizesAssumption DEF Capped

LEMMA InitPath == PathInit => PathInv
<1> SUFFICES ASSUME PathInit
             PROVE  PathInv
  OBVIOUS
<1>1. /\ avail \in 0 .. PipeSize /\ left \in 0 .. PipeSize /\ level \in 0 .. Capacity
      /\ idle \in 0 .. InaudibleTicks /\ silence \in 0 .. InaudibleTicks /\ idle <= silence
      /\ left <= avail /\ left = 0
  BY SizesAssumption DEF PathInit
<1>2. /\ state \in {"stopped", "playing"} /\ pipe \in {"open", "none"} /\ ffmpeg = "running"
      /\ tpc = "pump" /\ cb = "idle" /\ configured \in BOOLEAN /\ gainOn = configured
      /\ found = FALSE /\ mixing = FALSE /\ called = FALSE /\ primed = FALSE
      /\ audible = TRUE /\ remembered = FALSE /\ heard = FALSE
  BY DEF PathInit
<1> QED
  BY <1>1, <1>2 DEF PathInv, PathTypeOK

\* pump(), the drain, a command and the gain: amounts and the source's state.
LEMMA MovingKeepsPath ==
    ASSUME PathInv,
           \/ PumpPeek \/ PumpChunk \/ PumpBroken \/ PumpDone
           \/ DrainUnheard \/ StateMachines \/ SetGain
    PROVE  PathInv' /\ audible' = audible
<1> USE DEF PathInv, PathTypeOK, source, gains, mixer, hearing
<1>1. CASE PumpPeek
  BY <1>1, SizesAssumption DEF PumpPeek
<1>2. CASE PumpChunk
  BY <1>2, SizesAssumption DEF PumpChunk
<1>3. CASE PumpBroken
  BY <1>3, SizesAssumption DEF PumpBroken
<1>4. CASE PumpDone
  BY <1>4, SizesAssumption DEF PumpDone
<1>5. CASE DrainUnheard
  BY <1>5, SizesAssumption DEF DrainUnheard
<1>6. CASE StateMachines
  BY <1>6, SizesAssumption DEF StateMachines, PlaySource, StopSource
<1>7. CASE SetGain
  BY <1>7 DEF SetGain
<1> QED
  BY <1>1, <1>2, <1>3, <1>4, <1>5, <1>6, <1>7

\* The look at call_count(): a source that is not silenced by it, or one that was
\* heard and has been silent as long as that takes.
LEMMA ListenKeepsPath ==
    ASSUME PathInv, Listen
    PROVE  PathInv' /\ (~audible' => heard /\ silence' = InaudibleTicks)
<1>1. /\ silence \in 0 .. InaudibleTicks /\ idle \in 0 .. InaudibleTicks
      /\ silence' = Capped(silence) /\ called' = FALSE
      /\ InaudibleTicks \in Nat /\ InaudibleTicks > 0
  BY SizesAssumption DEF Listen, PathInv, PathTypeOK
<1>2. silence' \in 0 .. InaudibleTicks
  BY <1>1, CappedIs
<1>3. /\ tpc = "listen" /\ tpc' = "command" /\ left = 0
      /\ UNCHANGED <<state, pipe, ffmpeg, avail, level, configured, gainOn, found, left,
                     mixing, cb>>
  BY DEF Listen, source, gains, PathInv
<1>4. CASE Busy
  <2>1. /\ remembered' = TRUE /\ heard' = heard
        /\ idle' = (IF remembered /\ primed /\ ~called THEN Capped(idle) ELSE 0)
        /\ audible' <=> idle' < InaudibleTicks
        /\ {audible', primed'} \subseteq BOOLEAN
        /\ primed' => primed \/ called
    <3>1. /\ remembered' = TRUE /\ heard' = (heard /\ Busy)
          /\ idle' = Heard.idle /\ primed' = Heard.primed
          /\ audible' = (idle' < InaudibleTicks)
      BY <1>4 DEF Listen
    <3>2. /\ Heard.idle
                = (IF remembered /\ primed /\ ~called THEN Capped(idle) ELSE 0)
          /\ Heard.primed = ((remembered /\ primed) \/ called)
      BY DEF Heard
    <3>3. heard' = heard
      BY <1>4, <3>1 DEF PathInv, PathTypeOK
    <3>4. audible' \in BOOLEAN /\ (audible' <=> idle' < InaudibleTicks)
      <4>1. Capped(idle) \in 0 .. InaudibleTicks
        BY <1>1, CappedIs
      <4>2. idle' \in Nat
        BY <3>1, <3>2, <4>1
      <4>3. (idle' < InaudibleTicks) \in BOOLEAN
        BY <1>1, <4>2
      <4>4. audible' = (idle' < InaudibleTicks)
        BY <3>1
      <4> QED
        BY <4>3, <4>4
    <3>5. primed' \in BOOLEAN /\ (primed' => primed \/ called)
      BY <3>1, <3>2
    <3> QED
      BY <3>1, <3>2, <3>3, <3>4, <3>5
  <2>2. idle' \in 0 .. InaudibleTicks /\ idle' <= silence'
    <3>1. CASE remembered /\ primed /\ ~called
      <4>1. idle <= silence
        BY <3>1 DEF PathInv
      <4>2. Capped(idle) \in 0 .. InaudibleTicks
        BY <1>1, CappedIs
      <4>3. Capped(idle) <= Capped(silence)
        BY <1>1, <4>1, CappedIs
      <4> QED
        BY <1>1, <2>1, <3>1, <4>2, <4>3
    <3>2. CASE ~(remembered /\ primed /\ ~called)
      BY <1>1, <1>2, <2>1, <3>2
    <3> QED
      BY <3>1, <3>2
  <2>3. ~audible' => remembered /\ primed /\ silence' = InaudibleTicks
    <3>1. ~audible' => idle' = InaudibleTicks /\ idle' # 0
      <4>1. ~audible' => ~(idle' < InaudibleTicks)
        BY <2>1
      <4> QED
        BY <1>1, <2>2, <4>1
    <3>2. idle' # 0 => remembered /\ primed
      BY <2>1
    <3>3. idle' = InaudibleTicks => silence' = InaudibleTicks
      BY <1>1, <1>2, <2>2
    <3> QED
      BY <3>1, <3>2, <3>3
  <2>4. primed' \in BOOLEAN /\ (primed' => heard)
    BY <2>1 DEF PathInv, PathTypeOK
  <2> QED
    BY <1>1, <1>2, <1>3, <2>1, <2>2, <2>3, <2>4 DEF PathInv, PathTypeOK
<1>5. CASE ~Busy
  <2>1. /\ remembered' = FALSE /\ idle' = 0 /\ primed' = FALSE /\ audible' = TRUE
        /\ heard' = FALSE
    BY <1>5 DEF Listen
  <2>2. idle' \in 0 .. InaudibleTicks /\ idle' <= silence'
    BY <1>1, <1>2, <2>1
  <2> QED
    BY <1>1, <1>2, <1>3, <2>1, <2>2 DEF PathInv, PathTypeOK
<1> QED
  BY <1>4, <1>5

\* A call ends the silence.
LEMMA OthersKeepPath ==
    ASSUME PathInv,
           \/ Callback \/ ApplyConfig \/ FfmpegWrites \/ FfmpegDies
           \/ GameTurns \/ UNCHANGED pathVars
    PROVE  PathInv' /\ audible' = audible
<1> USE DEF PathInv, PathTypeOK, source, gains, mixer, hearing,
            loop
<1>1. CASE CallbackBegin
  <2>1. UNCHANGED <<state, pipe, ffmpeg, avail, level, configured, gainOn, found, tpc, left,
                    mixing, idle, primed, audible, remembered>>
    BY <1>1 DEF CallbackBegin
  <2>2. CASE gainOn
    <3>1. cb' = "reading" /\ UNCHANGED <<called, heard, silence>>
      BY <1>1, <2>2 DEF CallbackBegin
    <3> QED
      BY <2>1, <3>1
  <2>3. CASE ~gainOn
    <3>1. called' = TRUE /\ heard' = TRUE /\ silence' = 0 /\ UNCHANGED cb
      BY <1>1, <2>3 DEF CallbackBegin, Counted
    <3>2. silence' \in 0 .. InaudibleTicks
      BY <3>1, SizesAssumption
    <3> QED
      BY <2>1, <3>1, <3>2
  <2> QED
    BY <2>2, <2>3
<1>2. CASE CallbackEnd
  BY <1>2, SizesAssumption DEF CallbackEnd, Counted
<1>3. CASE ApplyConfig
  BY <1>3, SizesAssumption DEF ApplyConfig, PlaySource
<1>4. CASE FfmpegWrites
  BY <1>4, SizesAssumption DEF FfmpegWrites
<1>5. CASE FfmpegDies
  BY <1>5 DEF FfmpegDies
<1>6. CASE GameTurns
  BY <1>6 DEF GameTurns
<1>7. CASE UNCHANGED pathVars
  BY <1>7 DEF pathVars
<1> QED
  BY <1>1, <1>2, <1>3, <1>4, <1>5, <1>6, <1>7 DEF Callback

LEMMA StepIsHeard ==
    ASSUME PathInv, [PathNext]_pathVars
    PROVE  /\ PathInv'
           /\ audible /\ ~audible' => heard /\ silence' = InaudibleTicks
  BY MovingKeepsPath, ListenKeepsPath, OthersKeepPath DEF PathNext, PathTick

\* PathInv is an inductive invariant.
THEOREM PathInvariant == PathSpec => []PathInv
  BY InitPath, StepIsHeard, PTL DEF PathSpec

\* The source is told that it cannot be heard only when the mixer did call for it
\* and has not for kInaudibleTicks ticks (dsp_control_loop.cpp, ControlLoop::run,
\* the audibility edge), whatever is played, stopped, or configured meanwhile.
THEOREM SilenceIsReal == PathSpec => NoPhantomSilence
<1>1. PathInv /\ [PathNext]_pathVars
        => [audible /\ ~audible' => heard /\ silence' = InaudibleTicks]_pathVars
  BY StepIsHeard
<1> QED
  BY <1>1, PathInvariant, PTL DEF PathSpec, NoPhantomSilence
=============================================================================
