---------------------------- MODULE ButtonProofs ----------------------------
(***************************************************************************)
(* Proofs about Button: types, and what a reset takes, for every length of *)
(* the debouncing, every number of clicks, every pair of press times and a *)
(* clock that repeats after any time.                                      *)
(***************************************************************************)
EXTENDS Button, TLAPS

USE DEF Never

\* Without a bounce, what a series has counted lies behind the presses of the
\* user until those suffice for a factory reset.
Uncounted == IF closed /\ ~pressed THEN 1 ELSE 0
SeriesInv ==
  ~bounced =>
    /\ (closed /\ deb < Polls) => ~pressed
    /\ (presses < Clicks) => counter + Uncounted <= presses

\* A restart is asked for when a press ends and runs a second later, before
\* the series can be over; a factory reset asked for before runs before a
\* press can be long.
TimersInv ==
  /\ due["restart"] # Never => /\ due["factory"] = Never
                               /\ sinceRelease + due["restart"] <= 1
  /\ due["factory"] <= 1
  /\ (pressed /\ due["factory"] # Never) => sincePress + due["factory"] <= 1

\* The clock never shows more than the user held the button, and shows it
\* right when nothing disturbed the press and the clock has not repeated.
HeldInv ==
  /\ pressed => sincePress <= held
  /\ ~disturbed => /\ (pressed /\ held < Wrap) => sincePress = held
                   /\ (closed /\ deb < Polls) => held = 0

ButtonInv ==
  /\ TypeOK
  /\ deb = 1 => ~pressed
  /\ HeldInv
  /\ SeriesInv
  /\ TimersInv

\* The 32-bit clock, and the 6 bits of the counter.
LEMMA Modulo ==
  ASSUME NEW x \in Nat, NEW w \in Nat \ {0}
  PROVE  /\ x % w \in 0 .. w - 1
         /\ x < w => x % w = x
         /\ x = w => x % w = 0
OBVIOUS

LEMMA ButtonInit == Init => ButtonInv
<1> SUFFICES ASSUME Init
             PROVE  ButtonInv
  OBVIOUS
<1>1. closed \in BOOLEAN /\ pressed \in BOOLEAN /\ bounced \in BOOLEAN /\ disturbed \in BOOLEAN
  BY Zenon DEF Init
<1>2. due \in [Kinds -> Never .. Report]
  BY ButtonAssumption DEF Init
<1>3. due["restart"] = Never /\ due["factory"] = Never
  BY DEF Init, Kinds
<1>4. QED
  BY ButtonAssumption, <1>1, <1>2, <1>3
     DEF Init, ButtonInv, TypeOK, HeldInv, SeriesInv, TimersInv, Uncounted

\* One step per action of Next.
LEMMA ButtonStep == ButtonInv /\ [Next]_vars => ButtonInv'
<1> SUFFICES ASSUME ButtonInv, [Next]_vars
             PROVE  ButtonInv'
  OBVIOUS
<1> USE ButtonAssumption DEF ButtonInv, TypeOK, Kinds
<1>1. CASE User
  <2>1. TypeOK'
    <3>1. closed' \in BOOLEAN /\ disturbed' \in BOOLEAN
      BY <1>1, Zenon DEF User
    <3>2. presses' \in 0 .. Clicks /\ held' \in 0 .. MaxHold
      BY <1>1 DEF User, CountPress
    <3>3. QED
      BY <1>1, <3>1, <3>2 DEF User
  <2>2. SeriesInv'
    BY <1>1 DEF User, CountPress, Settled, SeriesInv, Uncounted
  <2>3. HeldInv'
    BY <1>1 DEF User, Settled, HeldInv
  <2>4. QED
    BY <1>1, <2>1, <2>2, <2>3 DEF User, TimersInv
<1>2. CASE Bounces
  BY <1>2 DEF Bounces, HeldInv, SeriesInv, TimersInv
<1>3. CASE Tick
  <2>1. /\ sincePress' \in 0 .. Wrap - 1 /\ sinceRelease' \in 0 .. Wrap - 1
        /\ sincePress + 1 < Wrap => sincePress' = sincePress + 1
        /\ sinceRelease + 1 < Wrap => sinceRelease' = sinceRelease + 1
    <3>1. sincePress + 1 \in Nat /\ sinceRelease + 1 \in Nat /\ Wrap \in Nat \ {0}
      OBVIOUS
    <3>2. /\ (sincePress + 1) % Wrap \in 0 .. Wrap - 1
          /\ sincePress + 1 < Wrap => (sincePress + 1) % Wrap = sincePress + 1
      BY <3>1, Modulo, Zenon
    <3>3. /\ (sinceRelease + 1) % Wrap \in 0 .. Wrap - 1
          /\ sinceRelease + 1 < Wrap => (sinceRelease + 1) % Wrap = sinceRelease + 1
      BY <3>1, Modulo, Zenon
    <3>4. QED
      BY <1>3, <3>2, <3>3, Zenon DEF Tick
  <2>wrap. sincePress + 1 = Wrap => sincePress' = 0
    <3>1. sincePress + 1 \in Nat /\ Wrap \in Nat \ {0}
      OBVIOUS
    <3>2. sincePress + 1 = Wrap => (sincePress + 1) % Wrap = 0
      BY <3>1, Modulo, Zenon
    <3>3. QED
      BY <1>3, <3>2, Zenon DEF Tick
  <2>2. /\ due' \in [Kinds -> Never .. Report]
        /\ \A k \in Kinds :
             /\ due[k] = Never => due'[k] = Never
             /\ due[k] # Never => due[k] >= 1 /\ due'[k] = due[k] - 1
    BY <1>3 DEF Tick
  <2>3. TypeOK'
    BY <1>3, <2>1, <2>2 DEF Tick
  <2>4. HeldInv'
    <3>1. /\ sincePress' <= sincePress + 1
          /\ pressed => closed
          /\ closed => deb = Polls
      BY <1>3, <2>1, <2>wrap DEF Tick, PolledOut, Settled
    <3>2. held' = IF closed THEN held + 1 ELSE held
      BY <1>3 DEF Tick
    <3>3. QED
      BY <1>3, <2>1, <3>1, <3>2 DEF Tick, HeldInv
  <2>5. SeriesInv'
    BY <1>3 DEF Tick, SeriesInv, Uncounted
  <2>6. TimersInv'
    BY <1>3, <2>1, <2>2 DEF Tick, TimersInv
  <2>7. QED
    BY <1>3, <2>3, <2>4, <2>5, <2>6 DEF Tick
<1>4. CASE PressFound
  <2>1. /\ counter' \in 0 .. CounterSize - 1
        /\ sinceRelease > 1 => counter' = 1
        /\ (sinceRelease <= 1 /\ counter + 1 < CounterSize) => counter' = counter + 1
    <3>1. counter + 1 \in Nat /\ CounterSize \in Nat \ {0} /\ 1 \in 0 .. CounterSize - 1
      OBVIOUS
    <3>2. /\ (counter + 1) % CounterSize \in 0 .. CounterSize - 1
          /\ counter + 1 < CounterSize => (counter + 1) % CounterSize = counter + 1
      BY <3>1, Modulo, Zenon
    <3>3. counter' = IF sinceRelease <= 1 THEN (counter + 1) % CounterSize ELSE 1
      BY <1>4 DEF PressFound, Counted
    <3>4. QED
      BY <3>1, <3>2, <3>3
  <2>2. TypeOK'
    BY <1>4, <2>1 DEF PressFound
  <2>3. SeriesInv'
    BY <1>4, <2>1 DEF PressFound, SeriesInv, Uncounted
  <2>4. TimersInv'
    BY <1>4 DEF PressFound, TimersInv
  <2>5. HeldInv'
    BY <1>4 DEF PressFound, HeldInv
  <2>6. QED
    BY <1>4, <2>2, <2>3, <2>4, <2>5 DEF PressFound
<1>5. CASE ReleaseFound
  <2>1. /\ due' \in [Kinds -> Never .. Report]
        /\ due'["factory"] = due["factory"]
        /\ \/ due'["restart"] = due["restart"]
           \/ due'["restart"] = 1 /\ sincePress > Long
    BY <1>5 DEF ReleaseFound, ReleaseAsks, Ask
  <2>2. TypeOK'
    <3>1. pressed' \in BOOLEAN
      BY <1>5, Zenon DEF ReleaseFound
    <3>2. QED
      BY <1>5, <2>1, <3>1 DEF ReleaseFound
  <2>3. SeriesInv'
    BY <1>5 DEF ReleaseFound, SeriesInv, Uncounted
  <2>4. TimersInv'
    BY <1>5, <2>1 DEF ReleaseFound, TimersInv
  <2>5. HeldInv'
    BY <1>5 DEF ReleaseFound, HeldInv
  <2>6. QED
    BY <1>5, <2>2, <2>3, <2>4, <2>5 DEF ReleaseFound
<1>6. CASE Poll
  <2>1. /\ deb' \in 1 .. Polls
        /\ deb' = 1 => ~pressed
        /\ (closed /\ deb' < Polls) => deb < Polls
    BY <1>6 DEF Poll, Debounced
  <2>held. HeldInv'
    BY <1>6, <2>1 DEF Poll, HeldInv
  <2>2. CASE ~pressed /\ SeriesOver
    <3>1. /\ due' \in [Kinds -> Never .. Report]
          /\ due'["restart"] = due["restart"]
          /\ due'["factory"] \in {due["factory"], 1}
      BY <2>2 DEF SeriesOver, Ask
    <3>2. TypeOK'
      <4>1. bounced' \in BOOLEAN
        BY <2>2, Zenon DEF SeriesOver
      <4>2. QED
        BY <1>6, <2>1, <2>2, <3>1, <4>1 DEF Poll, SeriesOver
    <3>3. SeriesInv'
      BY <1>6, <2>2 DEF Poll, SeriesOver, SeriesInv, Uncounted
    <3>4. TimersInv'
      BY <1>6, <2>2, <3>1 DEF Poll, SeriesOver, TimersInv
    <3>5. QED
      BY <1>6, <2>1, <2>2, <2>held, <3>2, <3>3, <3>4 DEF Poll
  <2>3. CASE UNCHANGED <<counter, presses, bounced, due>>
    <3>1. SeriesInv'
      BY <1>6, <2>1, <2>3 DEF Poll, SeriesInv, Uncounted
    <3>2. QED
      BY <1>6, <2>1, <2>3, <2>held, <3>1 DEF Poll, TimersInv
  <2>4. QED
    BY <1>6, <2>2, <2>3 DEF Poll
<1>7. CASE Reset
  <2>1. pressed' \in BOOLEAN /\ bounced' \in BOOLEAN /\ disturbed' \in BOOLEAN
    BY <1>7, Zenon DEF Reset
  <2>2. due' \in [Kinds -> Never .. Report]
    BY <1>7 DEF Reset
  <2>3. due'["restart"] = Never /\ due'["factory"] = Never
    BY <1>7 DEF Reset
  <2>4. QED
    BY <1>7, <2>1, <2>2, <2>3 DEF Reset, HeldInv, SeriesInv, TimersInv, Uncounted
<1>8. CASE OtherTimer
  <2>1. /\ due' \in [Kinds -> Never .. Report]
        /\ due'["restart"] = due["restart"] /\ due'["factory"] = due["factory"]
    BY <1>8 DEF OtherTimer, Ask
  <2>2. QED
    BY <1>8, <2>1 DEF OtherTimer, HeldInv, SeriesInv, TimersInv, Uncounted
<1>9. CASE UNCHANGED vars
  BY <1>9 DEF vars, HeldInv, SeriesInv, TimersInv, Uncounted
<1>10. QED
  BY <1>1, <1>2, <1>3, <1>4, <1>5, <1>6, <1>7, <1>8, <1>9
     DEF Next, ButtonHandler, McuReset, FactoryReset

LEMMA ButtonAlways == Spec => []ButtonInv
BY ButtonInit, ButtonStep, PTL DEF Spec

\* Types hold: debouncing, the 6 bits of the clicks and the timers stay within
\* their ranges.
THEOREM ButtonTypes == Spec => []TypeOK
<1>1. ButtonInv => TypeOK
  BY DEF ButtonInv
<1>2. QED
  BY <1>1, ButtonAlways, PTL

\* A factory reset is asked for only by a series of Clicks presses, unless the
\* contact bounced: button_handler never counts a click twice by itself.
THEOREM FactoryResetsEarned == Spec => FactoryResetEarned
<1>1. ButtonInv /\ [Next]_vars =>
        [(due["factory"] = Never /\ due'["factory"] # Never)
           => presses = Clicks \/ bounced]_vars
  <2> SUFFICES ASSUME ButtonInv, Next, due["factory"] = Never, due'["factory"] # Never
               PROVE  presses = Clicks \/ bounced
    OBVIOUS
  <2> USE ButtonAssumption DEF ButtonInv, TypeOK, Kinds
  <2>1. Poll /\ SeriesOver /\ counter = Clicks
    BY DEF Next, User, Bounces, Tick, ButtonHandler, PressFound, ReleaseFound,
           ReleaseAsks, Poll, SeriesOver, Ask, McuReset, FactoryReset, Reset, OtherTimer
  <2>2. QED
    BY <2>1 DEF SeriesInv, Uncounted
<1>2. QED
  BY <1>1, ButtonAlways, PTL DEF Spec, FactoryResetEarned

\* Who holds the button for more than Long and at most Full seconds restarts
\* the device, if nothing disturbs the press; a shorter press never does,
\* whatever bounces: the 32-bit clock of button_handler never shows more than
\* the user held the button (app_button.c:24, 46).
THEOREM LongPressesRestart == Spec => LongPressRestarts
<1>1. ButtonInv /\ [Next]_vars =>
        [/\ (ReleaseFound /\ held > Long /\ held <= Full /\ ~disturbed)
               => due'["restart"] # Never
         /\ (due["restart"] = Never /\ due'["restart"] # Never) => held > Long]_vars
  <2> USE ButtonAssumption DEF ButtonInv, TypeOK, Kinds
  <2>1. ASSUME ButtonInv, ReleaseFound, held > Long, held <= Full, ~disturbed
        PROVE  due'["restart"] # Never
    BY <2>1 DEF HeldInv, ReleaseFound, ReleaseAsks, Ask
  <2>2. ASSUME ButtonInv, Next, due["restart"] = Never, due'["restart"] # Never
        PROVE  held > Long
    <3>1. ReleaseFound /\ sincePress > Long
      BY <2>2 DEF Next, User, Bounces, Tick, ButtonHandler, PressFound, ReleaseFound,
             ReleaseAsks, Poll, SeriesOver, Ask, McuReset, FactoryReset, Reset, OtherTimer
    <3>2. QED
      BY <2>2, <3>1 DEF ReleaseFound, HeldInv
  <2>3. QED
    BY <2>1, <2>2
<1>2. QED
  BY <1>1, ButtonAlways, PTL DEF Spec, LongPressRestarts

\* The factory reset that a series ending in a long press has earned never
\* runs before the restart.
THEOREM RestartsComeFirst == Spec => RestartComesFirst
<1>1. ButtonInv /\ [Next]_vars => [FactoryReset => due["restart"] = Never]_vars
  BY DEF ButtonInv, TimersInv, FactoryReset
<1>2. QED
  BY <1>1, ButtonAlways, PTL DEF Spec, RestartComesFirst
=============================================================================
