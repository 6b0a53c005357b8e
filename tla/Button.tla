------------------------------- MODULE Button -------------------------------
(***************************************************************************)
(* The button (src/app_button.c) and the resets it asks for                *)
(* (src/app_utility.c).                                                    *)
(*                                                                         *)
(* The main loop polls and debounces the button, counts clicks that follow *)
(* one another within a second, and on release tells a click from a long   *)
(* press.  Five clicks ask for a factory reset, a long press for a restart *)
(* and a click for a report; each of them runs later, from a timer.        *)
(* Time passes in seconds; what the handler does to the LED and to the     *)
(* poll rate is left out.                                                  *)
(***************************************************************************)
EXTENDS Integers

CONSTANTS
  Polls,       \* DEBOUNCE_BUTTON (16)
  Clicks,      \* COUNT_FACTORY_RESET (5)
  CounterSize, \* values of the 6 bits of counter (64)
  Long,        \* seconds of a long press (5)
  Full,        \* seconds of the press meant for a full reset (10)
  Report,      \* seconds until a forced report (5)
  Wrap,        \* seconds after which the 32-bit clock repeats (268)
  MaxHold,     \* bound on the seconds a user holds the button
  Bounce       \* whether the contact may bounce

ASSUME ButtonAssumption ==
  /\ Polls \in Nat /\ Polls >= 2
  /\ Clicks \in Nat \ {0} /\ CounterSize \in Nat /\ CounterSize > Clicks
  /\ Long \in Nat \ {0} /\ Full \in Nat /\ Full > Long
  /\ Report \in Nat \ {0}
  /\ Wrap \in Nat /\ Wrap > Full + 1
  /\ MaxHold \in Nat
  /\ Bounce \in BOOLEAN

VARIABLES
  closed,    \* the contact of the button is closed
  deb,       \* button.debounce
  pressed,   \* button.pressed
  counter,   \* button.counter
  sincePress,   \* seconds since pressed_time, as the 32-bit clock tells them
  sinceRelease, \* seconds since released_time, likewise
  due,       \* due[k]: seconds until the timer of k runs, or Never
  held,      \* history: seconds since the user pressed the button
  disturbed, \* history: the contact bounced since then, or the device restarted
  presses,   \* history: presses of the current series, at most Clicks
  bounced    \* history: the contact bounced in the current series

vars == <<closed, deb, pressed, counter, sincePress, sinceRelease, due, held, disturbed, presses,
          bounced>>

Kinds == {"restart", "factory", "full", "report"}
Never == -1
Settled == deb = IF closed THEN Polls ELSE 1
CountPress(n) == IF n < Clicks THEN n + 1 ELSE n

(***************************************************************************)
(* The user and the clock.                                                 *)
(***************************************************************************)
User ==
  /\ Settled
  /\ closed' = ~closed
  /\ IF closed'
     THEN presses' = CountPress(presses) /\ held' = 0 /\ disturbed' = FALSE
     ELSE UNCHANGED <<presses, held, disturbed>>
  /\ UNCHANGED <<deb, pressed, counter, sincePress, sinceRelease, due, bounced>>

\* A held contact opens for a moment, a released one closes again before it
\* is debounced.
Bounces ==
  /\ Bounce
  /\ closed' = ~closed
  /\ IF closed THEN deb = Polls ELSE pressed /\ deb > 1
  /\ bounced' = TRUE /\ disturbed' = TRUE
  /\ UNCHANGED <<deb, pressed, counter, sincePress, sinceRelease, due, held, presses>>

\* The main loop polls many times a second.
PolledOut == Settled /\ ~(~pressed /\ sinceRelease > 1 /\ counter # 0)

\* A second passes; timers that are due run before.
Tick ==
  /\ PolledOut
  /\ \A k \in Kinds : due[k] # 0
  /\ closed => held < MaxHold
  /\ due' = [k \in Kinds |-> IF due[k] = Never THEN Never ELSE due[k] - 1]
  /\ sincePress' = (sincePress + 1) % Wrap
  /\ sinceRelease' = (sinceRelease + 1) % Wrap
  /\ held' = IF closed THEN held + 1 ELSE held
  /\ UNCHANGED <<closed, deb, pressed, counter, disturbed, presses, bounced>>

(***************************************************************************)
(* button_handler.                                                         *)
(***************************************************************************)
Debounced ==
  IF closed THEN (IF deb = Polls THEN Polls ELSE deb + 1)
  ELSE IF deb = 1 THEN 1 ELSE deb - 1

\* Mutant: the clicks outgrow their bits.
CountedOn == IF sinceRelease <= 1 THEN counter + 1 ELSE 1
\* The clicks after a press has been debounced.
Counted ==
  IF sinceRelease <= 1 THEN (counter + 1) % CounterSize ELSE 1

Ask(k, seconds) == due' = [due EXCEPT ![k] = seconds]

\* Mutants: the level counts, not the edge; the time of the press is not taken.
PressFoundAgain ==
  /\ closed /\ deb >= Polls - 1
  /\ deb' = Polls
  /\ pressed' = TRUE /\ sincePress' = 0
  /\ counter' = Counted
  /\ presses' = IF sinceRelease <= 1 THEN presses ELSE 1
  /\ bounced' = (bounced /\ sinceRelease <= 1)
  /\ UNCHANGED <<closed, sinceRelease, due, held, disturbed>>
PressFoundUntimed ==
  /\ closed /\ deb = Polls - 1
  /\ deb' = Polls
  /\ pressed' = TRUE /\ UNCHANGED sincePress
  /\ counter' = Counted
  /\ presses' = IF sinceRelease <= 1 THEN presses ELSE 1
  /\ bounced' = (bounced /\ sinceRelease <= 1)
  /\ UNCHANGED <<closed, sinceRelease, due, held, disturbed>>
PressFound ==
  /\ closed /\ deb = Polls - 1
  /\ deb' = Polls
  /\ pressed' = TRUE /\ sincePress' = 0
  /\ counter' = Counted
  /\ presses' = IF sinceRelease <= 1 THEN presses ELSE 1
  /\ bounced' = (bounced /\ sinceRelease <= 1)
  /\ UNCHANGED <<closed, sinceRelease, due, held, disturbed>>

\* Mutant: the restart leaves time for a blink.
ReleaseAsksLate ==
  IF sincePress > Full THEN Ask("full", 1)
  ELSE IF sincePress > Long THEN Ask("restart", 3)
  ELSE IF due["report"] = Never THEN Ask("report", Report)
  ELSE UNCHANGED due
\* What a release asks for.
ReleaseAsks ==
  IF sincePress > Full THEN Ask("full", 1)
  ELSE IF sincePress > Long THEN Ask("restart", 1)
  ELSE IF due["report"] = Never THEN Ask("report", Report)
  ELSE UNCHANGED due

ReleaseFound ==
  /\ ~closed /\ deb = 2 /\ pressed
  /\ deb' = 1
  /\ pressed' = FALSE
  /\ sinceRelease' = 0
  /\ ReleaseAsks
  /\ UNCHANGED <<closed, counter, sincePress, held, disturbed, presses, bounced>>

\* Mutant: only a series that earned a factory reset is forgotten.
SeriesOverIfUsed ==
  /\ sinceRelease > 1
  /\ counter' = IF counter = Clicks THEN 0 ELSE counter
  /\ presses' = IF closed THEN 1 ELSE 0
  /\ bounced' = FALSE
  /\ IF counter = Clicks THEN Ask("factory", 1) ELSE UNCHANGED due
\* A second after the last release the series is over.
SeriesOver ==
  /\ sinceRelease > 1
  /\ counter' = 0 /\ presses' = IF closed THEN 1 ELSE 0
  /\ bounced' = FALSE
  /\ IF counter = Clicks THEN Ask("factory", 1) ELSE UNCHANGED due

\* Any other poll.
Poll ==
  /\ ~(closed /\ deb = Polls - 1)
  /\ ~(~closed /\ deb = 2 /\ pressed)
  /\ deb' = Debounced
  /\ \/ ~pressed /\ SeriesOver
     \/ (pressed \/ sinceRelease <= 1) /\ UNCHANGED <<counter, presses, bounced, due>>
  /\ UNCHANGED <<closed, pressed, sincePress, sinceRelease, held, disturbed>>

ButtonHandler == PressFound \/ ReleaseFound \/ Poll

(***************************************************************************)
(* The timers.                                                             *)
(***************************************************************************)
\* init_button, after delayedMcuResetCb or delayedFactoryResetCb.
Reset ==
  /\ deb' = 1 /\ pressed' = FALSE /\ counter' = 0
  /\ sinceRelease' = 0 /\ sincePress' = 0
  /\ due' = [k \in Kinds |-> Never]
  /\ presses' = IF closed THEN 1 ELSE 0
  /\ bounced' = FALSE /\ disturbed' = TRUE
  /\ UNCHANGED <<closed, held>>

McuReset     == due["restart"] = 0 /\ Reset
FactoryReset == due["factory"] = 0 /\ Reset

\* delayedFullResetCb does nothing; forcedReportCb sends the reports.
OtherTimer ==
  \E k \in {"full", "report"} :
    /\ due[k] = 0
    /\ Ask(k, Never)
    /\ UNCHANGED <<closed, deb, pressed, counter, sincePress, sinceRelease, held, disturbed,
                   presses, bounced>>

Init ==
  /\ closed = FALSE /\ deb = 1 /\ pressed = FALSE /\ counter = 0
  /\ sincePress = 0 /\ sinceRelease = 0
  /\ due = [k \in Kinds |-> Never]
  /\ held = 0 /\ disturbed = FALSE /\ presses = 0 /\ bounced = FALSE

Next == User \/ Bounces \/ Tick \/ ButtonHandler \/ McuReset \/ FactoryReset \/ OtherTimer

Spec == Init /\ [][Next]_vars
FairSpec ==
  /\ Spec
  /\ WF_vars(ButtonHandler) /\ WF_vars(Tick)
  /\ WF_vars(McuReset) /\ WF_vars(FactoryReset) /\ WF_vars(OtherTimer)

(***************************************************************************)
(* Properties.                                                             *)
(***************************************************************************)
\* Type correctness of button_t and of the timers.
TypeOK ==
  /\ closed \in BOOLEAN /\ pressed \in BOOLEAN
  /\ deb \in 1 .. Polls
  /\ counter \in 0 .. CounterSize - 1
  /\ sincePress \in 0 .. Wrap - 1 /\ sinceRelease \in 0 .. Wrap - 1
  /\ due \in [Kinds -> Never .. Report]
  /\ held \in 0 .. MaxHold /\ presses \in 0 .. Clicks
  /\ bounced \in BOOLEAN /\ disturbed \in BOOLEAN

\* A factory reset is asked for only after Clicks presses that followed one
\* another, unless the contact bounced meanwhile (FactoryResetByPresses).
FactoryResetEarned ==
  [][(due["factory"] = Never /\ due'["factory"] # Never)
       => presses = Clicks \/ bounced]_vars

\* Who holds the button for more than Long and at most Full seconds restarts
\* the device, unless the contact bounced meanwhile or the device had just
\* restarted (LongHoldRestarts); and whatever bounces, restarts and clock make
\* of it, a shorter press never does.
LongPressRestarts ==
  [][/\ (ReleaseFound /\ held > Long /\ held <= Full /\ ~disturbed) => due'["restart"] # Never
     /\ (due["restart"] = Never /\ due'["restart"] # Never) => held > Long]_vars

\* Clicks that end in a long press restart the device and nothing else: the
\* factory reset they also earn never overtakes the restart.
RestartComesFirst ==
  [][FactoryReset => due["restart"] = Never]_vars

\* Left alone, the button lets the device sleep again (button_idle).
ButtonIdle == deb \in {1, Polls} /\ ~pressed /\ counter = 0
LeftAloneSleeps == (<>[]~closed) => (<>[]ButtonIdle)

(***************************************************************************)
(* What the documentation promises and the code does not do.               *)
(***************************************************************************)
\* It takes five presses to leave the network (README.md:39): violated because
\* bounces inside a press count as clicks.
FactoryResetByPresses ==
  [][(due["factory"] = Never /\ due'["factory"] # Never) => presses = Clicks]_vars

\* A press of more than five seconds restarts the module (README.md:40):
\* violated because a bounce in it starts the time again (app_button.c:24).
LongHoldRestarts ==
  [][(ReleaseFound /\ held > Long /\ held <= Full) => due'["restart"] # Never]_vars

\* The same of every such press: violated because one of more than ten seconds
\* does not even without bounces.
AnyLongPressRestarts ==
  [][(ReleaseFound /\ held > Long /\ ~disturbed) => due'["restart"] # Never]_vars
=============================================================================
