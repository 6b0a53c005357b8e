-------------------------- MODULE ReportingProofs --------------------------
(***************************************************************************)
(* Proofs about Reporting, for any entries, intervals and times: types,    *)
(* and, when a command configures one attribute at a time, that no timer   *)
(* keeps an interval of the past, that readings are reported, how long an  *)
(* entry may be silent, and how far apart its reports are.                 *)
(***************************************************************************)
EXTENDS Reporting, TLAPS

\* Commands that configure one attribute.
OneAtATime == MaxAttrs <= 1

\* After no number of units does the clock show the time it started from.
NeverInStep == \A n \in 1 .. MaxPosted : (n * UnitMs) % WrapMs # 0

\* An entry's timers run on its intervals.
Effective(r) ==
  /\ Runs(r.timerReportMinEvt) => r.timerReportMinEvt.period = r.min
  /\ Runs(r.timerReportMaxEvt) => r.timerReportMaxEvt.period = r.max

\* A reading: no minimum interval, and a maximum.
Reading(r) == r.min = 0 /\ r.max \notin {0, Disabled}

\* While the timer of the maximum interval runs, it ends in time; without it
\* nobody has waited.  Not so where the clock may hide a maximum interval.
InTime(r) ==
  NeverInStep /\ Reading(r) =>
    IF Runs(r.timerReportMaxEvt) THEN r.since + r.timerReportMaxEvt.left <= r.max
    ELSE r.since = 0

\* What holds of an entry, besides its type.
Sound(r) ==
  /\ Effective(r) /\ InTime(r)
  /\ r.since <= r.posted
  /\ r.stale => r.changed

SoundEntries == \A e \in Entries : Sound(app[e])

(***************************************************************************)
(* The functions on entries.                                               *)
(***************************************************************************)
LEMMA TimerTypes ==
  /\ Null \in Timer /\ ~Runs(Null)
  /\ \A i \in Nat : Schedule(i) \in Timer /\ Schedule(i).left = i /\ Schedule(i).period = i
                    /\ (i # 0 => Runs(Schedule(i)))
  /\ \A t \in Timer : Restarted(t) \in Timer
BY DEF Timer, Null, Schedule, Restarted, Runs

LEMMA Updated ==
  ASSUME NEW r \in Entry, NEW c \in BOOLEAN, NEW s \in BOOLEAN, NEW g \in 0 .. 2
  PROVE  [r EXCEPT !.changed = c, !.stale = s, !.since = 0, !.got = g] \in Entry
<1>1. 0 \in 0 .. MaxSince
  BY ReportingAssumption
<1>2. QED
  BY <1>1 DEF Entry

LEMMA ReportAttrKeeps ==
  ASSUME NEW r \in Entry
  PROVE  /\ ReportAttr(r) \in Entry
         /\ ReportAttr(r).since = 0
         /\ ReportAttr(r).changed = (r.changed /\ ~bound)
         /\ ReportAttr(r).timerReportMinEvt = r.timerReportMinEvt
         /\ ReportAttr(r).timerReportMaxEvt = r.timerReportMaxEvt
         /\ ReportAttr(r).max = r.max /\ ReportAttr(r).min = r.min
         /\ Sound(r) => Sound(ReportAttr(r))
<1> DEFINE q == ReportAttr(r)
<1>1. /\ q.changed = (r.changed /\ ~bound)
      /\ q.stale = (r.stale /\ ~bound)
  BY Zenon DEF ReportAttr, Entry
<1>2. /\ q.min = r.min /\ q.max = r.max
      /\ q.timerReportMinEvt = r.timerReportMinEvt
      /\ q.timerReportMaxEvt = r.timerReportMaxEvt
      /\ q.posted = r.posted
      /\ q.since = 0
  BY DEF ReportAttr, Entry
<1>3. q \in Entry
  <2>1. (r.changed /\ ~bound) \in BOOLEAN /\ (r.stale /\ ~bound) \in BOOLEAN
    BY Zenon
  <2>2. (IF ~(joined /\ bound) THEN 0 ELSE IF r.got = 1 THEN 2 ELSE 1) \in 0 .. 2
    OBVIOUS
  <2>3. QED
    BY <2>1, <2>2, Updated, Zenon DEF ReportAttr
<1>4. ASSUME Sound(r) PROVE Sound(q)
  <2>1. q.stale => q.changed
    BY <1>1, <1>4, Zenon DEF Sound
  <2>2. r.posted \in Nat
    BY DEF Entry
  <2>3. /\ Effective(q) /\ q.since <= q.posted
    BY <1>2, <1>4, <2>2 DEF Sound, Effective
  <2>4. InTime(q)
    BY <1>2, <1>4, <2>2 DEF Sound, InTime, Reading, Entry, Timer
  <2>5. QED
    BY <2>1, <2>3, <2>4 DEF Sound
<1>5. QED
  BY <1>1, <1>2, <1>3, <1>4

\* A report just posted, and the timers set for a sound entry.
LEMMA PostedNow ==
  ASSUME NEW r \in Entry, r.since = 0
  PROVE  LET q == [r EXCEPT !.posted = 0]
         IN  q \in Entry /\ q.changed = r.changed /\ (Sound(r) => Sound(q))
<1>1. 0 \in 0 .. MaxPosted
  BY ReportingAssumption
<1>2. [r EXCEPT !.posted = 0] \in Entry
  BY <1>1 DEF Entry
<1>3. QED
  BY <1>2 DEF Entry, Timer, Sound, Effective, InTime, Reading

LEMMA MinTimerSet ==
  ASSUME NEW r \in Entry, NEW t \in Timer, Runs(t) => t.period = r.min
  PROVE  LET q == [r EXCEPT !.timerReportMinEvt = t]
         IN  q \in Entry /\ q.changed = r.changed /\ (Sound(r) => Sound(q))
BY DEF Entry, Sound, Effective, InTime, Reading

LEMMA MaxTimerSet ==
  ASSUME NEW r \in Entry, NEW t \in Timer, Runs(t) => t.period = r.max,
         (NeverInStep /\ Reading(r)) => Runs(t) /\ r.since + t.left <= r.max
  PROVE  LET q == [r EXCEPT !.timerReportMaxEvt = t]
         IN  q \in Entry /\ q.changed = r.changed /\ (Sound(r) => Sound(q))
BY DEF Entry, Sound, Effective, InTime, Reading

LEMMA MinReportKeeps ==
  ASSUME NEW r \in Entry
  PROVE  /\ MinReport(r) \in Entry /\ (Sound(r) => Sound(MinReport(r)))
         /\ MinReport(r).min = r.min
         /\ MinReport(r).timerReportMinEvt = r.timerReportMinEvt
<1> DEFINE q == ReportAttr(r)
<1> DEFINE p == [q EXCEPT !.posted = 0]
<1>1. /\ q \in Entry /\ q.since = 0 /\ (Sound(r) => Sound(q))
      /\ q.min = r.min /\ q.timerReportMinEvt = r.timerReportMinEvt
  BY ReportAttrKeeps, Zenon
<1> HIDE DEF q
<1>2. /\ p \in Entry /\ (Sound(q) => Sound(p))
      /\ p.min = q.min /\ p.timerReportMinEvt = q.timerReportMinEvt
  <2>1. p.min = q.min /\ p.timerReportMinEvt = q.timerReportMinEvt
    BY <1>1 DEF Entry
  <2>2. QED
    BY <1>1, <2>1, PostedNow, Zenon
<1>3. QED
  BY <1>1, <1>2, Zenon DEF MinReport, q

LEMMA NoMinLimitKeeps ==
  ASSUME NEW r \in Entry
  PROVE  /\ NoMinLimit(r) \in Entry /\ (Sound(r) => Sound(NoMinLimit(r)))
         /\ NoMinLimit(r).min = r.min /\ NoMinLimit(r).max = r.max
         /\ (Reading(r) /\ r.changed /\ bound) => ~NoMinLimit(r).changed
         /\ (~r.changed) => NoMinLimit(r) = r
<1> DEFINE q == ReportAttr(r)
           p == [q EXCEPT !.posted = 0]
           t == IF r.max = 0 THEN p.timerReportMaxEvt ELSE Schedule(r.max)
           n == [p EXCEPT !.timerReportMaxEvt = t]
<1>1. /\ q \in Entry /\ q.since = 0 /\ q.changed = (r.changed /\ ~bound)
      /\ q.max = r.max /\ q.min = r.min /\ (Sound(r) => Sound(q))
  BY ReportAttrKeeps, Zenon
<1>2. n = [ReportAttr(r) EXCEPT
             !.posted = 0,
             !.timerReportMaxEvt = IF r.max = 0 THEN @ ELSE Schedule(r.max)]
  BY <1>1 DEF Entry
<1>3. p \in Entry /\ p.since = 0 /\ p.changed = q.changed /\ (Sound(q) => Sound(p))
      /\ p.max = r.max /\ p.min = r.min
  <2>1. p \in Entry /\ p.changed = q.changed /\ (Sound(q) => Sound(p))
    BY <1>1, PostedNow, Zenon
  <2>2. p.since = 0 /\ p.max = r.max /\ p.min = r.min
    BY <1>1 DEF Entry
  <2>3. QED
    BY <2>1, <2>2
<1> HIDE DEF q, p
<1>4. CASE r.max = 0
  <2>1. n = p
    BY <1>3, <1>4 DEF Entry
  <2>2. ~Reading(r)
    BY <1>4 DEF Reading
  <2>3. QED
    BY <1>1, <1>2, <1>3, <2>1, <2>2, Zenon DEF NoMinLimit
<1>5. CASE r.max # 0
  <2>1. t \in Timer /\ Runs(t) /\ t.period = p.max /\ p.since + t.left <= p.max
    BY <1>3, <1>5, TimerTypes DEF Entry
  <2>5. n.min = p.min /\ n.max = p.max
    BY <1>3 DEF Entry
  <2>2. n \in Entry /\ n.changed = p.changed /\ (Sound(p) => Sound(n))
    <3> HIDE DEF t
    <3>1. QED
      BY <1>3, <2>1, MaxTimerSet, Zenon
  <2>3. Reading(r) => r.max # Disabled /\ r.min = 0
    BY DEF Reading
  <2>4. QED
    BY <1>1, <1>2, <1>3, <2>2, <2>3, <2>5, Zenon DEF NoMinLimit
<1>6. QED
  BY <1>4, <1>5

LEMMA StartMinKeeps ==
  ASSUME NEW r \in Entry
  PROVE  /\ StartMin(r) \in Entry /\ (Sound(r) => Sound(StartMin(r)))
         /\ Reading(r) => StartMin(r) = r
<1>1. Schedule(r.min) \in Timer /\ Schedule(r.min).period = r.min
  BY TimerTypes DEF Entry
<1>2. LET q == [r EXCEPT !.timerReportMinEvt = Schedule(r.min)]
      IN  q \in Entry /\ (Sound(r) => Sound(q))
  BY <1>1, MinTimerSet, Zenon
<1>3. Reading(r) => r.min = 0
  BY DEF Reading
<1>4. QED
  BY <1>2, <1>3, Zenon DEF StartMin

LEMMA StartMaxKeeps ==
  ASSUME NEW r \in Entry
  PROVE  /\ StartMax(r) \in Entry /\ (Sound(r) => Sound(StartMax(r)))
         /\ Reading(r) => StartMax(r).changed = r.changed
         /\ (Reading(r) /\ ~Runs(r.timerReportMaxEvt)) => StartMax(r) # r
<1> DEFINE q == [r EXCEPT !.timerReportMaxEvt = Schedule(r.max)]
<1>1. CASE Runs(r.timerReportMaxEvt)
  BY <1>1, Zenon DEF StartMax
<1>2. CASE ~Runs(r.timerReportMaxEvt) /\ r.max = 0
  <2>1. StartMax(r) = MinReport(r) /\ ~Reading(r)
    BY <1>2, Zenon DEF StartMax, Reading
  <2>2. QED
    BY <2>1, MinReportKeeps, Zenon
<1>3. CASE ~Runs(r.timerReportMaxEvt) /\ r.max # 0 /\ r.min < r.max
  <2>1. /\ Schedule(r.max) \in Timer /\ Runs(Schedule(r.max))
        /\ Schedule(r.max).period = r.max /\ Schedule(r.max).left = r.max
    BY <1>3, TimerTypes DEF Entry
  <2>2. StartMax(r) = q
    BY <1>3, Zenon DEF StartMax
  <2>3. q.timerReportMaxEvt = Schedule(r.max)
    BY DEF Entry
  <2>4. q # r
    BY <1>3, <2>1, <2>3, Zenon
  <2>5. q \in Entry /\ q.changed = r.changed
    BY <2>1 DEF Entry
  <2>6. ASSUME Sound(r) PROVE Sound(q)
    <3>1. (NeverInStep /\ Reading(r)) => r.since + Schedule(r.max).left <= r.max
      BY <1>3, <2>1, <2>6 DEF Sound, InTime, Entry
    <3>2. QED
      BY <2>1, <2>6, <3>1, MaxTimerSet, Zenon
  <2>7. QED
    BY <2>2, <2>4, <2>5, <2>6, Zenon
<1>4. CASE ~Runs(r.timerReportMaxEvt) /\ r.max # 0 /\ ~(r.min < r.max)
  <2>1. StartMax(r) = r
    BY <1>4, Zenon DEF StartMax
  <2>2. ~Reading(r)
    BY <1>4 DEF Reading, Entry
  <2>3. QED
    BY <2>1, <2>2, Zenon
<1>5. QED
  BY <1>1, <1>2, <1>3, <1>4

LEMMA StartKeeps ==
  ASSUME NEW r \in Entry
  PROVE  /\ TimerStart(r) \in Entry /\ (Sound(r) => Sound(TimerStart(r)))
         /\ Reading(r) => TimerStart(r).changed = r.changed
         /\ (bound /\ Reading(r) /\ ~Runs(r.timerReportMaxEvt)) => TimerStart(r) # r
<1>1. /\ StartMin(r) \in Entry /\ (Sound(r) => Sound(StartMin(r)))
      /\ Reading(r) => StartMin(r) = r
  BY StartMinKeeps
<1>2. Reading(r) => r.max # Disabled /\ r.max # 0
  BY DEF Reading
<1>3. /\ StartMax(StartMin(r)) \in Entry /\ (Sound(r) => Sound(StartMax(StartMin(r))))
      /\ Reading(r) => StartMax(StartMin(r)).changed = r.changed
      /\ (Reading(r) /\ ~Runs(r.timerReportMaxEvt)) => StartMax(StartMin(r)) # r
  BY <1>1, StartMaxKeeps, Zenon
<1>4. QED
  BY <1>2, <1>3, Zenon DEF TimerStart

\* The main loop keeps an entry sound, and is not done with a reading that
\* has changed or whose maximum interval has not begun.
LEMMA HandledKeeps ==
  ASSUME NEW r \in Entry
  PROVE  /\ Handled(r) \in Entry /\ (Sound(r) => Sound(Handled(r)))
         /\ (joined /\ bound /\ ~stopped /\ Reading(r) /\ Handled(r) = r)
              => ~r.changed /\ Runs(r.timerReportMaxEvt)
<1>1. /\ NoMinLimit(r) \in Entry /\ (Sound(r) => Sound(NoMinLimit(r)))
      /\ NoMinLimit(r).min = r.min /\ NoMinLimit(r).max = r.max
      /\ (Reading(r) /\ r.changed /\ bound) => ~NoMinLimit(r).changed
      /\ (~r.changed) => NoMinLimit(r) = r
  BY NoMinLimitKeeps, Zenon
<1>2. TimerStart(NoMinLimit(r)) \in Entry /\ (Sound(r) => Sound(TimerStart(NoMinLimit(r))))
  BY <1>1, StartKeeps, Zenon
<1>3. ASSUME joined, bound, ~stopped, Reading(r), Handled(r) = r
      PROVE  ~r.changed /\ Runs(r.timerReportMaxEvt)
  <2>1. TimerStart(NoMinLimit(r)) = r
    BY <1>3, Zenon DEF Handled
  <2>2. ~r.changed
    <3> SUFFICES ASSUME r.changed PROVE FALSE
      OBVIOUS
    <3> DEFINE p == NoMinLimit(r)
    <3>1. p \in Entry /\ Reading(p) /\ ~p.changed
      BY <1>1, <1>3, Zenon DEF Reading
    <3>2. TimerStart(p).changed = p.changed
      BY <3>1, StartKeeps, Zenon
    <3>3. QED
      BY <2>1, <3>1, <3>2, Zenon
  <2>3. QED
    BY <1>1, <1>3, <2>1, <2>2, StartKeeps, Zenon
<1>4. QED
  BY <1>2, <1>3, Zenon DEF Handled

LEMMA MinTimerKeeps ==
  ASSUME NEW r \in Entry, Runs(r.timerReportMinEvt)
  PROVE  LET q == [MinReport(r) EXCEPT !.timerReportMinEvt = Restarted(@)]
         IN  q \in Entry /\ (Sound(r) => Sound(q))
<1> DEFINE m == MinReport(r)
           t == Restarted(m.timerReportMinEvt)
<1>1. /\ m \in Entry /\ (Sound(r) => Sound(m))
      /\ m.min = r.min /\ m.timerReportMinEvt = r.timerReportMinEvt
  BY MinReportKeeps
<1>2. [m EXCEPT !.timerReportMinEvt = Restarted(@)] = [m EXCEPT !.timerReportMinEvt = t]
  BY <1>1 DEF Entry
<1> HIDE DEF m
<1>3. t \in Timer
  BY <1>1, TimerTypes DEF Entry
<1>4. ASSUME Sound(r) PROVE Runs(t) => t.period = m.min
  BY <1>1, <1>4 DEF Sound, Effective, Restarted, Schedule, Runs, Null
<1>5. [m EXCEPT !.timerReportMinEvt = t] \in Entry
  BY <1>1, <1>3 DEF Entry
<1>6. ASSUME Sound(r) PROVE Sound([m EXCEPT !.timerReportMinEvt = t])
  <2> HIDE DEF t
  <2>1. QED
    BY <1>1, <1>3, <1>4, <1>6, MinTimerSet, Zenon
<1>7. QED
  BY <1>2, <1>5, <1>6 DEF m

\* A minimum interval of none never suppresses the report of the maximum.
LEMMA NoneExceeded ==
  ASSUME NeverInStep, NEW n \in 0 .. MaxPosted, n # 0
  PROVE  Exceeds(n, 0) = {TRUE}
<1>1. (0 * UnitMs) % WrapMs = 0
  BY ReportingAssumption
<1>2. (n * UnitMs) % WrapMs \in Nat /\ (n * UnitMs) % WrapMs # 0
  <2>1. n * UnitMs \in Nat /\ n \in 1 .. MaxPosted
    BY ReportingAssumption
  <2>2. n * UnitMs \in Int /\ WrapMs \in Int /\ WrapMs > 0
    BY <2>1, ReportingAssumption
  <2>3. (n * UnitMs) % WrapMs \in 0 .. WrapMs - 1
    BY <2>2
  <2>4. QED
    BY <2>1, <2>3, ReportingAssumption DEF NeverInStep
<1> DEFINE elapsed == (n * UnitMs) % WrapMs
<1>3. Exceeds(n, 0) = IF elapsed = 0 THEN BOOLEAN ELSE {elapsed > 0}
  BY <1>1 DEF Exceeds
<1>4. elapsed > 0
  BY <1>2
<1>5. QED
  BY <1>2, <1>3, <1>4

LEMMA MaxTimerKeeps ==
  ASSUME NEW r \in Entry, Runs(r.timerReportMaxEvt),
         NEW exceeded \in Exceeds(r.posted, r.min)
  PROVE  LET q == [MaxReport(r, exceeded) EXCEPT !.timerReportMaxEvt = Restarted(@)]
         IN  q \in Entry /\ (Sound(r) => Sound(q))
<1> DEFINE a == ReportAttr(r)
           m == MaxReport(r, exceeded)
           t == Restarted(r.timerReportMaxEvt)
<1>1. /\ a \in Entry /\ (Sound(r) => Sound(a)) /\ a.since = 0
      /\ a.max = r.max /\ a.min = r.min /\ a.timerReportMaxEvt = r.timerReportMaxEvt
  BY ReportAttrKeeps, Zenon
<1> HIDE DEF a
<1>2. /\ m \in Entry /\ (Sound(r) => Sound(m)) /\ (exceeded => m.since = 0)
      /\ m.max = r.max /\ m.min = r.min /\ m.timerReportMaxEvt = r.timerReportMaxEvt
  <2> DEFINE n == [a EXCEPT !.timerReportMinEvt = Null]
  <2>1. n \in Entry /\ (Sound(a) => Sound(n))
    BY <1>1, TimerTypes, MinTimerSet, Zenon
  <2>2. /\ n.since = 0 /\ n.max = r.max /\ n.min = r.min
        /\ n.timerReportMaxEvt = r.timerReportMaxEvt
    BY <1>1 DEF Entry
  <2>3. m = IF exceeded THEN n ELSE r
    BY Zenon DEF MaxReport, a
  <2> HIDE DEF n, m
  <2>4. QED
    BY <1>1, <2>1, <2>2, <2>3, Zenon
<1>3. ~exceeded => m = r
  BY Zenon DEF MaxReport
<1>4. [m EXCEPT !.timerReportMaxEvt = Restarted(@)] = [m EXCEPT !.timerReportMaxEvt = t]
  BY <1>2 DEF Entry
<1> HIDE DEF m
<1>5. t \in Timer
  BY TimerTypes DEF Entry
<1>6. [m EXCEPT !.timerReportMaxEvt = t] \in Entry
  BY <1>2, <1>5 DEF Entry
<1>7. ASSUME Sound(r) PROVE Sound([m EXCEPT !.timerReportMaxEvt = t])
  <2>1. r.timerReportMaxEvt.period = r.max
    BY <1>7 DEF Sound, Effective
  <2>2. t.period = r.max /\ t.left = r.max /\ (r.max # 0 => Runs(t))
    BY <2>1 DEF Restarted, Schedule, Runs, Null
  <2>3. (NeverInStep /\ Reading(m)) => Runs(t) /\ m.since + t.left <= m.max
    <3> SUFFICES ASSUME NeverInStep, Reading(m)
                 PROVE  Runs(t) /\ m.since + t.left <= m.max
      OBVIOUS
    <3>1. r.min = 0 /\ r.max # 0
      BY <1>2 DEF Reading
    <3>2. m.since = 0
      <4>1. CASE exceeded
        BY <1>2, <4>1
      <4>2. CASE ~exceeded
        <5>1. exceeded # TRUE
          BY <4>2
        <5>2. r.posted = 0
          BY <3>1, <5>1, NoneExceeded DEF Entry
        <5>3. QED
          BY <1>3, <1>7, <4>2, <5>2 DEF Sound, Entry
      <4>3. QED
        BY <4>1, <4>2
    <3>3. QED
      BY <1>2, <2>2, <3>1, <3>2 DEF Entry
  <2> HIDE DEF t
  <2>4. QED
    BY <1>2, <1>5, <1>7, <2>2, <2>3, MaxTimerSet, Zenon
<1>8. QED
  BY <1>4, <1>6, <1>7 DEF m

LEMMA PassedKeeps ==
  ASSUME NEW r \in Entry, ~Due(r.timerReportMinEvt), ~Due(r.timerReportMaxEvt),
         r.posted < MaxPosted, r.since < MaxSince,
         (joined /\ bound /\ Reading(r)) => Runs(r.timerReportMaxEvt)
  PROVE  Passed(r) \in Entry /\ (Sound(r) => Sound(Passed(r)))
<1> DEFINE q == Passed(r)
<1>1. /\ q.min = r.min /\ q.max = r.max
      /\ q.changed = r.changed /\ q.stale = r.stale
      /\ q.timerReportMinEvt = Down(r.timerReportMinEvt)
      /\ q.timerReportMaxEvt = Down(r.timerReportMaxEvt)
      /\ q.posted = r.posted + 1
      /\ q.since = IF joined /\ bound THEN r.since + 1 ELSE 0
  BY DEF Passed, Entry
<1>2. ASSUME NEW t \in Timer, ~Due(t)
      PROVE  /\ Down(t) \in Timer /\ Down(t).period = t.period
             /\ Runs(t) => Down(t).left = t.left - 1
             /\ Runs(Down(t)) => Runs(t)
  BY <1>2 DEF Down, Due, Runs, Timer, Null
<1>3. /\ Down(r.timerReportMinEvt) \in Timer
      /\ Down(r.timerReportMinEvt).period = r.timerReportMinEvt.period
      /\ Down(r.timerReportMaxEvt) \in Timer
      /\ Down(r.timerReportMaxEvt).period = r.timerReportMaxEvt.period
      /\ Runs(r.timerReportMaxEvt) =>
           Down(r.timerReportMaxEvt).left = r.timerReportMaxEvt.left - 1
      /\ Runs(Down(r.timerReportMaxEvt)) => Runs(r.timerReportMaxEvt)
      /\ Runs(Down(r.timerReportMinEvt)) => Runs(r.timerReportMinEvt)
  BY <1>2 DEF Entry
<1>4. q \in Entry
  <2>1. /\ r.posted + 1 \in 0 .. MaxPosted
        /\ (IF joined /\ bound THEN r.since + 1 ELSE 0) \in 0 .. MaxSince
        /\ (IF joined /\ bound THEN r.got ELSE 0) \in 0 .. 2
    BY ReportingAssumption DEF Entry
  <2>2. QED
    BY <1>3, <2>1 DEF Passed, Entry
<1> HIDE DEF q
<1>5. ASSUME Sound(r) PROVE Sound(q)
  <2>1. Effective(q)
    BY <1>1, <1>3, <1>5 DEF Sound, Effective
  <2>2. q.since <= q.posted
    BY <1>1, <1>5 DEF Sound, Entry
  <2>3. q.stale => q.changed
    BY <1>1, <1>5, Zenon DEF Sound
  <2>4. InTime(q)
    <3> SUFFICES ASSUME NeverInStep, Reading(q)
                 PROVE  IF Runs(q.timerReportMaxEvt)
                        THEN q.since + q.timerReportMaxEvt.left <= q.max
                        ELSE q.since = 0
      BY DEF InTime
    <3>1. Reading(r) /\ r.max # 0
      BY <1>1 DEF Reading
    <3>2. CASE Runs(r.timerReportMaxEvt)
      <4>1. r.timerReportMaxEvt.period = r.max
        BY <1>5, <3>2 DEF Sound, Effective
      <4>2. Runs(q.timerReportMaxEvt)
        BY <1>1, <1>3, <3>1, <4>1 DEF Runs, Null
      <4>3. r.since + r.timerReportMaxEvt.left <= r.max
        BY <1>5, <3>1, <3>2 DEF Sound, InTime
      <4>4. QED
        BY <1>1, <1>3, <3>2, <4>2, <4>3 DEF Entry, Timer
    <3>3. CASE ~Runs(r.timerReportMaxEvt)
      BY <1>1, <1>3, <3>1, <3>3
    <3>4. QED
      BY <3>2, <3>3
  <2>5. QED
    BY <2>1, <2>2, <2>3, <2>4 DEF Sound
<1>6. QED
  BY <1>4, <1>5 DEF q

(***************************************************************************)
(* Types.                                                                  *)
(***************************************************************************)
LEMMA ReportingInit == Init => TypeOK /\ SoundEntries
<1> SUFFICES ASSUME Init PROVE TypeOK /\ SoundEntries
  OBVIOUS
<1>1. joined \in BOOLEAN /\ bound \in BOOLEAN /\ stopped \in BOOLEAN
  BY Zenon DEF Init
<1>2. ASSUME NEW e \in Entries
      PROVE  app[e] \in Entry /\ Sound(app[e])
  <2>1. app[e] = [min |-> Initial[e].min, max |-> Initial[e].max,
                  changed |-> FALSE, stale |-> FALSE,
                  timerReportMinEvt |-> Null, timerReportMaxEvt |-> Null,
                  posted |-> 0, since |-> 0, got |-> 0]
    BY DEF Init
  <2>2. /\ Initial[e].min \in Nat /\ Initial[e].max \in Nat
        /\ 0 \in 0 .. MaxPosted /\ 0 \in 0 .. MaxSince /\ 0 \in 0 .. 2
        /\ Null \in Timer /\ ~Runs(Null)
        /\ FALSE \in BOOLEAN
    BY ReportingAssumption, TimerTypes
  <2>3. app[e] \in Entry
    BY <2>1, <2>2 DEF Entry
  <2>4. QED
    BY <2>1, <2>2, <2>3 DEF Sound, Effective, InTime
<1>3. app \in [Entries -> Entry]
  BY <1>2 DEF Init
<1>4. QED
  BY <1>1, <1>2, <1>3 DEF TypeOK, SoundEntries

\* A step on one entry.
LEMMA OneEntry ==
  ASSUME TypeOK, NEW e \in Entries, NEW r \in Entry, Put(e, r),
         Sound(app[e]) => Sound(r)
  PROVE  TypeOK' /\ (SoundEntries => SoundEntries')
<1>1. app' \in [Entries -> Entry]
  BY DEF TypeOK, Put
<1>2. TypeOK'
  BY <1>1 DEF TypeOK, Put
<1>3. ASSUME SoundEntries, NEW f \in Entries PROVE Sound(app'[f])
  <2>1. app'[f] = IF f = e THEN r ELSE app[f]
    BY DEF TypeOK, Put
  <2>2. QED
    BY <1>3, <2>1 DEF SoundEntries
<1>4. QED
  BY <1>2, <1>3 DEF SoundEntries

LEMMA ReportingStep ==
  TypeOK /\ [Next]_vars => TypeOK' /\ ((OneAtATime /\ SoundEntries) => SoundEntries')
<1> SUFFICES ASSUME TypeOK, [Next]_vars
             PROVE  TypeOK' /\ ((OneAtATime /\ SoundEntries) => SoundEntries')
  OBVIOUS
<1> USE DEF TypeOK
<1>1. \A e \in Entries : app[e] \in Entry
  OBVIOUS
<1>2. CASE ReportHandler
  <2>1. \A e \in Entries : Handled(app[e]) \in Entry /\ (Sound(app[e]) => Sound(Handled(app[e])))
    BY <1>1, HandledKeeps
  <2>2. app' = [e \in Entries |-> Handled(app[e])]
        /\ joined' \in BOOLEAN /\ bound' \in BOOLEAN /\ stopped' \in BOOLEAN
    BY <1>2 DEF ReportHandler
  <2>3. QED
    BY <2>1, <2>2 DEF SoundEntries
<1>3. CASE Tick
  <2>1. /\ app' = [e \in Entries |-> Passed(app[e])]
        /\ joined' \in BOOLEAN /\ bound' \in BOOLEAN /\ stopped' \in BOOLEAN
    BY <1>3 DEF Tick
  <2>2. ASSUME NEW e \in Entries
        PROVE  Passed(app[e]) \in Entry /\ (Sound(app[e]) => Sound(Passed(app[e])))
    <3>1. /\ ~Due(app[e].timerReportMinEvt) /\ ~Due(app[e].timerReportMaxEvt)
          /\ Handled(app[e]) = app[e] /\ ~stopped
          /\ app[e].posted < MaxPosted /\ app[e].since < MaxSince
      BY <1>3 DEF Tick
    <3>2. (joined /\ bound /\ Reading(app[e])) => Runs(app[e].timerReportMaxEvt)
      BY <1>1, <3>1, HandledKeeps
    <3>3. QED
      BY <1>1, <3>1, <3>2, PassedKeeps
  <2>3. QED
    BY <2>1, <2>2 DEF SoundEntries
<1>4. CASE StopReport
  BY <1>4 DEF StopReport, SoundEntries
<1>5. CASE ForcedReport
  <2> DEFINE F(e) == [app[e] EXCEPT !.stale = FALSE]
  <2>1. app' = [e \in Entries |-> F(e)] /\ joined' = joined /\ bound' = bound /\ stopped' = stopped
    BY <1>5 DEF ForcedReport
  <2>2. ASSUME NEW r \in Entry
        PROVE  LET q == [r EXCEPT !.stale = FALSE] IN q \in Entry /\ (Sound(r) => Sound(q))
    <3>1. FALSE \in BOOLEAN
      OBVIOUS
    <3>2. QED
      BY <3>1 DEF Entry, Sound, Effective, InTime, Reading
  <2>3. \A e \in Entries : F(e) \in Entry /\ (Sound(app[e]) => Sound(F(e)))
    BY <1>1, <2>2
  <2> HIDE DEF F
  <2>4. QED
    BY <2>1, <2>3 DEF SoundEntries
<1>6. ASSUME NEW e \in Entries, MinTimer(e)
      PROVE  TypeOK' /\ (SoundEntries => SoundEntries')
  <2> DEFINE q == [MinReport(app[e]) EXCEPT !.timerReportMinEvt = Restarted(@)]
  <2>1. Runs(app[e].timerReportMinEvt) /\ Put(e, q)
    BY <1>6 DEF MinTimer, Due
  <2>2. q \in Entry /\ (Sound(app[e]) => Sound(q))
    BY <1>1, <2>1, MinTimerKeeps
  <2> HIDE DEF q
  <2>3. QED
    BY <2>1, <2>2, OneEntry, Zenon
<1>7. ASSUME NEW e \in Entries, MaxTimer(e)
      PROVE  TypeOK' /\ (SoundEntries => SoundEntries')
  <2>1. PICK exceeded \in Exceeds(app[e].posted, app[e].min) :
          Put(e, [MaxReport(app[e], exceeded) EXCEPT !.timerReportMaxEvt = Restarted(@)])
    BY <1>7 DEF MaxTimer
  <2> DEFINE q == [MaxReport(app[e], exceeded) EXCEPT !.timerReportMaxEvt = Restarted(@)]
  <2>2. Runs(app[e].timerReportMaxEvt)
    BY <1>7 DEF MaxTimer, Due
  <2>3. q \in Entry /\ (Sound(app[e]) => Sound(q))
    BY <1>1, <2>1, <2>2, MaxTimerKeeps
  <2>4. Put(e, q)
    BY <2>1
  <2> HIDE DEF q
  <2>5. QED
    BY <2>3, <2>4, OneEntry, Zenon
<1>8. ASSUME NEW e \in Entries, Change(e)
      PROVE  TypeOK' /\ (SoundEntries => SoundEntries')
  <2> DEFINE q == [app[e] EXCEPT !.changed = TRUE, !.stale = TRUE]
  <2>1. TRUE \in BOOLEAN
    OBVIOUS
  <2>2. q \in Entry
    BY <1>1, <2>1 DEF Entry
  <2>3. Sound(app[e]) => Sound(q)
    BY <1>1, <2>1 DEF Entry, Sound, Effective, InTime, Reading
  <2>4. Put(e, q)
    BY <1>8 DEF Change
  <2> HIDE DEF q
  <2>5. QED
    BY <2>2, <2>3, <2>4, OneEntry, Zenon
<1>9. ASSUME NEW e \in Entries, ChangeBack(e)
      PROVE  TypeOK' /\ (SoundEntries => SoundEntries')
  <2> DEFINE q == [app[e] EXCEPT !.changed = FALSE, !.stale = FALSE]
  <2>1. FALSE \in BOOLEAN
    OBVIOUS
  <2>2. q \in Entry
    BY <1>1, <2>1 DEF Entry
  <2>3. Sound(app[e]) => Sound(q)
    BY <1>1, <2>1 DEF Entry, Sound, Effective, InTime, Reading
  <2>4. Put(e, q)
    BY <1>9 DEF ChangeBack
  <2> HIDE DEF q
  <2>5. QED
    BY <2>2, <2>3, <2>4, OneEntry, Zenon
<1>10. CASE CfgReportCmd
  <2>1. PICK n \in 1 .. MaxAttrs : \E es \in [1 .. n -> Entries], c \in Configs :
          app' = Configured(es, c)
    BY <1>10 DEF CfgReportCmd
  <2>2. PICK es \in [1 .. n -> Entries], c \in Configs : app' = Configured(es, c)
    BY <2>1
  <2>3. joined' = joined /\ bound' = bound /\ stopped' = stopped
    BY <1>10 DEF CfgReportCmd
  <2> DEFINE F(e) == [app[e] EXCEPT !.min = c.min, !.max = c.max, !.since = 0, !.got = 0]
             G(e) == IF e \in Range(es) THEN F(e) ELSE app[e]
             H(e) == IF e = es[1] THEN Cancelled(F(e)) ELSE G(e)
  <2>4. es[1] \in Entries /\ es[1] \in Range(es)
    BY ReportingAssumption DEF Range
  <2>5. app' = [e \in Entries |-> H(e)]
    BY <2>2, <2>4 DEF Configured, InTable
  <2>6. c \in [min : Nat, max : Nat]
    BY ReportingAssumption
  <2>7. ASSUME NEW e \in Entries
        PROVE  F(e) \in Entry /\ F(e).since = 0 /\ F(e).posted = app[e].posted
               /\ (F(e).stale => F(e).changed) = (app[e].stale => app[e].changed)
    <3>1. 0 \in 0 .. MaxSince /\ 0 \in 0 .. 2
      BY ReportingAssumption
    <3>2. QED
      BY <1>1, <2>6, <3>1 DEF Entry
  <2>8. ASSUME NEW r \in Entry
        PROVE  Cancelled(r) \in Entry
               /\ ((r.since = 0 /\ (r.stale => r.changed)) => Sound(Cancelled(r)))
    <3> DEFINE q == Cancelled(r)
    <3>1. q \in Entry /\ q.since = r.since /\ q.posted = r.posted
          /\ q.timerReportMinEvt = Null /\ q.timerReportMaxEvt = Null
      BY TimerTypes DEF Cancelled, Entry
    <3>2. q.stale = r.stale /\ q.changed = r.changed
      BY Zenon DEF Cancelled, Entry
    <3> HIDE DEF q
    <3>3. ASSUME r.since = 0, r.stale => r.changed PROVE Sound(q)
      <4>1. q.since = 0 /\ q.since <= q.posted
        BY <3>1, <3>3 DEF Entry
      <4>2. q.stale => q.changed
        BY <3>2, <3>3, Zenon
      <4>3. QED
        BY <3>1, <4>1, <4>2, TimerTypes DEF Sound, Effective, InTime
    <3>4. QED
      BY <3>1, <3>3 DEF q
  <2> HIDE DEF F
  <2>9. \A e \in Entries : H(e) \in Entry
    BY <1>1, <2>7, <2>8
  <2>10. ASSUME OneAtATime, NEW e \in Entries, Sound(app[e]) PROVE Sound(H(e))
    <3>1. n = 1
      BY <2>10, ReportingAssumption DEF OneAtATime
    <3>2. Range(es) = {es[1]}
      BY <3>1 DEF Range
    <3>3. app[e].stale => app[e].changed
      BY <2>10, Zenon DEF Sound
    <3>4. QED
      BY <2>7, <2>8, <2>10, <3>2, <3>3
  <2> HIDE DEF H
  <2>11. QED
    BY <2>3, <2>5, <2>9, <2>10 DEF SoundEntries
<1>11. CASE Leave \/ Join \/ Binding
  <2>1. app' = app /\ joined' \in BOOLEAN /\ bound' \in BOOLEAN /\ stopped' \in BOOLEAN
    BY <1>11, Zenon DEF Leave, Join, Binding
  <2>2. QED
    BY <2>1 DEF SoundEntries
<1>12. CASE UNCHANGED vars
  BY <1>12 DEF vars, SoundEntries
<1>13. QED
  BY <1>2, <1>3, <1>4, <1>5, <1>6, <1>7, <1>8, <1>9, <1>10, <1>11, <1>12 DEF Next

\* Types hold: timers never count below zero.
THEOREM ReportingTypes == Spec => []TypeOK
BY ReportingInit, ReportingStep, PTL DEF Spec

LEMMA ReportingSound ==
  ASSUME OneAtATime
  PROVE  Spec => [](TypeOK /\ SoundEntries)
BY ReportingInit, ReportingStep, PTL DEF Spec

\* No timer runs on an interval that a command has replaced, provided that
\* commands configure one attribute: app_zclCfgReportCmd cancels the timers of
\* the first attribute alone.
THEOREM TimersFollowConfiguration ==
  ASSUME OneAtATime
  PROVE  Spec => []IntervalsInEffect
<1>1. SoundEntries => IntervalsInEffect
  BY DEF SoundEntries, Sound, Effective, IntervalsInEffect
<1>2. QED
  BY <1>1, ReportingSound, PTL

\* Under that condition, and unless the clock shows a whole number of units as
\* none, a reading is reported as soon as it changes and at the latest when
\* its maximum interval is over.
THEOREM ReadingsAlwaysReported ==
  ASSUME OneAtATime, NeverInStep
  PROVE  Spec => ReadingsReported
<1>1. TypeOK /\ SoundEntries /\ [Next]_vars =>
        [(Tick /\ Connected) =>
           \A e \in Entries :
             app[e].min = 0 /\ app[e].max \notin {0, Disabled}
               => ~app[e].stale /\ app'[e].since <= app[e].max]_vars
  <2> SUFFICES ASSUME TypeOK, SoundEntries, Tick, Connected, NEW e \in Entries,
                      app[e].min = 0 /\ app[e].max \notin {0, Disabled}
               PROVE  ~app[e].stale /\ app'[e].since <= app[e].max
    OBVIOUS
  <2> DEFINE r == app[e]
  <2>1. r \in Entry /\ Sound(r) /\ Reading(r)
    BY DEF TypeOK, SoundEntries, Reading
  <2>2. /\ ~Due(r.timerReportMaxEvt) /\ Handled(r) = r /\ ~stopped /\ joined /\ bound
        /\ app'[e] = Passed(r)
    BY DEF Tick, Connected
  <2> HIDE DEF r
  <2>3. ~r.changed /\ Runs(r.timerReportMaxEvt)
    BY <2>1, <2>2, HandledKeeps
  <2>4. ~r.stale
    BY <2>1, <2>3, Zenon DEF Sound
  <2>5. r.since + r.timerReportMaxEvt.left <= r.max
    BY <2>1, <2>3 DEF Sound, InTime
  <2>6. r.timerReportMaxEvt.left # 0
    BY <2>2, <2>3 DEF Due
  <2>7. Passed(r).since = r.since + 1
    BY <2>1, <2>2 DEF Passed, Entry
  <2>8. Passed(r).since <= r.max
    BY <2>1, <2>5, <2>6, <2>7 DEF Entry, Timer
  <2>9. QED
    BY <2>2, <2>4, <2>8 DEF r
<1>2. QED
  BY <1>1, ReportingSound, PTL DEF Spec, ReadingsReported

(***************************************************************************)
(* How far apart reports are.                                              *)
(***************************************************************************)
\* What the clock shows of n units.
Shown(n) == (n * UnitMs) % WrapMs

\* Intervals of which OncePerTwoMaxima speaks.
Told(r) == r.min < r.max /\ r.max # Disabled /\ ClockTells(r)

\* Which timers run: that of the minimum unless there is none or it is above
\* the maximum, that of the maximum only beyond the minimum.
Running(r) ==
  /\ Runs(r.timerReportMinEvt) =>
       r.min # 0 /\ r.min <= r.max /\ r.timerReportMinEvt.left <= r.min
  /\ Runs(r.timerReportMaxEvt) => r.min < r.max /\ r.timerReportMaxEvt.left <= r.max

\* While the timer of the maximum runs, its end comes before two maxima are
\* over, and if it is the second one, the clock will tell.
Heard(r) ==
  Told(r) =>
    IF Runs(r.timerReportMaxEvt)
    THEN \/ r.since + r.timerReportMaxEvt.left <= r.max
         \/ /\ r.since + r.timerReportMaxEvt.left <= 2 * r.max
            /\ Shown(r.posted + r.timerReportMaxEvt.left) > Shown(r.min)
    ELSE r.since = 0

\* How far the last report is back when a timer ends, once the client has got
\* one: the minimum interval for its timer; for that of the maximum the time
\* since the last post, unless it was the report of a maximum.
Apart(r) ==
  r.got # 0 =>
    /\ Runs(r.timerReportMinEvt) => r.since + r.timerReportMinEvt.left >= r.min
    /\ Runs(r.timerReportMaxEvt) =>
         r.posted <= r.since \/ r.since + r.timerReportMaxEvt.left >= r.max

Quiet(r) == Running(r) /\ Heard(r) /\ Apart(r)
QuietEntries == \A e \in Entries : Quiet(app[e])

\* What the clock shows of a sum, if it does not repeat.
LEMMA ShownSum ==
  ASSUME NEW a \in Nat, NEW b \in Nat, Shown(a) + Shown(b) < WrapMs
  PROVE  Shown(a + b) = Shown(a) + Shown(b)
<1> DEFINE q == (a * UnitMs) \div WrapMs
           s == (b * UnitMs) \div WrapMs
           x == Shown(a)
           y == Shown(b)
<1>1. UnitMs \in Nat /\ WrapMs \in Nat /\ WrapMs > 0
  BY ReportingAssumption
<1>2. a * UnitMs \in Nat /\ b * UnitMs \in Nat
  BY <1>1
<1>3. ASSUME NEW m \in Int, NEW w \in Int, w > 0
      PROVE  m = w * (m \div w) + (m % w)
  BY <1>3, Z3
<1>4. a * UnitMs = WrapMs * q + x /\ b * UnitMs = WrapMs * s + y
  BY <1>1, <1>2, <1>3 DEF Shown
<1>5. q \in Nat /\ s \in Nat /\ x \in Nat /\ y \in Nat
  BY <1>1, <1>2 DEF Shown
<1>6. ASSUME NEW k \in Nat, NEW n \in Nat, NEW w \in Nat, n < w
      PROVE  (w * k + n) % w = n
  BY <1>6
<1>7. x + y < WrapMs
  OBVIOUS
<1> HIDE DEF q, s, x, y
<1>8. (a + b) * UnitMs = WrapMs * (q + s) + (x + y)
  BY <1>1, <1>4, <1>5
<1>9. ((a + b) * UnitMs) % WrapMs = x + y
  <2>1. q + s \in Nat /\ x + y \in Nat
    BY <1>5
  <2>2. (WrapMs * (q + s) + (x + y)) % WrapMs = x + y
    BY <1>1, <1>6, <1>7, <2>1, Zenon
  <2>3. QED
    BY <1>8, <2>2, Zenon
<1>10. QED
  BY <1>9 DEF Shown, x, y

LEMMA ShownBelow ==
  ASSUME NEW n \in Nat
  PROVE  Shown(n) \in Nat /\ Shown(n) < WrapMs /\ Shown(n) <= n * UnitMs
<1>1. ASSUME NEW m \in Nat, NEW w \in Nat, w > 0
      PROVE  m % w \in Nat /\ m % w < w /\ m % w <= m
  BY <1>1
<1>2. n * UnitMs \in Nat /\ WrapMs \in Nat /\ WrapMs > 0
  BY ReportingAssumption
<1>3. QED
  BY <1>1, <1>2 DEF Shown

\* A clock that suppresses the report of one maximum does not suppress that of
\* the next.
LEMMA TellsNext ==
  ASSUME NEW r \in Entry, ClockTells(r), NEW n \in Nat, Shown(n) <= Shown(r.min)
  PROVE  Shown(n + r.max) > Shown(r.min)
<1>1. /\ r.min \in Nat /\ r.max \in Nat
  BY DEF Entry
<1>2. Shown(r.min) < Shown(r.max) /\ Shown(r.min) + Shown(r.max) < WrapMs
  BY DEF ClockTells, Shown
<1>3. /\ Shown(n) \in Nat /\ Shown(r.min) \in Nat /\ Shown(r.max) \in Nat
      /\ WrapMs \in Nat
  BY <1>1, ShownBelow, ReportingAssumption
<1>4. Shown(n) + Shown(r.max) < WrapMs
  BY <1>2, <1>3
<1>5. Shown(n + r.max) = Shown(n) + Shown(r.max)
  BY <1>1, <1>4, ShownSum
<1>6. QED
  BY <1>2, <1>3, <1>5

LEMMA ExceedsShown ==
  ASSUME NEW n, NEW m, NEW b \in Exceeds(n, m), Shown(n) \in Nat, Shown(m) \in Nat
  PROVE  (b => Shown(n) >= Shown(m)) /\ (~b => Shown(n) <= Shown(m))
<1>1. b \in IF Shown(n) = Shown(m) THEN BOOLEAN ELSE {Shown(n) > Shown(m)}
  BY DEF Exceeds, Shown
<1>2. CASE Shown(n) = Shown(m)
  BY <1>2
<1>3. CASE Shown(n) # Shown(m)
  <2>1. b = (Shown(n) > Shown(m))
    BY <1>1, <1>3
  <2>2. (Shown(n) > Shown(m)) => Shown(n) >= Shown(m)
    OBVIOUS
  <2>3. ~(Shown(n) > Shown(m)) => Shown(n) <= Shown(m)
    OBVIOUS
  <2>4. QED
    BY <2>1, <2>2, <2>3, Zenon
<1>4. QED
  BY <1>2, <1>3

(***************************************************************************)
(* What the functions on entries do to the fields Quiet speaks of.         *)
(***************************************************************************)
SameIntervals(q, r) == q.min = r.min /\ q.max = r.max

SameTimers(q, r) ==
  /\ q.timerReportMinEvt = r.timerReportMinEvt
  /\ q.timerReportMaxEvt = r.timerReportMaxEvt

LEMMA Attr ==
  ASSUME NEW r \in Entry
  PROVE  /\ ReportAttr(r) \in Entry /\ SameIntervals(ReportAttr(r), r)
         /\ SameTimers(ReportAttr(r), r)
         /\ ReportAttr(r).since = 0 /\ ReportAttr(r).posted = r.posted
<1>1. ReportAttr(r).posted = r.posted
  BY DEF ReportAttr, Entry
<1>2. QED
  BY <1>1, ReportAttrKeeps DEF SameIntervals, SameTimers

LEMMA AttrPosted ==
  ASSUME NEW r \in Entry
  PROVE  LET q == [ReportAttr(r) EXCEPT !.posted = 0]
         IN  /\ q \in Entry /\ SameIntervals(q, r) /\ SameTimers(q, r)
             /\ q.since = 0 /\ q.posted = 0
<1> DEFINE a == ReportAttr(r)
<1>1. /\ a \in Entry /\ SameIntervals(a, r) /\ SameTimers(a, r) /\ a.since = 0
  BY Attr
<1> HIDE DEF a
<1>2. 0 \in 0 .. MaxPosted
  BY ReportingAssumption
<1>3. LET q == [a EXCEPT !.posted = 0]
      IN  /\ q \in Entry /\ SameIntervals(q, a) /\ SameTimers(q, a)
          /\ q.since = a.since /\ q.posted = 0
  BY <1>1, <1>2 DEF Entry, SameIntervals, SameTimers
<1>4. QED
  BY <1>1, <1>3 DEF a, SameIntervals, SameTimers

\* A report at the minimum interval, or none.
LEMMA MinReportFields ==
  ASSUME NEW r \in Entry
  PROVE  \/ MinReport(r) = r
         \/ /\ MinReport(r) \in Entry
            /\ SameIntervals(MinReport(r), r) /\ SameTimers(MinReport(r), r)
            /\ MinReport(r).since = 0 /\ MinReport(r).posted = 0
<1> DEFINE q == [ReportAttr(r) EXCEPT !.posted = 0]
<1>1. MinReport(r) = r \/ MinReport(r) = q
  BY Zenon DEF MinReport
<1>2. /\ q \in Entry /\ SameIntervals(q, r) /\ SameTimers(q, r)
      /\ q.since = 0 /\ q.posted = 0
  BY AttrPosted
<1> HIDE DEF q
<1>3. QED
  BY <1>1, <1>2, Zenon

\* A report at once, or none.
LEMMA NoMinLimitFields ==
  ASSUME NEW r \in Entry
  PROVE  LET n == NoMinLimit(r)
         IN  \/ n = r
             \/ /\ n \in Entry /\ SameIntervals(n, r)
                /\ r.max = 0 \/ (r.max # Disabled /\ r.min = 0)
                /\ n.since = 0 /\ n.posted = 0
                /\ n.timerReportMinEvt = r.timerReportMinEvt
                /\ n.timerReportMaxEvt = IF r.max = 0 THEN r.timerReportMaxEvt
                                         ELSE Schedule(r.max)
<1> DEFINE q == [ReportAttr(r) EXCEPT !.posted = 0]
           t == IF r.max = 0 THEN r.timerReportMaxEvt ELSE Schedule(r.max)
           n == [q EXCEPT !.timerReportMaxEvt = t]
<1>1. /\ q \in Entry /\ SameIntervals(q, r) /\ SameTimers(q, r)
      /\ q.since = 0 /\ q.posted = 0
  BY AttrPosted
<1>2. ReportAttr(r) \in Entry /\ ReportAttr(r).timerReportMaxEvt = r.timerReportMaxEvt
  BY Attr DEF SameTimers
<1>3. n = [ReportAttr(r) EXCEPT
             !.posted = 0,
             !.timerReportMaxEvt = IF r.max = 0 THEN @ ELSE Schedule(r.max)]
  BY <1>2 DEF Entry
<1>4. \/ NoMinLimit(r) = r
      \/ NoMinLimit(r) = n /\ (r.max = 0 \/ (r.max # Disabled /\ r.min = 0))
  BY <1>3, Zenon DEF NoMinLimit
<1>5. t \in Timer
  BY TimerTypes DEF Entry
<1> HIDE DEF q, t
<1>6. /\ n \in Entry /\ SameIntervals(n, q)
      /\ n.since = q.since /\ n.posted = q.posted
      /\ n.timerReportMinEvt = q.timerReportMinEvt /\ n.timerReportMaxEvt = t
  BY <1>1, <1>5 DEF Entry, SameIntervals
<1> HIDE DEF n
<1>7. QED
  BY <1>1, <1>4, <1>6 DEF SameIntervals, SameTimers, t

(***************************************************************************)
(* The functions keep an entry quiet.                                      *)
(***************************************************************************)
LEMMA NoMinLimitQuiet ==
  ASSUME NEW r \in Entry, Quiet(r)
  PROVE  Quiet(NoMinLimit(r))
<1> DEFINE n == NoMinLimit(r)
<1>1. SUFFICES ASSUME n # r PROVE Quiet(n)
  BY Zenon
<1>2. /\ n \in Entry /\ SameIntervals(n, r)
      /\ r.max = 0 \/ r.min = 0
      /\ n.since = 0 /\ n.posted = 0
      /\ n.timerReportMinEvt = r.timerReportMinEvt
      /\ n.timerReportMaxEvt = IF r.max = 0 THEN r.timerReportMaxEvt
                               ELSE Schedule(r.max)
  BY <1>1, NoMinLimitFields
<1> HIDE DEF n
<1>3. Running(r) /\ r.min \in Nat /\ r.max \in Nat
  BY DEF Quiet, Entry
<1>4. ~Runs(n.timerReportMinEvt)
  BY <1>2, <1>3 DEF Running
<1>5. CASE r.max = 0
  <2>1. ~Runs(n.timerReportMaxEvt)
    BY <1>2, <1>3, <1>5 DEF Running
  <2>2. QED
    BY <1>2, <1>4, <2>1 DEF Quiet, Running, Heard, Apart
<1>6. CASE r.max # 0
  <2>1. n.timerReportMaxEvt.left = n.max /\ n.min < n.max /\ n.max \in Nat
    BY <1>2, <1>3, <1>6, TimerTypes DEF SameIntervals
  <2>2. Runs(n.timerReportMaxEvt)
    BY <1>2, <1>3, <1>6, TimerTypes
  <2>3. QED
    BY <1>2, <1>4, <2>1, <2>2 DEF Quiet, Running, Heard, Apart
<1>7. QED
  BY <1>5, <1>6

LEMMA StartMinQuiet ==
  ASSUME NEW r \in Entry, Quiet(r)
  PROVE  StartMin(r) \in Entry /\ Quiet(StartMin(r)) /\ SameIntervals(StartMin(r), r)
<1> DEFINE q == [r EXCEPT !.timerReportMinEvt = Schedule(r.min)]
<1>1. CASE StartMin(r) = r
  BY <1>1 DEF SameIntervals
<1>2. CASE StartMin(r) = q /\ r.min # 0 /\ r.min <= r.max
  <2>1. Schedule(r.min) \in Timer /\ Schedule(r.min).left = r.min /\ r.min \in Nat /\ r.max \in Nat
    BY TimerTypes DEF Entry
  <2>2. /\ q \in Entry /\ SameIntervals(q, r) /\ q.since = r.since /\ q.posted = r.posted
        /\ q.timerReportMinEvt.left = r.min /\ q.timerReportMaxEvt = r.timerReportMaxEvt
        /\ q.got = r.got
    BY <2>1 DEF Entry, SameIntervals
  <2> HIDE DEF q
  <2>3. Running(q) /\ Heard(q)
    BY <1>2, <2>1, <2>2 DEF Quiet, Running, Heard, Told, ClockTells, SameIntervals
  <2>4. Apart(q)
    BY <2>1, <2>2 DEF Quiet, Apart, SameIntervals, Entry
  <2>5. QED
    BY <1>2, <2>2, <2>3, <2>4 DEF Quiet
<1>3. QED
  BY <1>1, <1>2 DEF StartMin

LEMMA StartMaxQuiet ==
  ASSUME NEW r \in Entry, Quiet(r)
  PROVE  Quiet(StartMax(r))
<1> DEFINE q == [r EXCEPT !.timerReportMaxEvt = Schedule(r.max)]
<1>1. CASE StartMax(r) = r
  BY <1>1
<1>2. CASE StartMax(r) = MinReport(r) /\ r.max = 0 /\ MinReport(r) # r
  <2> DEFINE p == MinReport(r)
  <2>1. p \in Entry /\ SameIntervals(p, r) /\ SameTimers(p, r) /\ p.since = 0
    BY <1>2, MinReportFields
  <2> HIDE DEF p
  <2>2. ~Runs(p.timerReportMinEvt) /\ ~Runs(p.timerReportMaxEvt)
    BY <1>2, <2>1 DEF Quiet, Running, SameTimers, Entry
  <2>3. Quiet(p)
    BY <2>1, <2>2 DEF Quiet, Running, Heard, Apart
  <2>4. QED
    BY <1>2, <2>3 DEF p
<1>3. CASE StartMax(r) = q /\ r.min < r.max /\ ~Runs(r.timerReportMaxEvt)
  <2>1. Schedule(r.max) \in Timer /\ Schedule(r.max).left = r.max /\ r.min \in Nat /\ r.max \in Nat
    BY TimerTypes DEF Entry
  <2>2. /\ q \in Entry /\ SameIntervals(q, r) /\ q.since = r.since /\ q.posted = r.posted
        /\ q.timerReportMaxEvt.left = r.max /\ q.timerReportMinEvt = r.timerReportMinEvt
        /\ q.got = r.got /\ q.timerReportMaxEvt = Schedule(r.max)
    BY <2>1 DEF Entry, SameIntervals
  <2> HIDE DEF q
  <2>3. r.since \in Nat /\ Runs(q.timerReportMaxEvt)
    BY <1>3, <2>1, <2>2, TimerTypes DEF Entry
  <2>4. Running(q) /\ Apart(q)
    BY <1>3, <2>1, <2>2, <2>3 DEF Quiet, Running, Apart, SameIntervals
  <2>5. Heard(q)
    <3>1. Told(q) => r.since = 0
      BY <1>3, <2>2 DEF Quiet, Heard, Told, ClockTells, SameIntervals
    <3>2. QED
      BY <2>1, <2>2, <2>3, <3>1 DEF Heard, SameIntervals
  <2>6. QED
    BY <1>3, <2>4, <2>5 DEF Quiet
<1>4. QED
  BY <1>1, <1>2, <1>3 DEF StartMax

LEMMA HandledQuiet ==
  ASSUME NEW r \in Entry, Quiet(r)
  PROVE  Quiet(Handled(r))
<1>1. NoMinLimit(r) \in Entry /\ Quiet(NoMinLimit(r))
  BY NoMinLimitKeeps, NoMinLimitQuiet
<1>2. Quiet(TimerStart(NoMinLimit(r)))
  BY <1>1, StartMinQuiet, StartMaxQuiet DEF TimerStart
<1>3. QED
  BY <1>2 DEF Handled

LEMMA StartMinEffect ==
  ASSUME NEW r \in Entry
  PROVE  /\ StartMin(r) \in Entry /\ SameIntervals(StartMin(r), r)
         /\ StartMin(r).got = r.got
<1>1. Schedule(r.min) \in Timer
  BY TimerTypes DEF Entry
<1>2. QED
  BY <1>1 DEF StartMin, Entry, SameIntervals

LEMMA StartMaxEffect ==
  ASSUME NEW r \in Entry, r.max # 0
  PROVE  /\ StartMax(r).got = r.got
         /\ r.min < r.max => Runs(StartMax(r).timerReportMaxEvt)
<1> DEFINE q == [r EXCEPT !.timerReportMaxEvt = Schedule(r.max)]
<1>1. Schedule(r.max) \in Timer /\ Runs(Schedule(r.max))
  BY TimerTypes DEF Entry
<1>2. q.got = r.got /\ q.timerReportMaxEvt = Schedule(r.max)
  BY DEF Entry
<1> HIDE DEF q
<1>3. \/ StartMax(r) = r /\ Runs(r.timerReportMaxEvt)
      \/ StartMax(r) = r /\ ~(r.min < r.max)
      \/ StartMax(r) = q
  BY Zenon DEF StartMax, q
<1>4. QED
  BY <1>1, <1>2, <1>3

\* With a maximum the main loop reports an entry only if it has no minimum, and
\* it sees to it that the timer of the maximum runs.
LEMMA HandledEffect ==
  ASSUME NEW r \in Entry, r.max # 0
  PROVE  /\ Handled(r).got # r.got => r.min = 0
         /\ (joined /\ bound /\ ~stopped /\ r.min < r.max /\ r.max # Disabled)
              => Runs(Handled(r).timerReportMaxEvt)
<1> DEFINE n == NoMinLimit(r)
           m == StartMin(n)
<1>1. n \in Entry /\ SameIntervals(n, r) /\ (n.got # r.got => r.min = 0)
  <2>1. n = r \/ (n \in Entry /\ SameIntervals(n, r) /\ r.min = 0)
    BY NoMinLimitFields
  <2>2. QED
    BY <2>1 DEF SameIntervals
<1> HIDE DEF n
<1>2. m \in Entry /\ SameIntervals(m, r) /\ m.got = n.got
  BY <1>1, StartMinEffect DEF SameIntervals
<1> HIDE DEF m
<1>3. /\ StartMax(m).got = n.got
      /\ r.min < r.max => Runs(StartMax(m).timerReportMaxEvt)
  BY <1>2, StartMaxEffect DEF SameIntervals
<1>4. Handled(r) = IF joined /\ ~stopped
                   THEN IF bound /\ n.max # Disabled /\ (n.min # 0 \/ n.max # 0)
                        THEN StartMax(m) ELSE n
                   ELSE r
  BY DEF Handled, TimerStart, m, n
<1>5. QED
  BY <1>1, <1>3, <1>4 DEF SameIntervals

LEMMA MinTimerQuiet ==
  ASSUME NEW r \in Entry, Quiet(r), Effective(r), Due(r.timerReportMinEvt)
  PROVE  Quiet([MinReport(r) EXCEPT !.timerReportMinEvt = Restarted(@)])
<1> DEFINE m == MinReport(r)
           t == Restarted(r.timerReportMinEvt)
           q == [m EXCEPT !.timerReportMinEvt = t]
<1>1. /\ m \in Entry /\ SameIntervals(m, r) /\ SameTimers(m, r)
      /\ m = r \/ (m.since = 0 /\ m.posted = 0)
  BY MinReportFields DEF SameIntervals, SameTimers
<1>2. [m EXCEPT !.timerReportMinEvt = Restarted(@)] = q
  BY <1>1 DEF Entry, SameTimers
<1>3. t \in Timer /\ t.left = r.min /\ r.min \in Nat /\ r.max \in Nat
  <2>1. r.timerReportMinEvt.period = r.min
    BY DEF Effective, Due
  <2>2. QED
    BY <2>1, TimerTypes DEF Restarted, Entry
<1>4. r.min # 0 /\ r.min <= r.max
  BY DEF Quiet, Running, Due
<1> HIDE DEF m, t
<1>5. /\ q \in Entry /\ SameIntervals(q, r) /\ q.timerReportMinEvt.left = r.min
      /\ q.timerReportMaxEvt = r.timerReportMaxEvt
      /\ q.since = m.since /\ q.posted = m.posted /\ q.got = m.got
  BY <1>1, <1>3 DEF Entry, SameIntervals, SameTimers
<1> HIDE DEF q
<1>6. Running(q)
  BY <1>3, <1>4, <1>5 DEF Quiet, Running, SameIntervals
<1>7. Apart(q)
  <2>1. q.since \in Nat /\ r.timerReportMaxEvt.left \in Nat /\ q.got = m.got
    BY <1>5 DEF Entry, Timer
  <2>2. CASE m = r
    BY <1>3, <1>5, <2>1, <2>2 DEF Quiet, Apart, SameIntervals
  <2>3. CASE m.since = 0 /\ m.posted = 0
    BY <1>3, <1>5, <2>1, <2>3 DEF Apart, SameIntervals
  <2>4. QED
    BY <1>1, <2>2, <2>3
<1>8. Heard(q)
  <2>1. CASE m = r
    BY <1>5, <2>1 DEF Quiet, Heard, Told, ClockTells, SameIntervals
  <2>2. CASE m.since = 0
    <3>1. Runs(r.timerReportMaxEvt) => r.timerReportMaxEvt.left <= r.max
      BY DEF Quiet, Running
    <3>2. r.timerReportMaxEvt.left \in Nat
      BY DEF Entry, Timer
    <3>3. QED
      BY <1>3, <1>5, <2>2, <3>1, <3>2 DEF Heard, SameIntervals
  <2>3. QED
    BY <1>1, <2>1, <2>2
<1>9. QED
  BY <1>2, <1>6, <1>7, <1>8, Zenon DEF Quiet, m

LEMMA MaxTimerQuiet ==
  ASSUME NEW r \in Entry, Quiet(r), Effective(r), Due(r.timerReportMaxEvt),
         NEW exceeded \in Exceeds(r.posted, r.min)
  PROVE  Quiet([MaxReport(r, exceeded) EXCEPT !.timerReportMaxEvt = Restarted(@)])
<1> DEFINE a == ReportAttr(r)
           n == [a EXCEPT !.timerReportMinEvt = Null]
           m == MaxReport(r, exceeded)
           t == Restarted(r.timerReportMaxEvt)
           q == [m EXCEPT !.timerReportMaxEvt = t]
<1>1. /\ a \in Entry /\ SameIntervals(a, r) /\ SameTimers(a, r) /\ a.since = 0
      /\ a.posted = r.posted
  BY Attr
<1>2. (exceeded => m = n) /\ (~exceeded => m = r)
  BY Zenon DEF MaxReport
<1>3. /\ t \in Timer /\ t.left = r.max /\ r.min \in Nat /\ r.max \in Nat
      /\ r.min < r.max
  <2>1. r.timerReportMaxEvt.period = r.max
    BY DEF Effective, Due
  <2>2. QED
    BY <2>1, TimerTypes DEF Restarted, Entry, Quiet, Running, Due
<1>4. r.timerReportMaxEvt.left = 0 /\ Runs(r.timerReportMaxEvt)
  BY DEF Due
<1> HIDE DEF a
<1>5. /\ n \in Entry /\ SameIntervals(n, r) /\ n.since = 0 /\ n.posted = r.posted
      /\ n.timerReportMinEvt = Null /\ n.timerReportMaxEvt = r.timerReportMaxEvt
  BY <1>1, TimerTypes DEF Entry, SameIntervals, SameTimers
<1> HIDE DEF n
<1>6. m \in Entry /\ SameIntervals(m, r) /\ m.timerReportMaxEvt = r.timerReportMaxEvt
      /\ m.posted = r.posted
  <2>1. CASE exceeded
    BY <1>2, <1>5, <2>1
  <2>2. CASE ~exceeded
    BY <1>2, <2>2 DEF SameIntervals
  <2>3. QED
    BY <2>1, <2>2, Zenon
<1> HIDE DEF m, t
<1>7. [m EXCEPT !.timerReportMaxEvt = Restarted(@)] = q
  BY <1>6 DEF Entry, t
<1>8. /\ q \in Entry /\ SameIntervals(q, r) /\ q.timerReportMaxEvt = t
      /\ q.timerReportMinEvt = m.timerReportMinEvt
      /\ q.since = m.since /\ q.posted = r.posted /\ q.got = m.got
  BY <1>3, <1>6 DEF Entry, SameIntervals
<1> HIDE DEF q
<1>9. t.left = q.max /\ Runs(t)
  <2>1. r.timerReportMaxEvt.period = r.max
    BY DEF Effective, Due
  <2>2. QED
    BY <1>3, <1>8, <2>1, TimerTypes DEF SameIntervals, Restarted, t
<1>10. ASSUME exceeded PROVE Quiet(q)
  <2>1. q.since = 0 /\ ~Runs(q.timerReportMinEvt)
    BY <1>2, <1>5, <1>8, <1>10, TimerTypes
  <2>2. /\ q.timerReportMaxEvt.left = q.max /\ Runs(q.timerReportMaxEvt)
        /\ q.min < q.max /\ q.max \in Nat
    BY <1>3, <1>8, <1>9 DEF SameIntervals
  <2>3. Running(q) /\ Heard(q) /\ Apart(q)
    BY <2>1, <2>2 DEF Running, Heard, Apart
  <2>4. QED
    BY <2>3 DEF Quiet
<1>11. ASSUME ~exceeded PROVE Quiet(q)
  <2>1. /\ q.since = r.since /\ q.timerReportMinEvt = r.timerReportMinEvt /\ q.got = r.got
        /\ r.since \in Nat /\ r.posted \in Nat
    BY <1>2, <1>8, <1>11 DEF Entry
  <2>2. Running(q) /\ Apart(q)
    BY <1>3, <1>8, <1>9, <2>1 DEF Quiet, Running, Apart, SameIntervals
  <2>3. Heard(q)
    <3>1. SUFFICES ASSUME Told(r)
                   PROVE  /\ r.since + r.max <= 2 * r.max
                          /\ Shown(r.posted + r.max) > Shown(r.min)
      BY <1>3, <1>8, <1>9, <2>1 DEF Heard, Told, ClockTells, SameIntervals
    <3>2. Shown(r.posted) <= Shown(r.min)
      BY <1>3, <1>11, <2>1, ShownBelow, ExceedsShown
    <3>3. Shown(r.posted) \in Nat /\ Shown(r.min) \in Nat
      BY <1>3, <2>1, ShownBelow
    <3>4. r.since <= r.max
      <4>1. r.posted + r.timerReportMaxEvt.left = r.posted
            /\ r.since + r.timerReportMaxEvt.left = r.since
        BY <1>4, <2>1
      <4>2. r.since <= r.max \/ Shown(r.posted) > Shown(r.min)
        BY <1>4, <3>1, <4>1 DEF Quiet, Heard
      <4>3. QED
        BY <3>2, <3>3, <4>2
    <3>5. Shown(r.posted + r.max) > Shown(r.min)
      BY <2>1, <3>1, <3>2, TellsNext DEF Told
    <3>6. QED
      BY <1>3, <2>1, <3>4, <3>5
  <2>4. QED
    BY <2>2, <2>3 DEF Quiet
<1>12. QED
  BY <1>7, <1>10, <1>11, Zenon DEF m

LEMMA PassedQuiet ==
  ASSUME NEW r \in Entry, Quiet(r), Effective(r),
         ~Due(r.timerReportMinEvt), ~Due(r.timerReportMaxEvt),
         r.posted < MaxPosted, r.since < MaxSince,
         (joined /\ bound /\ r.min < r.max /\ r.max # Disabled) => Runs(r.timerReportMaxEvt)
  PROVE  Quiet(Passed(r))
<1> DEFINE q == Passed(r)
<1>1. /\ SameIntervals(q, r)
      /\ q.timerReportMinEvt = Down(r.timerReportMinEvt)
      /\ q.timerReportMaxEvt = Down(r.timerReportMaxEvt)
      /\ q.posted = r.posted + 1
      /\ q.since = (IF joined /\ bound THEN r.since + 1 ELSE 0)
      /\ q.got = (IF joined /\ bound THEN r.got ELSE 0)
  BY DEF Passed, Entry, SameIntervals
<1> HIDE DEF q
<1>2. ASSUME NEW t \in Timer, ~Due(t), t.period # 0 \/ ~Runs(t)
      PROVE  /\ Runs(Down(t)) <=> Runs(t)
             /\ Runs(t) => Down(t).left = t.left - 1 /\ t.left # 0
  BY <1>2 DEF Down, Due, Runs, Timer, Null
<1>3. /\ r.timerReportMinEvt \in Timer /\ r.timerReportMaxEvt \in Timer
      /\ r.min \in Nat /\ r.max \in Nat /\ r.since \in Nat /\ r.posted \in Nat
      /\ r.timerReportMinEvt.left \in Nat /\ r.timerReportMaxEvt.left \in Nat
  BY DEF Entry, Timer
<1>4. /\ r.timerReportMinEvt.period # 0 \/ ~Runs(r.timerReportMinEvt)
      /\ r.timerReportMaxEvt.period # 0 \/ ~Runs(r.timerReportMaxEvt)
  BY <1>3 DEF Quiet, Running, Effective
<1>5. /\ Runs(q.timerReportMinEvt) <=> Runs(r.timerReportMinEvt)
      /\ Runs(q.timerReportMaxEvt) <=> Runs(r.timerReportMaxEvt)
      /\ Runs(r.timerReportMinEvt) =>
           q.timerReportMinEvt.left = r.timerReportMinEvt.left - 1
      /\ Runs(r.timerReportMaxEvt) =>
           q.timerReportMaxEvt.left = r.timerReportMaxEvt.left - 1
  BY <1>1, <1>2, <1>3, <1>4
<1>6. Running(q)
  BY <1>1, <1>3, <1>5 DEF Quiet, Running, SameIntervals
<1>7. Apart(q)
  <2>1. CASE joined /\ bound
    BY <1>1, <1>3, <1>5, <2>1 DEF Quiet, Apart, SameIntervals
  <2>2. CASE ~(joined /\ bound)
    BY <1>1, <2>2 DEF Apart
  <2>3. QED
    BY <2>1, <2>2
<1>8. Heard(q)
  <2>1. SUFFICES ASSUME Told(q)
                 PROVE  IF Runs(q.timerReportMaxEvt)
                        THEN \/ q.since + q.timerReportMaxEvt.left <= q.max
                             \/ /\ q.since + q.timerReportMaxEvt.left <= 2 * q.max
                                /\ Shown(q.posted + q.timerReportMaxEvt.left) > Shown(q.min)
                        ELSE q.since = 0
    BY DEF Heard
  <2>2. Told(r) /\ r.min < r.max /\ r.max # Disabled
    BY <1>1, <2>1 DEF Told, ClockTells, SameIntervals
  <2>3. CASE ~(joined /\ bound)
    <3>1. Runs(r.timerReportMaxEvt) => r.timerReportMaxEvt.left <= r.max
      BY DEF Quiet, Running
    <3>2. QED
      BY <1>1, <1>3, <1>5, <2>3, <3>1 DEF SameIntervals
  <2>4. CASE joined /\ bound
    <3>1. Runs(r.timerReportMaxEvt)
      BY <2>2, <2>4
    <3>2. /\ q.since + q.timerReportMaxEvt.left = r.since + r.timerReportMaxEvt.left
          /\ q.posted + q.timerReportMaxEvt.left = r.posted + r.timerReportMaxEvt.left
      BY <1>1, <1>3, <1>5, <2>4, <3>1
    <3>3. \/ r.since + r.timerReportMaxEvt.left <= r.max
          \/ /\ r.since + r.timerReportMaxEvt.left <= 2 * r.max
             /\ Shown(r.posted + r.timerReportMaxEvt.left) > Shown(r.min)
      BY <2>2, <3>1 DEF Quiet, Heard
    <3>4. Runs(q.timerReportMaxEvt) /\ q.max = r.max /\ q.min = r.min
      BY <1>1, <1>5, <3>1 DEF SameIntervals
    <3>5. QED
      BY <3>2, <3>3, <3>4
  <2>5. QED
    BY <2>3, <2>4
<1>9. QED
  BY <1>6, <1>7, <1>8 DEF Quiet, q

\* Fields that Quiet does not speak of.
SameQuiet(q, r) ==
  /\ SameIntervals(q, r) /\ SameTimers(q, r)
  /\ q.posted = r.posted /\ q.since = r.since /\ q.got = r.got

LEMMA QuietKept ==
  ASSUME NEW r \in Entry, NEW q, Quiet(r), SameQuiet(q, r)
  PROVE  Quiet(q)
<1>1. Told(q) = Told(r)
  BY Zenon DEF SameQuiet, SameIntervals, Told, ClockTells
<1>2. QED
  BY <1>1, Zenon DEF SameQuiet, SameIntervals, SameTimers, Quiet, Running, Heard, Apart

LEMMA QuietInit == Init => QuietEntries
<1> SUFFICES ASSUME Init, NEW e \in Entries PROVE Quiet(app[e])
  BY DEF QuietEntries
<1>1. /\ app[e].timerReportMinEvt = Null /\ app[e].timerReportMaxEvt = Null
      /\ app[e].since = 0 /\ app[e].got = 0
  BY DEF Init
<1>2. ~Runs(app[e].timerReportMinEvt) /\ ~Runs(app[e].timerReportMaxEvt)
  BY <1>1, TimerTypes
<1>3. QED
  BY <1>1, <1>2 DEF Quiet, Running, Heard, Apart

LEMMA QuietOne ==
  ASSUME TypeOK, QuietEntries, NEW e \in Entries, NEW r, Put(e, r), Quiet(r)
  PROVE  QuietEntries'
<1>1. \A f \in Entries : app'[f] = IF f = e THEN r ELSE app[f]
  BY DEF TypeOK, Put
<1>2. QED
  BY <1>1, Zenon DEF QuietEntries

\* A command that configures one attribute starts that entry afresh.
LEMMA ConfiguredOne ==
  ASSUME OneAtATime, TypeOK, CfgReportCmd
  PROVE  \E e \in Entries, r \in Entry :
           /\ app' = [app EXCEPT ![e] = r]
           /\ r.timerReportMinEvt = Null /\ r.timerReportMaxEvt = Null
           /\ r.since = 0 /\ r.got = 0
           /\ \E c \in Configs : SameIntervals(r, c)
<1>1. PICK n \in 1 .. MaxAttrs : \E es \in [1 .. n -> Entries], c \in Configs :
        app' = Configured(es, c)
  BY DEF CfgReportCmd
<1>2. PICK es \in [1 .. n -> Entries], c \in Configs : app' = Configured(es, c)
  BY <1>1
<1> DEFINE e == es[1]
           F(f) == [app[f] EXCEPT !.min = c.min, !.max = c.max, !.since = 0, !.got = 0]
<1>3. n = 1
  BY ReportingAssumption DEF OneAtATime
<1>4. e \in Entries /\ Range(es) = {e}
  BY <1>3 DEF Range
<1>5. app' = [f \in Entries |-> IF f = e THEN Cancelled(F(f)) ELSE app[f]]
  BY <1>2, <1>4 DEF Configured, InTable
<1>6. app[e] \in Entry /\ c \in [min : Nat, max : Nat] /\ 0 \in 0 .. MaxSince /\ 0 \in 0 .. 2
  BY <1>4, ReportingAssumption DEF TypeOK
<1>7. F(e) \in Entry /\ F(e).since = 0 /\ F(e).got = 0 /\ SameIntervals(F(e), c)
  BY <1>6 DEF Entry, SameIntervals
<1> HIDE DEF e, F
<1>8. LET r == Cancelled(F(e))
      IN  /\ r \in Entry /\ r.timerReportMinEvt = Null /\ r.timerReportMaxEvt = Null
          /\ r.since = 0 /\ r.got = 0 /\ SameIntervals(r, c)
  BY <1>7, TimerTypes DEF Cancelled, Entry, SameIntervals
<1>9. app' = [app EXCEPT ![e] = Cancelled(F(e))]
  BY <1>4, <1>5 DEF TypeOK
<1>10. QED
  BY <1>4, <1>8, <1>9, Zenon

LEMMA QuietStep ==
  OneAtATime /\ TypeOK /\ SoundEntries /\ QuietEntries /\ [Next]_vars => QuietEntries'
<1> SUFFICES ASSUME OneAtATime, TypeOK, SoundEntries, QuietEntries, [Next]_vars
             PROVE  QuietEntries'
  OBVIOUS
<1>1. \A e \in Entries : app[e] \in Entry /\ Quiet(app[e]) /\ Effective(app[e])
  BY DEF TypeOK, QuietEntries, SoundEntries, Sound
<1>2. CASE ReportHandler
  <2>1. \A e \in Entries : Quiet(Handled(app[e]))
    BY <1>1, HandledQuiet
  <2>2. \A e \in Entries : app'[e] = Handled(app[e])
    BY <1>2 DEF ReportHandler
  <2>3. QED
    BY <2>1, <2>2, Zenon DEF QuietEntries
<1>3. CASE Tick
  <2> SUFFICES ASSUME NEW e \in Entries PROVE Quiet(app'[e])
    BY DEF QuietEntries
  <2>1. /\ ~Due(app[e].timerReportMinEvt) /\ ~Due(app[e].timerReportMaxEvt)
        /\ Handled(app[e]) = app[e] /\ ~stopped
        /\ app[e].posted < MaxPosted /\ app[e].since < MaxSince
        /\ app'[e] = Passed(app[e])
    BY <1>3 DEF Tick
  <2>2. ASSUME joined, bound, app[e].min < app[e].max, app[e].max # Disabled
        PROVE  Runs(app[e].timerReportMaxEvt)
    <3>1. app[e].max # 0
      BY <1>1, <2>2 DEF Entry
    <3>2. QED
      BY <1>1, <2>1, <2>2, <3>1, HandledEffect
  <2>3. QED
    BY <1>1, <2>1, <2>2, PassedQuiet
<1>4. CASE StopReport \/ Leave \/ Join \/ Binding \/ UNCHANGED vars
  <2>1. app' = app
    BY <1>4, Zenon DEF StopReport, Leave, Join, Binding, vars
  <2>2. QED
    BY <2>1, Zenon DEF QuietEntries
<1>5. CASE ForcedReport
  <2>1. \A e \in Entries : app'[e] = [app[e] EXCEPT !.stale = FALSE]
    BY <1>5 DEF ForcedReport
  <2>2. \A e \in Entries : SameQuiet(app'[e], app[e])
    BY <1>1, <2>1 DEF SameQuiet, SameIntervals, SameTimers, Entry
  <2>3. QED
    BY <1>1, <2>2, QuietKept, Zenon DEF QuietEntries
<1>6. ASSUME NEW e \in Entries, MinTimer(e) PROVE QuietEntries'
  <2>1. Due(app[e].timerReportMinEvt)
        /\ Put(e, [MinReport(app[e]) EXCEPT !.timerReportMinEvt = Restarted(@)])
    BY <1>6 DEF MinTimer
  <2>2. Quiet([MinReport(app[e]) EXCEPT !.timerReportMinEvt = Restarted(@)])
    BY <1>1, <2>1, MinTimerQuiet
  <2>3. QED
    BY <2>1, <2>2, QuietOne, Zenon
<1>7. ASSUME NEW e \in Entries, MaxTimer(e) PROVE QuietEntries'
  <2>1. PICK exceeded \in Exceeds(app[e].posted, app[e].min) :
          Put(e, [MaxReport(app[e], exceeded) EXCEPT !.timerReportMaxEvt = Restarted(@)])
    BY <1>7 DEF MaxTimer
  <2>2. Due(app[e].timerReportMaxEvt)
    BY <1>7 DEF MaxTimer
  <2>3. Quiet([MaxReport(app[e], exceeded) EXCEPT !.timerReportMaxEvt = Restarted(@)])
    BY <1>1, <2>2, MaxTimerQuiet
  <2>4. QED
    BY <2>1, <2>3, QuietOne, Zenon
<1>8. ASSUME NEW e \in Entries, Change(e) \/ ChangeBack(e) PROVE QuietEntries'
  <2>1. PICK b \in BOOLEAN : Put(e, [app[e] EXCEPT !.changed = b, !.stale = b])
    BY <1>8, Zenon DEF Change, ChangeBack
  <2>2. SameQuiet([app[e] EXCEPT !.changed = b, !.stale = b], app[e])
    BY <1>1 DEF SameQuiet, SameIntervals, SameTimers, Entry
  <2>3. Quiet([app[e] EXCEPT !.changed = b, !.stale = b])
    BY <1>1, <2>2, QuietKept, Zenon
  <2>4. QED
    BY <2>1, <2>3, QuietOne, Zenon
<1>9. CASE CfgReportCmd
  <2>1. PICK e \in Entries, r \in Entry :
           /\ app' = [app EXCEPT ![e] = r]
           /\ r.timerReportMinEvt = Null /\ r.timerReportMaxEvt = Null
           /\ r.since = 0 /\ r.got = 0
    BY <1>9, ConfiguredOne
  <2>2. Put(e, r)
    BY <1>9, <2>1 DEF CfgReportCmd, Put
  <2>3. ~Runs(r.timerReportMinEvt) /\ ~Runs(r.timerReportMaxEvt)
    BY <2>1, TimerTypes
  <2>4. Quiet(r)
    BY <2>1, <2>3 DEF Quiet, Running, Heard, Apart
  <2>5. QED
    BY <2>2, <2>4, QuietOne, Zenon
<1>10. QED
  BY <1>2, <1>3, <1>4, <1>5, <1>6, <1>7, <1>8, <1>9 DEF Next

LEMMA ReportingQuiet ==
  ASSUME OneAtATime
  PROVE  Spec => [](TypeOK /\ SoundEntries /\ QuietEntries)
<1>1. Init => TypeOK /\ SoundEntries /\ QuietEntries
  BY ReportingInit, QuietInit
<1>2. TypeOK /\ SoundEntries /\ QuietEntries /\ [Next]_vars
        => (TypeOK /\ SoundEntries /\ QuietEntries)'
  BY ReportingStep, QuietStep
<1>3. QED
  BY <1>1, <1>2, PTL DEF Spec

\* When commands configure one attribute at a time, the client hears of an
\* entry with intervals the clock tells apart at least once in two maximum
\* intervals, whatever the other reports and the network do: the minimum
\* interval and the clock suppress the report of one maximum interval at most.
THEOREM TwoMaximaAtMost ==
  ASSUME OneAtATime
  PROVE  Spec => []OncePerTwoMaxima
<1>1. TypeOK /\ QuietEntries => OncePerTwoMaxima
  <2> SUFFICES ASSUME TypeOK, QuietEntries, NEW e \in Entries,
                      app[e].min < app[e].max, app[e].max # Disabled, ClockTells(app[e])
               PROVE  app[e].since <= 2 * app[e].max
    BY DEF OncePerTwoMaxima
  <2> DEFINE r == app[e]
  <2>1. r \in Entry /\ Heard(r) /\ Told(r)
    BY DEF TypeOK, QuietEntries, Quiet, Told
  <2> HIDE DEF r
  <2>2. r.max \in Nat /\ r.since \in Nat /\ r.timerReportMaxEvt.left \in Nat
    BY <2>1 DEF Entry, Timer
  <2>3. CASE Runs(r.timerReportMaxEvt)
    <3>1. \/ r.since + r.timerReportMaxEvt.left <= r.max
          \/ r.since + r.timerReportMaxEvt.left <= 2 * r.max
      BY <2>1, <2>3 DEF Heard
    <3>2. r.since <= 2 * r.max
      BY <2>2, <3>1
    <3>3. QED
      BY <3>2 DEF r
  <2>4. CASE ~Runs(r.timerReportMaxEvt)
    BY <2>1, <2>2, <2>4 DEF Heard, r
  <2>5. QED
    BY <2>3, <2>4
<1>2. QED
  BY <1>1, ReportingQuiet, PTL

\* What the clock shows of intervals below its period is in their order.
LEMMA ShownOrder ==
  ASSUME NEW n \in Nat, NEW m \in Nat, m * UnitMs < WrapMs, Shown(n) >= Shown(m)
  PROVE  n >= m
<1>1. ASSUME NEW k \in Nat, NEW w \in Nat, k < w PROVE k % w = k
  BY <1>1
<1>2. m * UnitMs \in Nat /\ WrapMs \in Nat /\ UnitMs \in Nat /\ UnitMs >= 1
  BY ReportingAssumption
<1>3. Shown(m) = m * UnitMs
  BY <1>1, <1>2 DEF Shown
<1>4. n * UnitMs >= m * UnitMs
  <2>1. Shown(n) <= n * UnitMs /\ Shown(n) \in Nat /\ n * UnitMs \in Nat
    BY <1>2, ShownBelow
  <2>2. QED
    BY <1>2, <1>3, <2>1
<1>5. ASSUME NEW u \in Nat, u >= 1, n * u >= m * u PROVE n >= m
  <2>1. SUFFICES ASSUME n + 1 <= m PROVE FALSE
    OBVIOUS
  <2>2. PICK d \in Nat : m = n + 1 + d
    <3>1. m - n - 1 \in Nat /\ m = n + 1 + (m - n - 1)
      BY <2>1
    <3>2. QED
      BY <3>1
  <2>3. m * u = n * u + u + d * u
    BY <2>2
  <2>4. d * u \in Nat /\ n * u \in Nat
    BY <2>2
  <2>5. QED
    BY <1>5, <2>3, <2>4
<1>6. QED
  BY <1>2, <1>4, <1>5

\* The reports of the two timers.
LEMMA MinReportApart ==
  ASSUME NEW r \in Entry, Quiet(r), Due(r.timerReportMinEvt), r.got # 0
  PROVE  r.since >= r.min
<1>1. r.since + r.timerReportMinEvt.left >= r.min
  BY DEF Quiet, Apart, Due
<1>2. r.timerReportMinEvt.left = 0 /\ r.since \in Nat /\ r.min \in Nat
  BY DEF Due, Entry
<1>3. QED
  BY <1>1, <1>2

LEMMA MaxReportApart ==
  ASSUME NEW r \in Entry, Quiet(r), Due(r.timerReportMaxEvt), r.got # 0,
         r.min * UnitMs < WrapMs,
         NEW exceeded \in Exceeds(r.posted, r.min), exceeded
  PROVE  r.since >= r.min
<1>1. /\ r.since \in Nat /\ r.posted \in Nat /\ r.min \in Nat /\ r.max \in Nat
      /\ r.timerReportMaxEvt.left = 0
  BY DEF Due, Entry
<1>2. r.min < r.max /\ (r.posted <= r.since \/ r.since + r.timerReportMaxEvt.left >= r.max)
  BY DEF Quiet, Running, Apart, Due
<1>3. Shown(r.posted) >= Shown(r.min)
  <2>1. Shown(r.posted) \in Nat /\ Shown(r.min) \in Nat
    BY <1>1, ShownBelow
  <2>2. QED
    BY <2>1, ExceedsShown
<1>4. r.posted >= r.min
  BY <1>1, <1>3, ShownOrder
<1>5. QED
  BY <1>1, <1>2, <1>4

\* After the first report another one takes the end of a timer; that of the
\* minimum has run its time.
LEMMA AfterTimers ==
  ASSUME OneAtATime, TypeOK, QuietEntries, Next,
         NEW e \in Entries, app[e].max # 0,
         app[e].got # 0, app'[e].got # 0, app'[e].got # app[e].got
  PROVE  \/ app[e].since >= app[e].min
         \/ MaxTimer(e) /\ \E exceeded \in Exceeds(app[e].posted, app[e].min) : exceeded
<1>1. app[e] \in Entry /\ Quiet(app[e]) /\ app[e].since \in Nat /\ app[e].min \in Nat
  BY DEF TypeOK, QuietEntries, Entry
<1>2. CASE ReportHandler
  <2>1. app'[e] = Handled(app[e])
    BY <1>2 DEF ReportHandler
  <2>2. app[e].min = 0
    BY <1>1, <2>1, HandledEffect
  <2>3. QED
    BY <1>1, <2>2
<1>3. CASE Tick
  <2>1. app'[e] = Passed(app[e])
    BY <1>3 DEF Tick
  <2>2. app'[e].got = (IF joined /\ bound THEN app[e].got ELSE 0)
    BY <1>1, <2>1 DEF Passed, Entry
  <2>3. QED
    BY <2>2, Zenon
<1>4. CASE StopReport \/ Leave \/ Join \/ Binding
  <2>1. app' = app
    BY <1>4, Zenon DEF StopReport, Leave, Join, Binding
  <2>2. QED
    BY <2>1, Zenon
<1>5. CASE ForcedReport
  <2>1. app'[e] = [app[e] EXCEPT !.stale = FALSE]
    BY <1>5 DEF ForcedReport
  <2>2. app'[e].got = app[e].got
    BY <1>1, <2>1 DEF Entry
  <2>3. QED
    BY <2>2
<1>6. ASSUME NEW f \in Entries, NEW r, Put(f, r)
      PROVE  (f # e => app'[e] = app[e]) /\ (f = e => app'[e] = r)
  BY <1>6 DEF Put, TypeOK
<1>7. ASSUME NEW f \in Entries, MinTimer(f) PROVE app[e].since >= app[e].min
  <2>1. f = e
    BY <1>6, <1>7, Zenon DEF MinTimer
  <2>2. QED
    BY <1>1, <1>7, <2>1, MinReportApart DEF MinTimer
<1>8. ASSUME NEW f \in Entries, MaxTimer(f)
      PROVE  MaxTimer(e) /\ \E exceeded \in Exceeds(app[e].posted, app[e].min) : exceeded
  <2>1. PICK exceeded \in Exceeds(app[f].posted, app[f].min) :
          Put(f, [MaxReport(app[f], exceeded) EXCEPT !.timerReportMaxEvt = Restarted(@)])
    BY <1>8 DEF MaxTimer
  <2>2. f = e
    BY <1>6, <2>1, Zenon
  <2>3. app'[e] = [MaxReport(app[e], exceeded) EXCEPT !.timerReportMaxEvt = Restarted(@)]
    BY <1>6, <2>1, <2>2, Zenon
  <2>4. exceeded
    <3>1. SUFFICES ASSUME ~exceeded PROVE FALSE
      OBVIOUS
    <3>2. MaxReport(app[e], exceeded) = app[e]
      BY <3>1, Zenon DEF MaxReport
    <3>3. app'[e].got = app[e].got
      BY <1>1, <2>3, <3>2 DEF Entry
    <3>4. QED
      BY <3>3
  <2>5. QED
    BY <1>8, <2>1, <2>2, <2>4, Zenon
<1>9. ASSUME NEW f \in Entries, Change(f) \/ ChangeBack(f) PROVE app[e].since >= app[e].min
  <2>1. PICK b \in BOOLEAN : Put(f, [app[f] EXCEPT !.changed = b, !.stale = b])
    BY <1>9, Zenon DEF Change, ChangeBack
  <2>2. app'[e] = [app[e] EXCEPT !.changed = b, !.stale = b]
    BY <1>6, <2>1, Zenon
  <2>3. app'[e].got = app[e].got
    BY <1>1, <2>2 DEF Entry
  <2>4. QED
    BY <2>3
<1>10. CASE CfgReportCmd
  <2>1. PICK f \in Entries, r \in Entry : app' = [app EXCEPT ![f] = r] /\ r.got = 0
    BY <1>10, ConfiguredOne
  <2>2. app'[e] = app[e] \/ app'[e] = r
    BY <2>1 DEF TypeOK
  <2>3. QED
    BY <2>1, <2>2
<1>11. QED
  BY <1>2, <1>3, <1>4, <1>5, <1>7, <1>8, <1>9, <1>10 DEF Next

\* An entry in use is not reported twice within its minimum interval, once the
\* client has got a report and has not configured it since: neither by the
\* main loop nor by the timers, in whatever order they run and however the
\* network comes and goes, where the entry has a maximum interval and the
\* minimum is below the period of the clock.
THEOREM ReportsApart ==
  ASSUME OneAtATime
  PROVE  Spec => NotTooOften
<1>1. OneAtATime /\ TypeOK /\ SoundEntries /\ QuietEntries /\ [Next]_vars =>
        [\A e \in Entries :
           (/\ app[e].max # 0 /\ (MaxTimer(e) => app[e].min * UnitMs < WrapMs)
            /\ app[e].got # 0 /\ app'[e].got \notin {0, app[e].got})
              => app[e].since >= app[e].min]_vars
  <2> SUFFICES ASSUME OneAtATime, TypeOK, QuietEntries, Next,
                      NEW e \in Entries, app[e].max # 0,
                      MaxTimer(e) => app[e].min * UnitMs < WrapMs,
                      app[e].got # 0, app'[e].got # 0, app'[e].got # app[e].got,
                      MaxTimer(e),
                      \E exceeded \in Exceeds(app[e].posted, app[e].min) : exceeded
               PROVE  app[e].since >= app[e].min
    BY AfterTimers
  <2>1. app[e] \in Entry /\ Quiet(app[e]) /\ Due(app[e].timerReportMaxEvt)
    BY DEF TypeOK, QuietEntries, MaxTimer
  <2>2. QED
    BY <2>1, MaxReportApart
<1>2. QED
  BY <1>1, ReportingQuiet, PTL DEF Spec, NotTooOften

(***************************************************************************)
(* A minimum interval longer than the period of the clock.                 *)
(***************************************************************************)
\* The timers of an entry start together.
Together(r) == r.min # 0 /\ r.min < r.max /\ r.max # Disabled

\* Its minimum interval is below the period of the clock, or its maximum is a
\* multiple of its minimum, after which the clock shows some time.
Even(r) ==
  Together(r) /\ r.min * UnitMs >= WrapMs => r.max % r.min = 0 /\ Shown(r.min) # 0

\* So far ahead that the timer of the maximum ends with that of the minimum.
InStep(r) ==
  LET L == r.timerReportMaxEvt
      m == r.timerReportMinEvt
  IN  /\ r.max = Disabled => ~Runs(L)
      /\ Together(r) /\ r.min * UnitMs >= WrapMs =>
           /\ Runs(m) => Runs(L)
           /\ Runs(L) /\ ~Runs(m) => L.left = r.max
           /\ Runs(L) /\ Runs(m) =>
                \/ m.left <= L.left /\ (L.left - m.left) % r.min = 0
                \/ /\ L.left = 0 /\ m.left = r.min
                   /\ r.got # 0 => r.since >= r.min \/ r.posted = 0

Stepping(r) == Even(r) /\ InStep(r)

\* Timers run in the network only, and reports have come from there only.
Steady ==
  /\ bound
  /\ (joined /\ ~stopped)
     \/ \A e \in Entries :
          ~Runs(app[e].timerReportMinEvt) /\ ~Runs(app[e].timerReportMaxEvt)

EntriesInStep == Steady /\ \A e \in Entries : Stepping(app[e])

LEMMA Multiples ==
  ASSUME NEW n \in Nat, NEW p \in Nat, p # 0, n % p = 0, n # 0
  PROVE  p <= n /\ (n - p) % p = 0
<1>1. ASSUME NEW m \in Int, NEW w \in Int, w > 0
      PROVE  m = w * (m \div w) + (m % w)
  BY <1>1, Z3
<1>2. n = p * (n \div p)
  BY <1>1
<1>3. n \div p \in Nat
  OBVIOUS
<1>4. PICK k \in Nat : n = p * k
  BY <1>2, <1>3
<1>5. k # 0
  BY <1>4
<1>6. k - 1 \in Nat /\ n = p * (k - 1) + p
  BY <1>4, <1>5
<1>7. p * (k - 1) \in Nat /\ n - p = p * (k - 1)
  BY <1>6
<1>8. ASSUME NEW j \in Nat PROVE (p * j) % p = 0
  BY <1>8
<1>9. QED
  BY <1>6, <1>7, <1>8

LEMMA EvenKept ==
  ASSUME NEW q, NEW r, SameIntervals(q, r)
  PROVE  (Even(q) <=> Even(r)) /\ (Together(q) <=> Together(r))
BY Zenon DEF SameIntervals, Even, Together

\* Nothing to show without a timer.
LEMMA StillInStep ==
  ASSUME NEW r, ~Runs(r.timerReportMinEvt), ~Runs(r.timerReportMaxEvt)
  PROVE  InStep(r)
BY Zenon DEF InStep

LEMMA InStepKept ==
  ASSUME NEW q, NEW r, SameQuiet(q, r)
  PROVE  Stepping(r) => Stepping(q)
BY Zenon DEF SameQuiet, SameIntervals, SameTimers, Stepping, Even, InStep, Together

LEMMA StartInStep ==
  ASSUME NEW r \in Entry, Stepping(r), r.max # Disabled
  PROVE  Stepping(StartMax(StartMin(r)))
<1> DEFINE s == StartMin(r)
           x == StartMax(s)
           m == [r EXCEPT !.timerReportMinEvt = Schedule(r.min)]
           y == [s EXCEPT !.timerReportMaxEvt = Schedule(r.max)]
<1>1. s \in Entry /\ SameIntervals(s, r)
  BY StartMinEffect
<1>2. SameIntervals(x, r)
  <2>1. x = s \/ x = MinReport(s) \/ x = y
    BY <1>1 DEF StartMax, SameIntervals
  <2>2. SameIntervals(MinReport(s), s)
    BY <1>1, MinReportFields DEF SameIntervals
  <2>3. SameIntervals(y, s)
    <3> HIDE DEF s
    <3>1. QED
      BY <1>1 DEF Entry, SameIntervals
  <2> HIDE DEF s, x, y
  <2>4. QED
    BY <1>1, <2>1, <2>2, <2>3, Zenon DEF SameIntervals
<1>3. CASE ~(Together(r) /\ r.min * UnitMs >= WrapMs)
  <2>1. x.max # Disabled /\ ~(Together(x) /\ x.min * UnitMs >= WrapMs)
    BY <1>2, <1>3 DEF SameIntervals, Together
  <2>2. InStep(x)
    BY <2>1 DEF InStep
  <2>3. QED
    BY <1>2, <2>2, EvenKept DEF Stepping
<1>4. CASE Together(r) /\ r.min * UnitMs >= WrapMs
  <2>1. /\ r.min \in Nat /\ r.max \in Nat /\ r.min # 0 /\ r.min < r.max
        /\ r.max % r.min = 0
    BY <1>4 DEF Together, Stepping, Even, Entry
  <2>2. (r.max - r.min) % r.min = 0
    BY <2>1, Multiples
  <2>3. /\ Schedule(r.min) \in Timer /\ Runs(Schedule(r.min)) /\ Schedule(r.min).left = r.min
        /\ Schedule(r.max) \in Timer /\ Runs(Schedule(r.max)) /\ Schedule(r.max).left = r.max
    BY <2>1, TimerTypes
  <2>4. m \in Entry /\ m.timerReportMinEvt = Schedule(r.min) /\ SameIntervals(m, r)
        /\ m.timerReportMaxEvt = r.timerReportMaxEvt
    BY <2>3 DEF Entry, SameIntervals
  <2>5. IF Runs(r.timerReportMinEvt) THEN s = r ELSE s = m
    <3> HIDE DEF m
    <3>1. r.min <= r.max
      BY <2>1
    <3>2. QED
      BY <2>1, <3>1, Zenon DEF StartMin, m
  <2> HIDE DEF m, s
  <2>6. /\ y.timerReportMaxEvt = Schedule(r.max) /\ y.timerReportMinEvt = s.timerReportMinEvt
    BY <1>1 DEF Entry
  <2>7. IF Runs(s.timerReportMaxEvt) THEN x = s ELSE x = y
    <3>1. s.max = r.max /\ s.min < s.max /\ s.max # 0
      BY <1>1, <2>1 DEF SameIntervals
    <3>2. QED
      BY <3>1, Zenon DEF StartMax
  <2> HIDE DEF x, y
  <2>8. s.timerReportMaxEvt = r.timerReportMaxEvt
    BY <2>4, <2>5
  <2>9. CASE Runs(r.timerReportMinEvt)
    <3>1. Runs(r.timerReportMaxEvt)
      BY <1>4, <2>9 DEF Stepping, InStep
    <3>2. x = r
      BY <2>5, <2>7, <2>8, <2>9, <3>1
    <3>3. QED
      BY <3>2 DEF x, s
  <2>10. CASE ~Runs(r.timerReportMinEvt)
    <3>1. s = m
      BY <2>5, <2>10
    <3>2. Runs(r.timerReportMaxEvt) => r.timerReportMaxEvt.left = r.max
      BY <1>4, <2>10 DEF Stepping, InStep
    <3>3. /\ Runs(x.timerReportMinEvt) /\ x.timerReportMinEvt.left = r.min
          /\ Runs(x.timerReportMaxEvt) /\ x.timerReportMaxEvt.left = r.max
      BY <2>3, <2>4, <2>6, <2>7, <2>8, <3>1, <3>2
    <3>4. /\ x.min = r.min /\ x.max = r.max
          /\ x.timerReportMinEvt.left <= x.timerReportMaxEvt.left
          /\ (x.timerReportMaxEvt.left - x.timerReportMinEvt.left) % x.min = 0
      BY <1>2, <2>1, <2>2, <3>3 DEF SameIntervals
    <3>5. InStep(x)
      BY <3>3, <3>4 DEF InStep
    <3>6. QED
      BY <1>2, <3>5, EvenKept DEF Stepping, x, s
  <2>11. QED
    BY <2>9, <2>10
<1>5. QED
  BY <1>3, <1>4

LEMMA HandledInStep ==
  ASSUME NEW r \in Entry, Stepping(r)
  PROVE  Stepping(Handled(r))
<1> DEFINE n == NoMinLimit(r)
<1>1. n \in Entry
  BY NoMinLimitKeeps
<1>2. Stepping(n)
  <2>1. CASE n = r
    BY <2>1
  <2>2. CASE n # r
    <3>1. SameIntervals(n, r) /\ (r.max = 0 \/ (r.max # Disabled /\ r.min = 0))
      BY <2>2, NoMinLimitFields
    <3>2. n.max # Disabled /\ ~Together(n)
      BY <3>1, <1>1 DEF SameIntervals, Together, Disabled, Entry
    <3>3. QED
      BY <3>2 DEF Stepping, Even, InStep
  <2>3. QED
    BY <2>1, <2>2
<1> HIDE DEF n
<1>3. Stepping(TimerStart(n))
  BY <1>1, <1>2, StartInStep, Zenon DEF TimerStart
<1>4. QED
  BY <1>3, Zenon DEF Handled, n

\* The main loop is done with an entry only when the timer of its minimum runs.
LEMMA HandledStarts ==
  ASSUME NEW r \in Entry, Together(r), joined, bound, ~stopped, Handled(r) = r
  PROVE  Runs(r.timerReportMinEvt)
<1> DEFINE s == StartMin(r)
<1>1. r.min \in Nat /\ r.max \in Nat /\ r.min # 0 /\ r.max # 0 /\ r.min <= r.max
      /\ r.max # Disabled /\ r.min < r.max
  BY DEF Together, Entry
<1>2. NoMinLimit(r) = r
  BY <1>1, Zenon DEF NoMinLimit
<1>3. StartMax(s) = r
  BY <1>1, <1>2, Zenon DEF Handled, TimerStart
<1>4. s \in Entry /\ SameIntervals(s, r)
  BY StartMinEffect
<1>5. Runs(s.timerReportMinEvt)
  <2>1. Schedule(r.min) \in Timer /\ Runs(Schedule(r.min))
    BY <1>1, TimerTypes
  <2>2. [r EXCEPT !.timerReportMinEvt = Schedule(r.min)].timerReportMinEvt = Schedule(r.min)
    BY DEF Entry
  <2>3. QED
    BY <1>1, <2>1, <2>2, Zenon DEF StartMin
<1> HIDE DEF s
<1>6. StartMax(s).timerReportMinEvt = s.timerReportMinEvt
  <2>1. StartMax(s) = s \/ StartMax(s) = [s EXCEPT !.timerReportMaxEvt = Schedule(s.max)]
    BY <1>1, <1>4, Zenon DEF StartMax, SameIntervals
  <2>2. QED
    BY <1>4, <2>1 DEF Entry
<1>7. QED
  BY <1>3, <1>5, <1>6

\* When the timer of the maximum ends, its report does not follow another one
\* within the minimum interval.
LEMMA MaxReportInStep ==
  ASSUME NEW r \in Entry, Quiet(r), Stepping(r), Due(r.timerReportMaxEvt), r.got # 0,
         NEW exceeded \in Exceeds(r.posted, r.min), exceeded
  PROVE  r.since >= r.min
<1>1. /\ r.since \in Nat /\ r.min \in Nat /\ r.max \in Nat
      /\ Runs(r.timerReportMaxEvt) /\ r.timerReportMaxEvt.left = 0
      /\ r.timerReportMinEvt.left \in Nat
  BY DEF Entry, Timer, Due
<1>2. r.min < r.max /\ r.max # Disabled
  BY <1>1 DEF Quiet, Running, Stepping, InStep
<1>3. r.min * UnitMs \in Nat /\ WrapMs \in Nat
  BY <1>1, ReportingAssumption
<1>4. CASE r.min * UnitMs < WrapMs
  BY <1>4, MaxReportApart
<1>5. CASE r.min = 0
  BY <1>1, <1>5
<1>6. CASE r.min # 0 /\ r.min * UnitMs >= WrapMs
  <2>1. Together(r)
    BY <1>2, <1>6 DEF Together
  <2>2. Runs(r.timerReportMinEvt)
    BY <1>1, <1>2, <1>6, <2>1 DEF Stepping, InStep
  <2>3. \/ r.timerReportMinEvt.left <= r.timerReportMaxEvt.left
        \/ r.since >= r.min \/ r.posted = 0
    BY <1>1, <1>6, <2>1, <2>2 DEF Stepping, InStep
  <2>4. CASE r.timerReportMinEvt.left <= r.timerReportMaxEvt.left
    <3>1. Due(r.timerReportMinEvt)
      BY <1>1, <2>2, <2>4 DEF Due
    <3>2. QED
      BY <3>1, MinReportApart
  <2>5. CASE r.posted = 0
    <3>1. Shown(r.min) \in Nat /\ Shown(r.min) # 0
      BY <1>1, <1>6, <2>1, ShownBelow DEF Stepping, Even
    <3>2. Shown(r.posted) = 0
      BY <2>5, ReportingAssumption DEF Shown
    <3>3. FALSE
      <4>1. Shown(r.posted) >= Shown(r.min)
        <5>1. Shown(r.posted) \in Nat /\ Shown(r.min) \in Nat
          BY <3>1, <3>2
        <5>2. QED
          BY <5>1, ExceedsShown
      <4>2. QED
        BY <3>1, <3>2, <4>1
    <3>4. QED
      BY <3>3
  <2>6. QED
    BY <2>3, <2>4, <2>5
<1>7. QED
  BY <1>3, <1>4, <1>5, <1>6

LEMMA MinTimerInStep ==
  ASSUME NEW r \in Entry, Quiet(r), Stepping(r), Effective(r), Due(r.timerReportMinEvt)
  PROVE  Stepping([MinReport(r) EXCEPT !.timerReportMinEvt = Restarted(@)])
<1> DEFINE m == MinReport(r)
           t == Restarted(r.timerReportMinEvt)
           q == [m EXCEPT !.timerReportMinEvt = t]
<1>1. /\ m \in Entry /\ SameIntervals(m, r) /\ SameTimers(m, r)
      /\ m = r \/ (m.since = 0 /\ m.posted = 0)
  BY MinReportFields DEF SameIntervals, SameTimers
<1>2. [m EXCEPT !.timerReportMinEvt = Restarted(@)] = q
  BY <1>1 DEF Entry, SameTimers
<1>3. t \in Timer /\ t.left = r.min /\ r.min \in Nat /\ r.max \in Nat
      /\ (r.min # 0 => Runs(t))
  <2>1. r.timerReportMinEvt.period = r.min
    BY DEF Effective, Due
  <2>2. QED
    BY <2>1, TimerTypes DEF Restarted, Entry
<1> HIDE DEF m, t
<1>4. /\ q \in Entry /\ SameIntervals(q, r) /\ q.timerReportMinEvt = t
      /\ q.timerReportMaxEvt = r.timerReportMaxEvt
      /\ q.since = m.since /\ q.posted = m.posted /\ q.got = m.got
  BY <1>1, <1>3 DEF Entry, SameIntervals, SameTimers
<1> HIDE DEF q
<1>5. InStep(q)
  <2>1. q.max = Disabled => ~Runs(q.timerReportMaxEvt)
    BY <1>4 DEF SameIntervals, Stepping, InStep
  <2>2. ASSUME Together(q), q.min * UnitMs >= WrapMs
        PROVE  /\ Runs(q.timerReportMinEvt) /\ Runs(q.timerReportMaxEvt)
               /\ \/ /\ q.timerReportMinEvt.left <= q.timerReportMaxEvt.left
                     /\ (q.timerReportMaxEvt.left - q.timerReportMinEvt.left) % q.min = 0
                  \/ /\ q.timerReportMaxEvt.left = 0 /\ q.timerReportMinEvt.left = q.min
                     /\ q.got # 0 => q.since >= q.min \/ q.posted = 0
    <3>1. Together(r) /\ r.min * UnitMs >= WrapMs /\ r.min # 0 /\ q.min = r.min
      BY <1>4, <2>2 DEF SameIntervals, Together
    <3>2. Runs(r.timerReportMinEvt) /\ r.timerReportMinEvt.left = 0
      BY DEF Due
    <3>3. Runs(r.timerReportMaxEvt)
      BY <3>1, <3>2 DEF Stepping, InStep
    <3>4. /\ r.timerReportMaxEvt.left \in Nat
          /\ r.timerReportMaxEvt.left % r.min = 0
      <4>1. r.timerReportMaxEvt.left \in Nat
        BY DEF Entry, Timer
      <4>2. (r.timerReportMaxEvt.left - r.timerReportMinEvt.left) % r.min = 0
        BY <1>3, <3>1, <3>2, <3>3 DEF Stepping, InStep
      <4>3. r.timerReportMaxEvt.left - r.timerReportMinEvt.left = r.timerReportMaxEvt.left
        BY <3>2, <4>1
      <4>4. QED
        BY <4>1, <4>2, <4>3
    <3>5. CASE r.timerReportMaxEvt.left # 0
      <4>1. r.min <= r.timerReportMaxEvt.left
            /\ (r.timerReportMaxEvt.left - r.min) % r.min = 0
        BY <1>3, <3>1, <3>4, <3>5, Multiples
      <4>2. QED
        BY <1>3, <1>4, <3>1, <3>3, <4>1
    <3>6. CASE r.timerReportMaxEvt.left = 0
      <4>1. q.got # 0 => q.since >= q.min \/ q.posted = 0
        <5>1. CASE m = r
          BY <1>4, <3>1, <5>1, MinReportApart
        <5>2. CASE m.posted = 0
          BY <1>4, <5>2
        <5>3. QED
          BY <1>1, <5>1, <5>2
      <4>2. QED
        BY <1>3, <1>4, <3>1, <3>3, <3>6, <4>1
    <3>7. QED
      BY <3>5, <3>6
  <2>3. QED
    BY <2>1, <2>2 DEF InStep
<1>6. QED
  BY <1>2, <1>4, <1>5, EvenKept, Zenon DEF Stepping, m

LEMMA MaxTimerInStep ==
  ASSUME NEW r \in Entry, Quiet(r), Stepping(r), Effective(r), Due(r.timerReportMaxEvt),
         NEW exceeded
  PROVE  Stepping([MaxReport(r, exceeded) EXCEPT !.timerReportMaxEvt = Restarted(@)])
<1> DEFINE a == ReportAttr(r)
           n == [a EXCEPT !.timerReportMinEvt = Null]
           m == MaxReport(r, exceeded)
           t == Restarted(r.timerReportMaxEvt)
           q == [m EXCEPT !.timerReportMaxEvt = t]
<1>1. a \in Entry /\ SameIntervals(a, r) /\ SameTimers(a, r)
  BY Attr
<1>2. (exceeded => m = n) /\ (~exceeded => m = r)
  BY Zenon DEF MaxReport
<1> HIDE DEF a
<1>3. /\ n \in Entry /\ SameIntervals(n, r)
      /\ n.timerReportMinEvt = Null /\ n.timerReportMaxEvt = r.timerReportMaxEvt
  BY <1>1, TimerTypes DEF Entry, SameIntervals, SameTimers
<1> HIDE DEF n
<1>4. m \in Entry /\ SameIntervals(m, r) /\ m.timerReportMaxEvt = r.timerReportMaxEvt
  <2>1. CASE exceeded
    BY <1>2, <1>3, <2>1
  <2>2. CASE ~exceeded
    BY <1>2, <2>2 DEF SameIntervals
  <2>3. QED
    BY <2>1, <2>2, Zenon
<1> HIDE DEF m
<1>5. [m EXCEPT !.timerReportMaxEvt = Restarted(@)] = q
  BY <1>4 DEF Entry
<1>6. r.timerReportMaxEvt.period = r.max /\ r.min < r.max /\ r.min \in Nat /\ r.max \in Nat
  BY DEF Effective, Due, Quiet, Running, Entry
<1>7. t \in Timer /\ Runs(t) /\ t.left = r.max
  BY <1>6, TimerTypes DEF Restarted
<1> HIDE DEF t
<1>8. /\ SameIntervals(q, r) /\ q.timerReportMaxEvt = t
      /\ q.timerReportMinEvt = m.timerReportMinEvt
  BY <1>4, <1>7 DEF Entry, SameIntervals
<1> HIDE DEF q
<1>9. InStep(q)
  <2>1. q.max # Disabled
    BY <1>8 DEF SameIntervals, Stepping, InStep, Due
  <2>2. ASSUME Together(q), q.min * UnitMs >= WrapMs, Runs(q.timerReportMinEvt)
        PROVE  /\ q.timerReportMinEvt.left <= q.timerReportMaxEvt.left
               /\ (q.timerReportMaxEvt.left - q.timerReportMinEvt.left) % q.min = 0
    <3>1. Together(r) /\ r.min * UnitMs >= WrapMs /\ r.min # 0 /\ q.min = r.min
      BY <1>8, <2>2 DEF SameIntervals, Together
    <3>2. q.timerReportMinEvt = r.timerReportMinEvt
      BY <1>2, <1>3, <1>8, <2>2, TimerTypes
    <3>3. /\ Runs(r.timerReportMaxEvt) /\ r.timerReportMaxEvt.left = 0
          /\ r.timerReportMinEvt.left \in Nat
      BY DEF Due, Entry, Timer
    <3>4. \/ r.timerReportMinEvt.left <= r.timerReportMaxEvt.left
          \/ r.timerReportMinEvt.left = r.min
      BY <2>2, <3>1, <3>2, <3>3 DEF Stepping, InStep
    <3>5. r.max % r.min = 0
      BY <3>1 DEF Stepping, Even
    <3>6. CASE r.timerReportMinEvt.left = 0
      <4>1. r.max - 0 = r.max
        BY <1>6
      <4>2. QED
        BY <1>6, <1>7, <1>8, <3>1, <3>2, <3>5, <3>6, <4>1
    <3>7. CASE r.timerReportMinEvt.left = r.min
      <4>1. (r.max - r.min) % r.min = 0
        BY <1>6, <3>1, <3>5, Multiples
      <4>2. QED
        BY <1>6, <1>7, <1>8, <3>1, <3>2, <3>7, <4>1
    <3>8. QED
      BY <3>3, <3>4, <3>6, <3>7
  <2>3. Runs(q.timerReportMaxEvt) /\ q.timerReportMaxEvt.left = q.max
    BY <1>7, <1>8 DEF SameIntervals
  <2>4. QED
    BY <2>1, <2>2, <2>3 DEF InStep
<1>10. QED
  BY <1>5, <1>8, <1>9, EvenKept, Zenon DEF Stepping, m

LEMMA PassedInStep ==
  ASSUME NEW r \in Entry, Quiet(r), Stepping(r), Effective(r),
         ~Due(r.timerReportMinEvt), ~Due(r.timerReportMaxEvt),
         \/ joined /\ bound /\ ~stopped /\ Handled(r) = r
         \/ ~Runs(r.timerReportMinEvt) /\ ~Runs(r.timerReportMaxEvt)
  PROVE  Stepping(Passed(r))
<1> DEFINE q == Passed(r)
<1>1. /\ SameIntervals(q, r)
      /\ q.timerReportMinEvt = Down(r.timerReportMinEvt)
      /\ q.timerReportMaxEvt = Down(r.timerReportMaxEvt)
  BY DEF Passed, Entry, SameIntervals
<1> HIDE DEF q
<1>2. \A t : ~Runs(t) => ~Runs(Down(t))
  BY DEF Down
<1>3. CASE ~Runs(r.timerReportMinEvt) /\ ~Runs(r.timerReportMaxEvt)
  <2>1. InStep(q)
    BY <1>1, <1>2, <1>3, StillInStep
  <2>2. QED
    BY <1>1, <2>1, EvenKept, Zenon DEF Stepping, q
<1>4. CASE joined /\ bound /\ ~stopped /\ Handled(r) = r
  <2>1. q.max = Disabled => ~Runs(q.timerReportMaxEvt)
    BY <1>1, <1>2 DEF SameIntervals, Stepping, InStep
  <2>2. ASSUME Together(q), q.min * UnitMs >= WrapMs
        PROVE  /\ Runs(q.timerReportMinEvt) /\ Runs(q.timerReportMaxEvt)
               /\ q.timerReportMinEvt.left <= q.timerReportMaxEvt.left
               /\ (q.timerReportMaxEvt.left - q.timerReportMinEvt.left) % q.min = 0
    <3>1. Together(r) /\ r.min * UnitMs >= WrapMs /\ q.min = r.min /\ r.min # 0
          /\ r.min < r.max /\ r.min \in Nat /\ r.max \in Nat
      BY <1>1, <2>2 DEF SameIntervals, Together, Entry
    <3>2. Runs(r.timerReportMinEvt)
      BY <1>4, <3>1, HandledStarts
    <3>3. Runs(r.timerReportMaxEvt)
      BY <3>1, <3>2 DEF Stepping, InStep
    <3>4. /\ r.timerReportMinEvt \in Timer /\ r.timerReportMaxEvt \in Timer
          /\ r.timerReportMinEvt.left \in Nat /\ r.timerReportMaxEvt.left \in Nat
          /\ r.timerReportMinEvt.period # 0 /\ r.timerReportMaxEvt.period # 0
          /\ r.timerReportMinEvt.left # 0 /\ r.timerReportMaxEvt.left # 0
      BY <3>1, <3>2, <3>3 DEF Entry, Timer, Effective, Due
    <3>5. ASSUME NEW t \in Timer, Runs(t), t.period # 0
          PROVE  Runs(Down(t)) /\ Down(t).left = t.left - 1
      BY <3>5 DEF Down, Runs, Timer, Null
    <3>6. /\ Runs(q.timerReportMinEvt) /\ Runs(q.timerReportMaxEvt)
          /\ q.timerReportMinEvt.left = r.timerReportMinEvt.left - 1
          /\ q.timerReportMaxEvt.left = r.timerReportMaxEvt.left - 1
      BY <1>1, <3>2, <3>3, <3>4, <3>5
    <3>7. /\ r.timerReportMinEvt.left <= r.timerReportMaxEvt.left
          /\ (r.timerReportMaxEvt.left - r.timerReportMinEvt.left) % r.min = 0
      BY <3>1, <3>2, <3>3, <3>4 DEF Stepping, InStep
    <3>8. q.timerReportMaxEvt.left - q.timerReportMinEvt.left
            = r.timerReportMaxEvt.left - r.timerReportMinEvt.left
      BY <3>4, <3>6
    <3>9. QED
      BY <3>1, <3>4, <3>6, <3>7, <3>8
  <2>3. InStep(q)
    BY <2>1, <2>2 DEF InStep
  <2>4. QED
    BY <1>1, <2>3, EvenKept, Zenon DEF Stepping, q
<1>5. QED
  BY <1>3, <1>4

LEMMA EntryInStep ==
  ASSUME TypeOK, Steady, Steady', \A e \in Entries : Stepping(app[e]),
         NEW f \in Entries, NEW r, app' = [app EXCEPT ![f] = r], Stepping(r)
  PROVE  EntriesInStep'
<1>1. \A e \in Entries : app'[e] = IF e = f THEN r ELSE app[e]
  BY DEF TypeOK
<1>2. QED
  BY <1>1, Zenon DEF EntriesInStep

\* A step that starts no timer, or that takes place in the network.
LEMMA SteadyStep ==
  ASSUME Steady, bound' = bound, joined' = joined, stopped' = stopped,
         \/ joined /\ ~stopped
         \/ \A e \in Entries :
              ~Runs(app'[e].timerReportMinEvt) /\ ~Runs(app'[e].timerReportMaxEvt)
  PROVE  Steady'
BY DEF Steady

\* Intervals a client or user_init chooses.
EvenIntervals == (\A c \in Configs : Even(c)) /\ \A e \in Entries : Even(Initial[e])

LEMMA InStepInit ==
  ASSUME EvenIntervals, Init
  PROVE  EntriesInStep
<1>1. ASSUME NEW e \in Entries
      PROVE  /\ ~Runs(app[e].timerReportMinEvt) /\ ~Runs(app[e].timerReportMaxEvt)
             /\ Even(app[e])
  <2>1. /\ app[e].timerReportMinEvt = Null /\ app[e].timerReportMaxEvt = Null
        /\ SameIntervals(app[e], Initial[e])
    BY DEF Init, SameIntervals
  <2>2. QED
    BY <2>1, TimerTypes, EvenKept, Zenon DEF EvenIntervals
<1>2. Steady
  BY <1>1, Zenon DEF Init, Steady
<1>3. QED
  BY <1>1, <1>2, StillInStep, Zenon DEF EntriesInStep, Stepping

LEMMA InStepStep ==
  ASSUME OneAtATime, Unstable = {}, EvenIntervals,
         TypeOK, SoundEntries, QuietEntries, EntriesInStep, [Next]_vars
  PROVE  EntriesInStep'
<1>1. \A e \in Entries : /\ app[e] \in Entry /\ Quiet(app[e]) /\ Effective(app[e])
                         /\ Stepping(app[e])
  BY DEF TypeOK, QuietEntries, SoundEntries, Sound, EntriesInStep
<1>2. Steady /\ \A e \in Entries : Stepping(app[e])
  BY DEF EntriesInStep
<1>3. CASE ReportHandler
  <2>1. /\ \A e \in Entries : app'[e] = Handled(app[e])
        /\ bound' = bound /\ joined' = joined /\ stopped' = stopped
    BY <1>3 DEF ReportHandler
  <2>2. ~(joined /\ ~stopped) => \A e \in Entries : app'[e] = app[e]
    BY <2>1, Zenon DEF Handled
  <2>3. Steady'
    BY <1>2, <2>1, <2>2, Zenon DEF Steady
  <2>4. \A e \in Entries : Stepping(app'[e])
    BY <1>1, <2>1, HandledInStep, Zenon
  <2>5. QED
    BY <2>3, <2>4, Zenon DEF EntriesInStep
<1>4. CASE Tick
  <2>1. /\ ~stopped /\ bound' = bound /\ joined' = joined /\ stopped' = stopped
    BY <1>4 DEF Tick
  <2>2. ASSUME NEW e \in Entries
        PROVE  /\ ~Due(app[e].timerReportMinEvt) /\ ~Due(app[e].timerReportMaxEvt)
               /\ Handled(app[e]) = app[e] /\ app'[e] = Passed(app[e])
    BY <1>4 DEF Tick
  <2>3. \A e \in Entries : Stepping(app'[e])
    <3> SUFFICES ASSUME NEW e \in Entries PROVE Stepping(app'[e])
      OBVIOUS
    <3>1. \/ joined /\ bound /\ ~stopped
          \/ ~Runs(app[e].timerReportMinEvt) /\ ~Runs(app[e].timerReportMaxEvt)
      BY <1>2, <2>1, Zenon DEF Steady
    <3>2. QED
      BY <1>1, <2>1, <2>2, <3>1, PassedInStep
  <2>4. ASSUME ~joined, NEW e \in Entries
        PROVE  ~Runs(app'[e].timerReportMinEvt) /\ ~Runs(app'[e].timerReportMaxEvt)
    <3>1. ~Runs(app[e].timerReportMinEvt) /\ ~Runs(app[e].timerReportMaxEvt)
      BY <1>2, <2>4, Zenon DEF Steady
    <3>2. /\ app'[e].timerReportMinEvt = Down(app[e].timerReportMinEvt)
          /\ app'[e].timerReportMaxEvt = Down(app[e].timerReportMaxEvt)
      BY <1>1, <2>2 DEF Passed, Entry
    <3>3. QED
      BY <3>1, <3>2, Zenon DEF Down
  <2>5. Steady'
    BY <1>2, <2>1, <2>4, SteadyStep, Zenon
  <2>6. QED
    BY <2>3, <2>5, Zenon DEF EntriesInStep
<1>5. CASE StopReport \/ Leave \/ Join \/ Binding \/ UNCHANGED vars
  <2>1. app' = app
    BY <1>5, Zenon DEF StopReport, Leave, Join, Binding, vars
  <2>2. ~Leave /\ ~Binding
    BY DEF Leave, Binding
  <2>3. Steady'
    <3>1. CASE StopReport
      BY <1>2, <3>1, Zenon DEF Steady, StopReport
    <3>2. CASE Join
      BY <1>2, <3>2, Zenon DEF Steady, Join
    <3>3. CASE UNCHANGED vars
      BY <1>2, <3>3, Zenon DEF Steady, vars
    <3>4. QED
      BY <1>5, <2>2, <3>1, <3>2, <3>3
  <2>4. QED
    BY <1>2, <2>1, <2>3, Zenon DEF EntriesInStep
<1>6. CASE ForcedReport
  <2>1. /\ \A e \in Entries : app'[e] = [app[e] EXCEPT !.stale = FALSE]
        /\ bound' = bound /\ joined' = joined /\ stopped' = stopped
    BY <1>6 DEF ForcedReport
  <2>2. \A e \in Entries : SameQuiet(app'[e], app[e])
    BY <1>1, <2>1 DEF SameQuiet, SameIntervals, SameTimers, Entry
  <2>3. \A e \in Entries : Stepping(app'[e])
    BY <1>1, <2>2, InStepKept, Zenon
  <2>4. Steady'
    BY <1>2, <2>1, <2>2, Zenon DEF Steady, SameQuiet, SameTimers
  <2>5. QED
    BY <2>3, <2>4, Zenon DEF EntriesInStep
<1>7. ASSUME NEW f \in Entries, NEW r, Put(f, r), Stepping(r),
             \/ Runs(app[f].timerReportMinEvt) \/ Runs(app[f].timerReportMaxEvt)
             \/ SameTimers(r, app[f])
      PROVE  EntriesInStep'
  <2>1. app' = [app EXCEPT ![f] = r]
        /\ bound' = bound /\ joined' = joined /\ stopped' = stopped
    BY <1>7 DEF Put
  <2>2. \A e \in Entries : app'[e] = IF e = f THEN r ELSE app[e]
    BY <2>1 DEF TypeOK
  <2>3. Steady'
    <3>1. CASE joined /\ ~stopped
      BY <1>2, <2>1, <3>1, SteadyStep
    <3>2. CASE ~(joined /\ ~stopped)
      <4>1. \A e \in Entries :
              ~Runs(app[e].timerReportMinEvt) /\ ~Runs(app[e].timerReportMaxEvt)
        BY <1>2, <3>2, Zenon DEF Steady
      <4>2. SameTimers(r, app[f])
        BY <1>7, <4>1, Zenon
      <4>3. \A e \in Entries :
              ~Runs(app'[e].timerReportMinEvt) /\ ~Runs(app'[e].timerReportMaxEvt)
        BY <2>2, <4>1, <4>2, Zenon DEF SameTimers
      <4>4. QED
        BY <1>2, <2>1, <4>3, SteadyStep, Zenon
    <3>3. QED
      BY <3>1, <3>2
  <2>4. QED
    BY <1>2, <1>7, <2>1, <2>3, EntryInStep, Zenon
<1>8. ASSUME NEW e \in Entries, MinTimer(e) PROVE EntriesInStep'
  <2>1. Due(app[e].timerReportMinEvt) /\ Runs(app[e].timerReportMinEvt)
        /\ Put(e, [MinReport(app[e]) EXCEPT !.timerReportMinEvt = Restarted(@)])
    BY <1>8 DEF MinTimer, Due
  <2>2. Stepping([MinReport(app[e]) EXCEPT !.timerReportMinEvt = Restarted(@)])
    BY <1>1, <2>1, MinTimerInStep
  <2>3. QED
    BY <1>7, <2>1, <2>2, Zenon
<1>9. ASSUME NEW e \in Entries, MaxTimer(e) PROVE EntriesInStep'
  <2>1. PICK exceeded \in Exceeds(app[e].posted, app[e].min) :
          Put(e, [MaxReport(app[e], exceeded) EXCEPT !.timerReportMaxEvt = Restarted(@)])
    BY <1>9 DEF MaxTimer
  <2>2. Due(app[e].timerReportMaxEvt) /\ Runs(app[e].timerReportMaxEvt)
    BY <1>9 DEF MaxTimer, Due
  <2>3. Stepping([MaxReport(app[e], exceeded) EXCEPT !.timerReportMaxEvt = Restarted(@)])
    BY <1>1, <2>2, MaxTimerInStep
  <2>4. QED
    BY <1>7, <2>1, <2>2, <2>3, Zenon
<1>10. ASSUME NEW e \in Entries, Change(e) \/ ChangeBack(e) PROVE EntriesInStep'
  <2>1. PICK b \in BOOLEAN : Put(e, [app[e] EXCEPT !.changed = b, !.stale = b])
    BY <1>10, Zenon DEF Change, ChangeBack
  <2>2. SameQuiet([app[e] EXCEPT !.changed = b, !.stale = b], app[e])
    BY <1>1 DEF SameQuiet, SameIntervals, SameTimers, Entry
  <2>3. Stepping([app[e] EXCEPT !.changed = b, !.stale = b])
    BY <1>1, <2>2, InStepKept, Zenon
  <2>4. QED
    BY <1>7, <2>1, <2>2, <2>3, Zenon DEF SameQuiet
<1>11. CASE CfgReportCmd
  <2>1. PICK f \in Entries, r \in Entry :
           /\ app' = [app EXCEPT ![f] = r]
           /\ r.timerReportMinEvt = Null /\ r.timerReportMaxEvt = Null
           /\ \E c \in Configs : SameIntervals(r, c)
    BY <1>11, ConfiguredOne, Zenon
  <2>2. ~Runs(r.timerReportMinEvt) /\ ~Runs(r.timerReportMaxEvt)
    BY <2>1, TimerTypes
  <2>3. Stepping(r)
    BY <2>1, <2>2, EvenKept, StillInStep, Zenon DEF EvenIntervals, Stepping
  <2>4. bound' = bound /\ joined' = joined /\ stopped' = stopped
    BY <1>11 DEF CfgReportCmd
  <2>5. \A e \in Entries : app'[e] = IF e = f THEN r ELSE app[e]
    BY <2>1 DEF TypeOK
  <2>6. Steady'
    BY <1>2, <2>2, <2>4, <2>5, Zenon DEF Steady
  <2>7. QED
    BY <1>2, <2>1, <2>3, <2>6, EntryInStep, Zenon
<1>12. QED
  BY <1>3, <1>4, <1>5, <1>6, <1>8, <1>9, <1>10, <1>11 DEF Next

LEMMA ReportingInStep ==
  ASSUME OneAtATime, Unstable = {}, EvenIntervals
  PROVE  Spec => [](TypeOK /\ SoundEntries /\ QuietEntries /\ EntriesInStep)
<1>1. Init => TypeOK /\ SoundEntries /\ QuietEntries /\ EntriesInStep
  BY ReportingInit, QuietInit, InStepInit
<1>2. TypeOK /\ SoundEntries /\ QuietEntries /\ EntriesInStep /\ [Next]_vars
        => (TypeOK /\ SoundEntries /\ QuietEntries /\ EntriesInStep)'
  BY ReportingStep, QuietStep, InStepStep
<1>3. QED
  BY <1>1, <1>2, PTL DEF Spec

\* In a network that stays, the minimum interval is kept on any clock by
\* intervals of which the maximum is a multiple of the minimum, as those of
\* user_init: the two timers of an entry stay in step, and the clock shows none
\* of a minimum that is just over.
THEOREM MinimumKeptInStep ==
  ASSUME OneAtATime, Unstable = {}, EvenIntervals
  PROVE  Spec => MinimumKept
<1>1. OneAtATime /\ TypeOK /\ SoundEntries /\ QuietEntries /\ EntriesInStep /\ [Next]_vars =>
        [\A e \in Entries :
           (app[e].max # 0 /\ app[e].got # 0 /\ app'[e].got \notin {0, app[e].got})
             => app[e].since >= app[e].min]_vars
  <2> SUFFICES ASSUME OneAtATime, TypeOK, QuietEntries, EntriesInStep, Next,
                      NEW e \in Entries, app[e].max # 0,
                      app[e].got # 0, app'[e].got # 0, app'[e].got # app[e].got,
                      MaxTimer(e),
                      \E exceeded \in Exceeds(app[e].posted, app[e].min) : exceeded
               PROVE  app[e].since >= app[e].min
    BY AfterTimers
  <2>1. /\ app[e] \in Entry /\ Quiet(app[e]) /\ Stepping(app[e])
        /\ Due(app[e].timerReportMaxEvt)
    BY DEF TypeOK, QuietEntries, EntriesInStep, MaxTimer
  <2>2. QED
    BY <2>1, MaxReportInStep
<1>2. QED
  BY <1>1, ReportingInStep, PTL DEF Spec, MinimumKept
=============================================================================
