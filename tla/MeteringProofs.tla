--------------------------- MODULE MeteringProofs ---------------------------
(***************************************************************************)
(* Every closure of a contact is counted exactly once, clients read what   *)
(* is counted on, and a start comes up with what was counted, for any      *)
(* number of channels, any length of the debouncing and any requests.      *)
(***************************************************************************)
EXTENDS Metering, TLAPS

\* Types of what the counting is about.
CountType ==
  /\ closed \in [Channels -> BOOLEAN]
  /\ deb \in [Channels -> 1 .. Polls]
  /\ count \in [Channels -> {0, 1}]
  /\ owed \in [Channels -> Int]
  /\ state \in {"up", "stopped", "reset", "unpowered"}

\* A pulse left by the start belongs to a contact that was closed then, so
\* that the debouncing does not find it again; a register without the flag
\* says of no contact that it was open, and a power loss leaves nothing.
Woken ==
  /\ state = "up" => \A c \in Channels : count[c] = 1 => deb[c] = Polls
  /\ ~reg.flag => reg.open = {}
  /\ state = "unpowered" => reg = NoReg

CountInv == CountType /\ Woken /\ EachClosureCountedOnce

LEMMA InitCounts == Init => CountInv
BY MeteringAssumption DEF Init, CountInv, CountType, Woken, EachClosureCountedOnce, NoReg, NoDeb, NoCount

\* A contact that changes.
LEMMA ContactCounts ==
  ASSUME CountInv, NEW k \in Channels, Contact(k)
  PROVE  CountInv'
<1> USE MeteringAssumption DEF CountInv
<1>1. CountType'
  BY DEF CountType, Contact, Closes, Blur
<1>2. Woken'
  BY DEF Woken, Contact
<1>3. ASSUME NEW c \in Channels, c \notin blurred'
      PROVE  owed'[c] = CASE state = "up" -> IF closed'[c] /\ deb[c] < Polls THEN 1 ELSE count[c]
                          [] state \in {"stopped", "reset"} ->
                               IF closed'[c] /\ c \in reg.open THEN 1 ELSE 0
                          [] state = "unpowered" -> 0
  <2>1. c \notin blurred
    BY <1>3 DEF Contact, Closes, Blur
  <2>2. owed[c] = CASE state = "up" -> IF closed[c] /\ deb[c] < Polls THEN 1 ELSE count[c]
                    [] state \in {"stopped", "reset"} ->
                         IF closed[c] /\ c \in reg.open THEN 1 ELSE 0
                    [] state = "unpowered" -> 0
    BY <2>1 DEF EachClosureCountedOnce
  <2>3. CASE c # k
    BY <2>2, <2>3, <2>1 DEF Contact, Closes, Blur, CountType
  <2>4. CASE c = k
    <3>1. Stable(c) /\ Closes(c)
      BY <1>3, <2>4 DEF Contact, Blur
    <3>2. closed'[c] = ~closed[c]
      BY <2>4 DEF Contact, CountType
    <3>3. CASE state = "up"
      <4>1. deb[c] = IF closed[c] THEN Polls ELSE 1
        BY <3>1, <3>3 DEF Stable, Settled
      <4>2. owed[c] = IF closed[c] /\ deb[c] < Polls THEN 1 ELSE count[c]
        BY <2>2, <3>3
      <4>3. /\ closed[c] \in BOOLEAN /\ count[c] \in {0, 1} /\ owed[c] \in Int
            /\ Polls \in Nat /\ Polls >= 2
        BY DEF CountType
      <4>4. CASE closed[c]
        <5>1. owed' = owed
          BY <2>4, <3>1, <4>4 DEF Closes
        <5> QED
          BY <3>2, <3>3, <4>1, <4>2, <4>3, <4>4, <5>1
      <4>5. CASE ~closed[c]
        <5>1. count[c] = 0
          BY <3>3, <4>1, <4>3, <4>5 DEF Woken
        <5>2. owed'[c] = owed[c] + 1
          BY <2>1, <2>4, <3>1, <3>3, <4>5 DEF Closes, CountType
        <5>3. closed'[c]
          BY <3>2, <4>5
        <5>4. owed[c] = 0
          BY <4>2, <4>5, <5>1
        <5>5. owed'[c] = 1 /\ deb[c] < Polls
          BY <4>1, <4>3, <4>5, <5>2, <5>4
        <5> QED
          BY <3>3, <5>3, <5>5
      <4> QED
        BY <4>3, <4>4, <4>5
    <3>4. CASE state \in {"stopped", "reset"}
      <4>1. /\ closed[c] <=> c \notin reg.open
            /\ owed[c] = 0
        BY <2>2, <3>1, <3>4 DEF Stable, CountType
      <4>2. CASE closed[c]
        <5>1. ~closed'[c] /\ owed'[c] = 0
          BY <3>1, <3>2, <4>1, <4>2 DEF Closes
        <5> QED
          BY <3>4, <5>1
      <4>3. CASE ~closed[c]
        <5>1. closed'[c]
          BY <3>2, <4>3
        <5>2. c \in reg.open
          BY <4>1, <4>3
        <5>3. owed' = [owed EXCEPT ![c] = owed[c] + 1]
          BY <2>1, <3>1, <3>4, <4>3 DEF Closes
        <5>4. owed'[c] = 1
          BY <4>1, <5>3 DEF CountType
        <5> QED
          BY <3>4, <5>1, <5>2, <5>4
      <4> QED
        BY <4>2, <4>3
    <3>5. CASE state = "unpowered"
      BY <2>2, <3>1, <3>5 DEF Closes
    <3> QED
      BY <3>3, <3>4, <3>5 DEF CountType
  <2> QED
    BY <2>3, <2>4
<1>4. EachClosureCountedOnce'
  BY <1>3 DEF EachClosureCountedOnce, Contact
<1> QED
  BY <1>1, <1>2, <1>4

\* A poll of the main loop.
LEMMA HandlerCounts ==
  ASSUME CountInv, CountersHandler
  PROVE  CountInv'
<1> USE MeteringAssumption DEF CountInv
<1>1. \A c \in Channels : Debounced(c) \in 1 .. Polls /\ Found(c) \in Int
  BY DEF Debounced, Found, CountType
<1>2. CountType'
  BY <1>1 DEF CountType, CountersHandler, NoCount
<1>3. Woken'
  BY DEF Woken, CountersHandler, NoCount
<1>4. ASSUME NEW c \in Channels, c \notin blurred'
      PROVE  owed'[c] = IF closed[c] /\ deb'[c] < Polls THEN 1 ELSE 0
  <2>1. deb'[c] = Debounced(c)
    BY DEF CountersHandler
  <2>2. CASE c \in blurred
    <3>1. ~closed[c] /\ owed'[c] = 0
      BY <1>4, <2>2 DEF CountersHandler
    <3> QED
      BY <3>1
  <2>3. CASE c \notin blurred
    <3>1. owed[c] = IF closed[c] /\ deb[c] < Polls THEN 1 ELSE count[c]
      BY <2>3 DEF EachClosureCountedOnce, CountersHandler
    <3>2. owed'[c] = owed[c] - Found(c)
      BY <2>3 DEF CountersHandler
    <3>3. count[c] = 1 => deb[c] = Polls
      BY DEF Woken, CountersHandler
    <3>4. count[c] \in {0, 1} /\ deb[c] \in 1 .. Polls /\ closed[c] \in BOOLEAN
      BY DEF CountType
    <3> QED
      BY <2>1, <3>1, <3>2, <3>3, <3>4 DEF Debounced, Found
  <2> QED
    BY <2>2, <2>3
<1>5. EachClosureCountedOnce'
  <2>1. state = "up" /\ state' = "up" /\ closed' = closed
    BY DEF CountersHandler
  <2>2. \A c \in Channels : count'[c] = 0
    BY DEF CountersHandler, NoCount
  <2> QED
    BY <1>4, <2>1, <2>2 DEF EachClosureCountedOnce
<1> QED
  BY <1>2, <1>3, <1>5

\* A stop or reset, after which the register holds r and the channels C are
\* blurred: a channel that is not is owed what the start will find in r.
LEMMA EndCounts ==
  ASSUME CountInv, MemoryLost, NEW C \in SUBSET Channels, Blur(C),
         state = "up", state' \in {"stopped", "reset"},
         ~reg'.flag => reg'.open = {},
         \A c \in Channels \ C : /\ Settled(c) /\ count[c] = 0
                                 /\ closed[c] => c \notin reg'.open
  PROVE  CountInv'
<1> USE MeteringAssumption DEF CountInv
<1>1. CountType' /\ Woken'
  BY DEF CountType, Woken, MemoryLost, Blur, NoDeb, NoCount
<1>2. ASSUME NEW c \in Channels, c \notin blurred'
      PROVE  owed'[c] = IF closed[c] /\ c \in reg'.open THEN 1 ELSE 0
  <2>1. c \notin blurred /\ c \notin C /\ owed'[c] = owed[c]
    BY <1>2 DEF Blur
  <2>2. owed[c] = IF closed[c] /\ deb[c] < Polls THEN 1 ELSE count[c]
    BY <2>1 DEF EachClosureCountedOnce
  <2>3. closed[c] => deb[c] = Polls
    BY <2>1 DEF Settled
  <2> QED
    BY <2>1, <2>2, <2>3 DEF CountType
<1>3. EachClosureCountedOnce'
  BY <1>2 DEF EachClosureCountedOnce, MemoryLost
<1> QED
  BY <1>1, <1>3

\* With the levels of now in the register.
LEMMA StopCounts ==
  ASSUME CountInv, Stop
  PROVE  CountInv'
<1> DEFINE C == {c \in Channels : ~Settled(c)}
<1>1. /\ state = "up" /\ state' = "stopped" /\ MemoryLost /\ Blur(C)
      /\ \A c \in Channels : count[c] = 0
      /\ reg'.flag /\ \A c \in Channels : c \in reg'.open <=> ~closed[c]
  BY DEF Stop, set_regDeepSleep
<1>2. \A c \in Channels \ C : Settled(c)
  OBVIOUS
<1> HIDE DEF C
<1>3. C \in SUBSET Channels
  BY DEF C
<1> QED
  BY <1>1, <1>2, <1>3, EndCounts

\* With what the register holds from before.
LEMMA ResetCounts ==
  ASSUME CountInv, Reset
  PROVE  CountInv'
<1> DEFINE C == {c \in Channels : \/ ~Settled(c)
                                  \/ count[c] > 0
                                  \/ closed[c] /\ c \in reg.open}
<1>1. /\ state = "up" /\ state' = "reset" /\ MemoryLost /\ Blur(C) /\ reg' = reg
      /\ ~reg.flag => reg.open = {}
  BY DEF Reset, CountInv, Woken
<1>2. \A c \in Channels \ C : /\ Settled(c) /\ count[c] = 0
                              /\ closed[c] => c \notin reg.open
  BY DEF CountInv, CountType
<1> HIDE DEF C
<1>3. C \in SUBSET Channels
  BY DEF C
<1>4. ~reg'.flag => reg'.open = {}
  BY <1>1
<1>5. \A c \in Channels \ C : /\ Settled(c) /\ count[c] = 0
                              /\ closed[c] => c \notin reg'.open
  BY <1>1, <1>2
<1>6. state = "up" /\ state' \in {"stopped", "reset"}
  BY <1>1
<1>7. MemoryLost /\ Blur(C)
  BY <1>1
<1> QED
  BY <1>3, <1>4, <1>5, <1>6, <1>7, EndCounts

\* The device runs on with the levels recorded: nothing is counted by that.
LEMMA RecordCounts ==
  ASSUME CountInv, RecordsLevels
  PROVE  CountInv'
BY DEF CountInv, CountType, Woken, EachClosureCountedOnce, RecordsLevels, set_regDeepSleep

LEMMA PowerLossCounts ==
  ASSUME CountInv, PowerLoss
  PROVE  CountInv'
BY MeteringAssumption DEF CountInv, CountType, Woken, EachClosureCountedOnce, PowerLoss,
   MemoryLost, NoReg, NoDeb, NoCount

LEMMA StartCounts ==
  ASSUME CountInv, Start
  PROVE  CountInv'
<1> USE MeteringAssumption DEF CountInv
<1>1. /\ deb' = [c \in Channels |-> IF closed[c] THEN Polls ELSE 1]
      /\ count' = [c \in Channels |->
                     IF reg.flag /\ closed[c] /\ c \in reg.open THEN 1 ELSE 0]
      /\ closed' = closed /\ owed' = owed /\ blurred' = blurred /\ state' = "up"
  BY DEF Start, InitCounters
<1>2. CountType'
  BY <1>1 DEF CountType
<1>3. Woken'
  BY <1>1 DEF Woken, Start, InitCounters, NoReg
<1>4. ASSUME NEW c \in Channels, c \notin blurred
      PROVE  owed[c] = count'[c]
  <2>1. CASE state \in {"stopped", "reset"}
    BY <1>1, <1>4, <2>1 DEF EachClosureCountedOnce, Woken
  <2>2. CASE state = "unpowered"
    BY <1>1, <1>4, <2>2 DEF EachClosureCountedOnce, Woken, NoReg
  <2> QED
    BY <2>1, <2>2 DEF CountType, Start
<1>5. EachClosureCountedOnce'
  BY <1>1, <1>4 DEF EachClosureCountedOnce
<1> QED
  BY <1>2, <1>3, <1>5

\* Requests and updates change readings and settings, and count nothing.
LEMMA OthersCount ==
  ASSUME CountInv,
         UNCHANGED <<closed, deb, count, owed, blurred, state, reg>>
  PROVE  CountInv'
BY DEF CountInv, CountType, Woken, EachClosureCountedOnce

LEMMA CountsAlways == Spec => []CountInv
<1>1. ASSUME CountInv, [Next]_vars PROVE CountInv'
  <2>1. ASSUME NEW c \in Channels, Contact(c) PROVE CountInv'
    BY <1>1, <2>1, ContactCounts
  <2>2. CASE CountersHandler
    BY <1>1, <2>2, HandlerCounts
  <2>3. ASSUME NEW as \in Requests, NEW v \in Values, WriteReq(as, v) PROVE CountInv'
    BY <1>1, <2>3, OthersCount DEF WriteReq
  <2>4. CASE RecordsLevels \/ Stop \/ Reset
    BY <1>1, <2>4, RecordCounts, StopCounts, ResetCounts
  <2>5. CASE PowerLoss
    BY <1>1, <2>5, PowerLossCounts
  <2>6. CASE Start
    BY <1>1, <2>6, StartCounts
  <2>7. CASE UpdateStarts \/ UpdateFails
    BY <1>1, <2>7, OthersCount DEF UpdateStarts, UpdateFails
  <2>8. CASE UNCHANGED vars
    BY <1>1, <2>8, OthersCount DEF vars
  <2> QED
    BY <1>1, <2>1, <2>2, <2>3, <2>4, <2>5, <2>6, <2>7, <2>8 DEF Next
<1> QED
  BY <1>1, InitCounts, PTL DEF Spec

\* Every closure under power is added to the reading exactly once, whatever
\* stops, restarts, updates and requests come in between (EachClosureCountedOnce).
THEOREM ClosuresCountedOnce == Spec => []EachClosureCountedOnce
<1>1. CountInv => EachClosureCountedOnce
  BY DEF CountInv
<1> QED
  BY <1>1, CountsAlways, PTL

(***************************************************************************)
(* Readings.                                                               *)
(***************************************************************************)
\* What the readings need besides CountInv.
ReadingType ==
  /\ cfg \in Reading /\ kept \in Reading
  /\ attr \in [Channels -> Nat]
  /\ reg \in [flag : BOOLEAN, open : SUBSET Channels]
  /\ loading \in BOOLEAN
  /\ blurred \subseteq Channels
  /\ unsaved \in BOOLEAN /\ undone \in BOOLEAN

LEMMA Overflows ==
  ASSUME NEW n \in Nat
  PROVE  /\ check_counter_overflow(n) \in Nat
         /\ n < 2 * Overflow => check_counter_overflow(n) < Overflow
BY MeteringAssumption DEF check_counter_overflow

\* Division rounds down.
LEMMA Rounded ==
  ASSUME NEW v \in Nat, NEW s \in Nat \ {0}
  PROVE  (v \div s) * s \in Nat /\ (v \div s) * s <= v
<1> DEFINE q == v \div s
           m == v % s
<1>1. q \in Int /\ m \in 0 .. s - 1 /\ v = s * q + m
  OBVIOUS
<1>2. q \in Nat
  OBVIOUS
<1> HIDE DEF q, m
<1>3. s * q \in Nat /\ q * s = s * q
  BY <1>2
<1> QED
  BY <1>1, <1>3 DEF q

LEMMA Presets ==
  ASSUME NEW v \in Values, NEW s \in 1 .. MaxStep
  PROVE  /\ PresetLitres(v, s) \in Nat
         /\ v < 2 * Overflow => PresetLitres(v, s) < Overflow
         /\ PresetStep(v) \in 1 .. MaxStep
<1>1. v \in Nat /\ s \in Nat \ {0} /\ Unit \in Nat \ {0} /\ Overflow \in Nat
  BY MeteringAssumption
<1>2. (v \div s) * s \in Nat /\ (v \div s) * s <= v
  BY <1>1, Rounded
<1>3. v % 65536 \in Nat
  BY <1>1
<1> DEFINE w == ((v % 65536) \div Unit) * Unit
<1>4. w \in Nat
  BY <1>1, <1>3, Rounded
<1>5. PresetStep(v) = IF w = 0 THEN 1 ELSE IF w > MaxStep THEN MaxStep ELSE w
  BY DEF PresetStep
<1> DEFINE n == (v \div s) * s
<1>6. PresetLitres(v, s) = check_counter_overflow(n)
  BY DEF PresetLitres
<1> HIDE DEF w, n
<1>7. PresetStep(v) \in 1 .. MaxStep
  BY <1>4, <1>5, MeteringAssumption
<1>8. n \in Nat /\ n <= v
  BY <1>2 DEF n
<1> QED
  BY <1>1, <1>6, <1>7, <1>8, Overflows

\* Clients write no value of twice COUNTERS_OVERFLOW or more.
SmallWrites == \A v \in Values : v < 2 * Overflow

ReadingInv ==
  /\ ReadingType
  /\ CountedPulsesKept
  /\ AttributeShowsReading
  /\ SmallWrites => BelowOverflow

LEMMA InitReads == Init => ReadingInv
<1> SUFFICES ASSUME Init PROVE ReadingInv
  OBVIOUS
<1>1. Default \in Reading
  BY MeteringAssumption DEF Default, Reading
<1>2. FALSE \in BOOLEAN /\ NoReg \in [flag : BOOLEAN, open : SUBSET Channels]
  BY DEF NoReg
<1>3. ReadingType
  BY <1>1, <1>2 DEF Init, ReadingType
<1>4. BelowOverflow
  BY MeteringAssumption DEF Init, Default, BelowOverflow
<1> QED
  BY <1>3, <1>4 DEF Init, ReadingInv, CountedPulsesKept, AttributeShowsReading

\* A poll adds at most one pulse to a reading.
LEMMA HandlerReads ==
  ASSUME CountInv, ReadingInv, CountersHandler
  PROVE  ReadingInv'
<1> USE MeteringAssumption DEF ReadingInv
<1> DEFINE after(c) == check_counter_overflow(cfg.litres[c] + cfg.step * Found(c))
           litres == [c \in Channels |-> IF Found(c) > 0 THEN after(c) ELSE cfg.litres[c]]
<1>1. ASSUME NEW c \in Channels
      PROVE  /\ Found(c) \in {0, 1}
             /\ Found(c) > 0 => /\ after(c) \in Nat
                                /\ cfg.litres[c] < Overflow => after(c) < Overflow
  <2>1. count[c] \in {0, 1} /\ deb[c] \in 1 .. Polls /\ (count[c] = 1 => deb[c] = Polls)
    BY DEF CountInv, CountType, Woken, CountersHandler
  <2>2. Found(c) \in {0, 1}
    BY <2>1 DEF Found
  <2>3. cfg.litres[c] \in Nat /\ cfg.step \in 1 .. MaxStep
    BY DEF ReadingType, Reading
  <2>4. ASSUME Found(c) > 0
        PROVE  after(c) = check_counter_overflow(cfg.litres[c] + cfg.step)
    BY <2>2, <2>3, <2>4
  <2>5. /\ cfg.litres[c] + cfg.step \in Nat
        /\ cfg.litres[c] < Overflow => cfg.litres[c] + cfg.step < 2 * Overflow
    BY <2>3
  <2> QED
    BY <2>2, <2>4, <2>5, Overflows
<1>2. /\ cfg' = [cfg EXCEPT !.litres = litres]
      /\ attr' = [c \in Channels |-> IF Found(c) > 0 THEN litres[c] ELSE attr[c]]
  BY DEF CountersHandler
<1> HIDE DEF after
<1>3. \A c \in Channels : litres[c] \in Nat
  BY <1>1 DEF ReadingType, Reading
<1>4. cfg' \in Reading /\ cfg'.litres = litres /\ cfg'.step = cfg.step
  BY <1>2, <1>3 DEF ReadingType, Reading
<1>5. attr' \in [Channels -> Nat]
  BY <1>2, <1>3 DEF ReadingType
<1>6. ASSUME ~SaveDue PROVE cfg' = cfg /\ UNCHANGED <<kept, unsaved>>
  <2>1. \A c \in Channels : ~(Found(c) > 0)
    BY <1>6 DEF SaveDue
  <2>2. litres = cfg.litres
    BY <2>1 DEF ReadingType, Reading
  <2> QED
    BY <1>2, <1>6, <2>2 DEF ReadingType, Reading, CountersHandler
<1>7. SaveDue => kept' = cfg' /\ ~unsaved' /\ unsaved' \in BOOLEAN
  BY DEF CountersHandler
<1>8. ReadingType'
  <2>1. kept' \in Reading /\ unsaved' \in BOOLEAN
    BY <1>4, <1>6, <1>7 DEF ReadingType
  <2>2. blurred' \subseteq Channels /\ UNCHANGED <<reg, loading, undone>>
    BY DEF CountersHandler, ReadingType
  <2> QED
    BY <1>4, <1>5, <2>1, <2>2 DEF ReadingType
<1>9. CountedPulsesKept'
  BY <1>6, <1>7 DEF CountedPulsesKept, CountersHandler
<1>10. AttributeShowsReading'
  <2> SUFFICES ASSUME ~undone PROVE attr' = cfg'.litres
    BY DEF AttributeShowsReading, CountersHandler
  <2>1. attr = cfg.litres
    BY DEF AttributeShowsReading, CountersHandler
  <2>2. \A c \in Channels : attr'[c] = litres[c]
    BY <1>2, <2>1
  <2> QED
    BY <1>2, <1>4, <2>2
<1>11. ASSUME BelowOverflow PROVE BelowOverflow'
  <2>1. \A c \in Channels : cfg'.litres[c] < Overflow
    BY <1>1, <1>4, <1>11 DEF BelowOverflow
  <2> QED
    BY <1>6, <1>7, <1>11, <2>1 DEF BelowOverflow
<1> QED
  BY <1>8, <1>9, <1>10, <1>11

\* A request sets litres and attribute of a channel alike, whichever of its
\* records are for the step.
LEMMA WriteReads ==
  ASSUME ReadingInv, NEW as \in Requests, NEW v \in Values, WriteReq(as, v)
  PROVE  ReadingInv'
<1> USE MeteringAssumption DEF ReadingInv
<1> DEFINE n(c) == PresetLitres(v, StepAt(as, v, LastFor(as, c)))
           New(c, old) == IF c \in Range(as) THEN n(c) ELSE old
<1>1. cfg.step \in 1 .. MaxStep /\ \A c \in Channels : cfg.litres[c] \in Nat /\ attr[c] \in Nat
  BY DEF ReadingType, Reading
<1>2. PresetStep(v) \in 1 .. MaxStep
  BY <1>1, Presets
<1>3. ASSUME NEW c \in Channels
      PROVE  n(c) \in Nat /\ (v < 2 * Overflow => n(c) < Overflow)
  <2>1. StepAt(as, v, LastFor(as, c)) \in 1 .. MaxStep
    BY <1>1, <1>2 DEF StepAt
  <2> QED
    BY <2>1, Presets
<1>4. /\ cfg' = [litres |-> [c \in Channels |-> New(c, cfg.litres[c])],
                 step   |-> IF "step" \in Range(as) THEN PresetStep(v) ELSE cfg.step]
      /\ attr' = [c \in Channels |-> New(c, attr[c])]
      /\ unsaved' = (unsaved \/ Range(as) # {"other"})
      /\ UNCHANGED <<kept, reg, loading, blurred, undone, state>>
  BY DEF WriteReq
<1> HIDE DEF n
<1>5. ReadingType'
  <2>1. unsaved' \in BOOLEAN
    BY <1>4, Zenon DEF ReadingType
  <2> QED
    BY <1>1, <1>2, <1>3, <1>4, <2>1 DEF ReadingType, Reading
<1>6. CountedPulsesKept'
  <2> SUFFICES ASSUME ~unsaved', state = "up" PROVE cfg' = cfg /\ ~unsaved
    BY <1>4 DEF CountedPulsesKept
  <2>1. Range(as) = {"other"} /\ ~unsaved
    BY <1>4, Zenon
  <2>2. "step" \notin Range(as) /\ \A c \in Channels : New(c, cfg.litres[c]) = cfg.litres[c]
    BY <2>1, MeteringAssumption
  <2> QED
    BY <1>4, <2>1, <2>2 DEF ReadingType, Reading
<1>7. AttributeShowsReading'
  BY <1>4 DEF AttributeShowsReading
<1>8. ASSUME SmallWrites, BelowOverflow PROVE BelowOverflow'
  BY <1>3, <1>4, <1>8 DEF BelowOverflow, SmallWrites
<1> QED
  BY <1>5, <1>6, <1>7, <1>8

\* A failed update takes settings back only if some were not saved.
LEMMA UpdateReads ==
  ASSUME ReadingInv, UpdateStarts \/ UpdateFails
  PROVE  ReadingInv'
<1> USE DEF ReadingInv
<1>1. CASE UpdateStarts
  <2>1. loading' \in BOOLEAN /\ unsaved' \in BOOLEAN
    BY <1>1, Zenon DEF UpdateStarts
  <2> QED
    BY <1>1, <2>1 DEF UpdateStarts, ReadingType, CountedPulsesKept, AttributeShowsReading, BelowOverflow
<1>2. CASE UpdateFails
  <2>1. loading' \in BOOLEAN /\ unsaved' \in BOOLEAN /\ undone' \in BOOLEAN
    BY <1>2, Zenon DEF UpdateFails
  <2>2. ~undone' => ~undone /\ ~unsaved
    BY <1>2, Zenon DEF UpdateFails
  <2>3. AttributeShowsReading'
    BY <1>2, <2>2 DEF UpdateFails, CountedPulsesKept, AttributeShowsReading
  <2> QED
    BY <1>2, <2>1, <2>3 DEF UpdateFails, ReadingType, CountedPulsesKept, BelowOverflow
<1> QED
  BY <1>1, <1>2

LEMMA ReadsStep ==
  ASSUME CountInv, ReadingInv, [Next]_vars
  PROVE  ReadingInv'
<1> USE DEF ReadingInv
<1>1. ASSUME NEW c \in Channels, Contact(c) PROVE ReadingInv'
  <2>1. blurred' \subseteq Channels
    BY <1>1 DEF Contact, Closes, Blur, ReadingType
  <2> QED
    BY <1>1, <2>1 DEF Contact, ReadingType, CountedPulsesKept, AttributeShowsReading, BelowOverflow
<1>2. CASE CountersHandler
  BY <1>2, HandlerReads
<1>3. ASSUME NEW as \in Requests, NEW v \in Values, WriteReq(as, v) PROVE ReadingInv'
  BY <1>3, WriteReads
<1>4. CASE RecordsLevels \/ Stop \/ Reset \/ PowerLoss
  <2>1. reg' \in [flag : BOOLEAN, open : SUBSET Channels] /\ blurred' \subseteq Channels
    <3>1. \A flag \in BOOLEAN, open \in SUBSET Channels :
            [flag |-> flag, open |-> open] \in [flag : BOOLEAN, open : SUBSET Channels]
      OBVIOUS
    <3>2. TRUE \in BOOLEAN /\ FALSE \in BOOLEAN /\ {} \in SUBSET Channels
          /\ {c \in Channels : ~closed[c]} \in SUBSET Channels
      OBVIOUS
    <3>3. \/ reg' = [flag |-> TRUE, open |-> {c \in Channels : ~closed[c]}]
          \/ reg' = [flag |-> FALSE, open |-> {}]
          \/ reg' = reg
      BY <1>4, Zenon DEF RecordsLevels, Stop, set_regDeepSleep, Reset, PowerLoss, NoReg
    <3>4. reg' \in [flag : BOOLEAN, open : SUBSET Channels]
      BY <3>1, <3>2, <3>3, Zenon DEF ReadingType
    <3>5. blurred' \subseteq Channels
      BY <1>4 DEF RecordsLevels, Stop, Reset, PowerLoss, Blur, ReadingType
    <3> QED
      BY <3>4, <3>5
  <2>2. CASE RecordsLevels
    BY <2>1, <2>2 DEF RecordsLevels, set_regDeepSleep, ReadingType, CountedPulsesKept,
       AttributeShowsReading, BelowOverflow
  <2>3. CASE Stop \/ Reset \/ PowerLoss
    <3>1. state' # "up" /\ cfg' = kept /\ kept' = kept /\ attr' = kept.litres
      BY <2>3 DEF Stop, Reset, PowerLoss, MemoryLost
    <3>2. loading' \in BOOLEAN /\ unsaved' \in BOOLEAN /\ undone' \in BOOLEAN
      BY <2>3, Zenon DEF Stop, Reset, PowerLoss, MemoryLost
    <3>3. kept.litres \in [Channels -> Nat]
      BY DEF ReadingType, Reading
    <3> QED
      BY <2>1, <3>1, <3>2, <3>3 DEF ReadingType, CountedPulsesKept, AttributeShowsReading,
         BelowOverflow
  <2> QED
    BY <1>4, <2>2, <2>3
<1>5. CASE Start
  <2>1. reg' \in [flag : BOOLEAN, open : SUBSET Channels]
    BY <1>5 DEF Start, InitCounters, NoReg
  <2>2. kept.litres \in [Channels -> Nat]
    BY DEF ReadingType, Reading
  <2> QED
    BY <1>5, <2>1, <2>2 DEF Start, ReadingType, CountedPulsesKept, AttributeShowsReading, BelowOverflow
<1>6. CASE UpdateStarts \/ UpdateFails
  BY <1>6, UpdateReads
<1>7. CASE UNCHANGED vars
  BY <1>7 DEF vars, ReadingType, CountedPulsesKept, AttributeShowsReading, BelowOverflow
<1> QED
  BY <1>1, <1>2, <1>3, <1>4, <1>5, <1>6, <1>7 DEF Next

LEMMA ReadsAlways == Spec => []ReadingInv
<1>1. CountInv /\ ReadingInv /\ [Next]_vars => ReadingInv'
  BY ReadsStep
<1> QED
  BY <1>1, InitReads, CountsAlways, PTL DEF Spec

\* Types hold: a poll and a request leave proper readings, and a step that no
\* client can bring to nothing.
THEOREM MeteringTypes == Spec => []TypeOK
<1>1. CountInv /\ ReadingInv => TypeOK
  BY MeteringAssumption DEF CountInv, CountType, ReadingInv, ReadingType, TypeOK
<1> QED
  BY <1>1, CountsAlways, ReadsAlways, PTL

\* Clients read what is counted on, unless a failed update took unsaved
\* settings back: the handler, the requests and the starts that change one
\* change the other.
THEOREM ClientsReadTheCount == Spec => []AttributeShowsReading
<1>1. ReadingInv => AttributeShowsReading
  BY DEF ReadingInv
<1> QED
  BY <1>1, ReadsAlways, PTL

\* A start comes up with every pulse that was counted: whatever changes the
\* reading and is not a request also saves it.
THEOREM CountedPulsesSurvive == Spec => []CountedPulsesKept
<1>1. ReadingInv => CountedPulsesKept
  BY DEF ReadingInv
<1> QED
  BY <1>1, ReadsAlways, PTL

\* Readings stay below COUNTERS_OVERFLOW if clients write less than twice
\* that: one subtraction is enough after every pulse and every preset.
THEOREM ReadingsBelowOverflow ==
  ASSUME SmallWrites
  PROVE  Spec => []BelowOverflow
<1>1. ReadingInv => BelowOverflow
  BY DEF ReadingInv
<1> QED
  BY <1>1, ReadsAlways, PTL
=============================================================================
