------------------------------ MODULE Metering ------------------------------
(***************************************************************************)
(* Pulse counting and presets (src/app_counter.c, app_zclWriteReqCmd of    *)
(* src/zcl_appCb.c).                                                       *)
(*                                                                         *)
(* A reed contact per channel is polled by the main loop; a debounce value *)
(* climbs from 1 to Polls while the contact is seen closed and falls back  *)
(* while it is seen open, and reaching Polls counts a pulse.  Before deep  *)
(* sleep and before a reset that the program decides on, the levels of the *)
(* contacts go into a register that survives, so that a contact that       *)
(* closes meanwhile is counted at the next start.  The device may run on   *)
(* with the levels recorded, and an exception resets it without a record.  *)
(*                                                                         *)
(* What a save keeps and a start recovers is the subject of ConfigStore;   *)
(* here "kept" stands for it.                                              *)
(***************************************************************************)
EXTENDS Integers, Functions

CONSTANTS
  Channels,  \* the water meters (hot and cold)
  Polls,     \* DEBOUNCE_COUNTER (32)
  Overflow,  \* COUNTERS_OVERFLOW (100000000 litres)
  Unit,      \* granularity of the step above 1 litre (10)
  MaxStep,   \* greatest step (100)
  Written,   \* the attributes a Zigbee client writes: channels, "step", "other"
  Values,    \* the values it writes
  MaxWrites, \* bound on the records of one write request
  Bouncing   \* those whose contact may change before it has been debounced

ASSUME MeteringAssumption ==
  /\ Polls \in Nat /\ Polls >= 2
  /\ Unit \in Nat \ {0} /\ MaxStep \in Nat /\ MaxStep >= Unit
  /\ Overflow \in Nat /\ Overflow > MaxStep
  /\ {"step", "other"} \cap Channels = {}
  /\ Written \subseteq Channels \cup {"step", "other"} /\ Values \subseteq Nat
  /\ MaxWrites \in Nat
  /\ Bouncing \subseteq Channels

VARIABLES
  closed,   \* closed[c]: the contact of channel c is closed
  deb,      \* debounce
  count,    \* counter: pulses counted and not yet added to the reading
  cfg,      \* watermeter_config: litres per channel and litres per pulse
  attr,     \* CurrentSummationDelivered as a Zigbee client reads it
  kept,     \* the reading a start comes up with
  reg,      \* the CHK_DEEP_SLEEP register: flag, and the contacts seen open
  state,    \* "up", "stopped" (with a record), "reset" (without), "unpowered"
  loading,  \* watermeter_config.new_ota
  owed,     \* history: closures under power that are not yet in the reading
  blurred,  \* history: channels whose closures nobody can tell apart
  unsaved,  \* history: settings were written since the last save or start
  undone    \* history: a failed update took such settings back

vars == <<closed, deb, count, cfg, attr, kept, reg, state, loading, owed, blurred,
          unsaved, undone>>

NoDeb   == [c \in Channels |-> 1]
NoCount == [c \in Channels |-> 0]
NoReg == [flag |-> FALSE, open |-> {}]

Settled(c) == deb[c] = IF closed[c] THEN Polls ELSE 1

(***************************************************************************)
(* The contacts.                                                           *)
(***************************************************************************)
\* Without bounce a contact stays as it is until it has been debounced, and
\* changes once while the device is stopped, which wakes it.  Of what changes
\* in a reset only the closure of a contact recorded open is told apart.
Stable(c) ==
  CASE state = "up"                  -> Settled(c)
    [] state \in {"stopped", "reset"} -> ~closed[c] <=> c \in reg.open
    [] state = "unpowered"           -> TRUE

\* Of a channel that is disturbed nothing is owed until it is debounced open.
Blur(C) ==
  /\ blurred' = blurred \cup C
  /\ owed' = [c \in Channels |-> IF c \in C THEN 0 ELSE owed[c]]

Closes(c) ==
  /\ owed' = IF ~closed[c] /\ state # "unpowered" /\ c \notin blurred
             THEN [owed EXCEPT ![c] = @ + 1] ELSE owed
  /\ UNCHANGED blurred

Contact(c) ==
  /\ closed' = [closed EXCEPT ![c] = ~@]
  /\ IF Stable(c) THEN Closes(c)
     ELSE (c \in Bouncing \/ state = "reset") /\ Blur({c})
  /\ UNCHANGED <<deb, count, cfg, attr, kept, reg, state, loading, unsaved, undone>>

(***************************************************************************)
(* Counting.                                                               *)
(***************************************************************************)
check_counter_overflow(n) == IF n >= Overflow THEN n - Overflow ELSE n

Debounced(c) ==
  IF closed[c] THEN (IF deb[c] = Polls THEN Polls ELSE deb[c] + 1)
  ELSE IF deb[c] = 1 THEN 1 ELSE deb[c] - 1

\* Mutant: only the pulses left by the start count.
FoundAtStart(c) == count[c]
\* Pulses the handler finds: those left by the start, and one if the
\* debounce value reaches Polls in this poll.
Found(c) ==
  count[c] + (IF closed[c] /\ deb[c] = Polls - 1 THEN 1 ELSE 0)

\* Mutant: only pulses left by the start ask for a save.
SaveDueAtStart == \E c \in Channels : count[c] > 0
SaveDue        == \E c \in Channels : Found(c) > 0

CountersHandler ==
  /\ state = "up"
  /\ deb' = [c \in Channels |-> Debounced(c)]
  /\ count' = NoCount
  /\ LET litres == [c \in Channels |->
           IF Found(c) > 0
           THEN check_counter_overflow(cfg.litres[c] + cfg.step * Found(c))
           ELSE cfg.litres[c]]
     IN  /\ cfg' = [cfg EXCEPT !.litres = litres]
         /\ attr' = [c \in Channels |-> IF Found(c) > 0 THEN litres[c] ELSE attr[c]]
  /\ owed' = [c \in Channels |-> IF c \in blurred THEN 0 ELSE owed[c] - Found(c)]
  /\ blurred' = {c \in blurred : closed[c] \/ deb'[c] > 1}
  /\ IF SaveDue
     THEN kept' = cfg' /\ unsaved' = FALSE
     ELSE UNCHANGED <<kept, unsaved>>
  /\ UNCHANGED <<closed, reg, state, loading, undone>>

(***************************************************************************)
(* Presets.                                                                *)
(***************************************************************************)
\* Mutant: a preset is taken as it is.
PresetLitresUnchecked(v, step) == (v \div step) * step
\* The litres and the step, of 16 bits, a written value v becomes.
PresetLitres(v, step) == check_counter_overflow((v \div step) * step)
\* Mutant: a step that rounds to nothing is taken.
PresetStepUnchecked(v) ==
  LET w == ((v % 65536) \div Unit) * Unit
  IN  IF w > MaxStep THEN MaxStep ELSE w
PresetStep(v) ==
  LET w == ((v % 65536) \div Unit) * Unit
  IN  IF w = 0 THEN 1 ELSE IF w > MaxStep THEN MaxStep ELSE w

\* Mutant: the preset goes to the configuration and not to the attribute.
WriteReqSilently(as, v) ==
  /\ state = "up"
  /\ as[1] \in Channels
  /\ cfg' = [cfg EXCEPT !.litres[as[1]] = PresetLitres(v, cfg.step)]
  /\ unsaved' = TRUE
  /\ UNCHANGED <<closed, deb, count, attr, kept, reg, state, loading, owed, blurred, undone>>

\* A write request has a record for each of the attributes as and v in the
\* first of them.  Every record is handled under its own attribute, but with
\* the value of the first, and of two for one attribute the last one stays.
\* "other" is an attribute that is not handled, or a type not its own.
LastFor(as, a) ==
  CHOOSE i \in DOMAIN as : as[i] = a /\ \A j \in DOMAIN as : j > i => as[j] # a

\* The step when record i is handled.
StepAt(as, v, i) ==
  IF \E j \in 1 .. i : as[j] = "step" THEN PresetStep(v) ELSE cfg.step

WriteReq(as, v) ==
  LET New(c, n) ==
        IF c \in Range(as) THEN PresetLitres(v, StepAt(as, v, LastFor(as, c))) ELSE n
  IN  /\ state = "up"
      /\ cfg' = [litres |-> [c \in Channels |-> New(c, cfg.litres[c])],
                 step   |-> IF "step" \in Range(as) THEN PresetStep(v) ELSE cfg.step]
      /\ attr' = [c \in Channels |-> New(c, attr[c])]
      /\ unsaved' = (unsaved \/ Range(as) # {"other"})
      /\ UNCHANGED <<closed, deb, count, kept, reg, state, loading, owed, blurred, undone>>

Requests == UNION {[1 .. n -> Written] : n \in 1 .. MaxWrites}

(***************************************************************************)
(* Stops and starts.                                                       *)
(***************************************************************************)
\* The memory goes; cfg and attr are what the next start reads back.
MemoryLost ==
  /\ deb' = NoDeb /\ count' = NoCount
  /\ cfg' = kept /\ attr' = kept.litres
  /\ loading' = FALSE /\ unsaved' = FALSE /\ undone' = FALSE
  /\ UNCHANGED <<closed, kept>>

\* The timers and the download that lead here run for at least a second, so
\* that the handler has run since the start.
set_regDeepSleep ==
  /\ state = "up"
  /\ \A c \in Channels : count[c] = 0
  /\ reg' = [flag |-> TRUE, open |-> {c \in Channels : ~closed[c]}]

\* The levels are recorded and the device runs on: ota_mcuReboot returns from
\* an image it does not take, zb_resetDevice2FN may reset only later.
RecordsLevels ==
  /\ set_regDeepSleep
  /\ UNCHANGED <<closed, deb, count, cfg, attr, kept, state, loading, owed, blurred,
                 unsaved, undone>>

\* set_regDeepSleep, then deep sleep or a reset at once.  Nobody waits for a
\* contact that is being debounced.
Stop ==
  /\ set_regDeepSleep
  /\ state' = "stopped"
  /\ Blur({c \in Channels : ~Settled(c)})
  /\ MemoryLost

\* SYSTEM_RESET without a record: by watermeterSysException, or by
\* zb_resetDevice2FN when the contacts have moved on since set_regDeepSleep.
\* The start takes a contact that is closed and recorded open for a closure.
Reset ==
  /\ state = "up"
  /\ state' = "reset"
  /\ Blur({c \in Channels : \/ ~Settled(c)
                            \/ count[c] > 0
                            \/ closed[c] /\ c \in reg.open})
  /\ MemoryLost
  /\ UNCHANGED reg

PowerLoss ==
  /\ state' = "unpowered"
  /\ reg' = NoReg
  /\ owed' = NoCount /\ blurred' = {}
  /\ MemoryLost

\* Mutant: a closed contact is counted at every start.
InitCountersAlways ==
  /\ deb' = [c \in Channels |-> IF closed[c] THEN Polls ELSE 1]
  /\ count' = [c \in Channels |-> IF reg.flag /\ closed[c] THEN 1 ELSE 0]
  /\ reg' = NoReg

\* init_counters.
InitCounters ==
  /\ deb' = [c \in Channels |-> IF closed[c] THEN Polls ELSE 1]
  /\ count' = [c \in Channels |->
                 IF reg.flag /\ closed[c] /\ c \in reg.open THEN 1 ELSE 0]
  /\ reg' = NoReg

\* user_app_init: init_config, init_counters and the attributes.
Start ==
  /\ state # "up"
  /\ InitCounters
  /\ cfg' = kept
  /\ attr' = kept.litres
  /\ state' = "up"
  /\ UNCHANGED <<closed, kept, loading, owed, blurred, unsaved, undone>>

(***************************************************************************)
(* The firmware update, as far as the configuration is concerned.          *)
(***************************************************************************)
UpdateStarts ==
  /\ state = "up" /\ ~loading
  /\ loading' = TRUE
  /\ kept' = cfg /\ unsaved' = FALSE
  /\ UNCHANGED <<closed, deb, count, cfg, attr, reg, state, owed, blurred, undone>>

\* init_config reads the configuration again, without init_counters.
UpdateFails ==
  /\ state = "up" /\ loading
  /\ loading' = FALSE
  /\ cfg' = kept /\ unsaved' = FALSE
  /\ undone' = (undone \/ unsaved)
  /\ UNCHANGED <<closed, deb, count, attr, kept, reg, state, owed, blurred>>

Default == [litres |-> [c \in Channels |-> 0], step |-> Unit]

Init ==
  /\ closed \in [Channels -> BOOLEAN]
  /\ deb = NoDeb
  /\ count = NoCount
  /\ cfg = Default /\ kept = Default
  /\ attr = [c \in Channels |-> 0]
  /\ reg = NoReg
  /\ state = "unpowered" /\ loading = FALSE
  /\ owed = NoCount /\ blurred = {}
  /\ unsaved = FALSE /\ undone = FALSE

Next ==
  \/ \E c \in Channels : Contact(c)
  \/ CountersHandler
  \/ \E as \in Requests, v \in Values : WriteReq(as, v)
  \/ RecordsLevels \/ Stop \/ Reset \/ PowerLoss \/ Start
  \/ UpdateStarts \/ UpdateFails

Fairness == WF_vars(CountersHandler) /\ WF_vars(Start)

Spec     == Init /\ [][Next]_vars
FairSpec == Spec /\ Fairness

(***************************************************************************)
(* Properties.                                                             *)
(***************************************************************************)
Reading == [litres : [Channels -> Nat], step : 1 .. MaxStep]

\* Type correctness of water_counter_t, of the register and of the readings.
TypeOK ==
  /\ closed \in [Channels -> BOOLEAN]
  /\ deb \in [Channels -> 1 .. Polls]
  /\ count \in [Channels -> 0 .. 1]
  /\ cfg \in Reading /\ kept \in Reading
  /\ attr \in [Channels -> Nat]
  /\ reg \in [flag : BOOLEAN, open : SUBSET Channels]
  /\ state \in {"up", "stopped", "reset", "unpowered"}
  /\ loading \in BOOLEAN
  /\ owed \in [Channels -> Int] /\ blurred \subseteq Channels
  /\ unsaved \in BOOLEAN /\ undone \in BOOLEAN

\* Every closure of a contact under power is added to the reading exactly
\* once, across any sequence of deep sleeps and resets, with a record of the
\* levels, without one or with an old one: what is owed is the closure being
\* debounced, the one that woke the device, or nothing.  It is not said of
\* a blurred channel, until it is debounced open again.  Such is a contact
\*   - that bounces: open for one poll, a closed one is counted again;
\*   - that is being debounced in a stop or reset: its closure may be missed;
\*   - that is closed in a reset without a record and was open in the last
\*     record: it is counted again (ResetsCountNothingTwice);
\*   - whose pulse of the last start is not yet added in such a reset, or
\*     that changes in it and is not recorded open (ResetsLoseNothing).
EachClosureCountedOnce ==
  \A c \in Channels \ blurred :
    owed[c] = CASE state = "up" -> IF closed[c] /\ deb[c] < Polls THEN 1 ELSE count[c]
                [] state \in {"stopped", "reset"} ->
                     IF closed[c] /\ c \in reg.open THEN 1 ELSE 0
                [] state = "unpowered" -> 0

\* A closure is eventually counted (or its power is lost).
ClosuresGetCounted ==
  \A c \in Channels : owed[c] > 0 ~> owed[c] <= 0

\* What Zigbee clients read is the reading that is counted on, whatever mix
\* of pulses, presets, updates and starts came before, unless a failed update
\* took a preset back (see PresetSurvivesUpdate).
AttributeShowsReading ==
  (state = "up" /\ ~undone) => attr = cfg.litres

\* A start comes up with every pulse that was counted: only settings written
\* since the last save can be missing.
CountedPulsesKept ==
  (state = "up" /\ ~unsaved) => kept = cfg

\* Readings stay below COUNTERS_OVERFLOW, presets included, as long as no
\* client writes a preset of twice that or more.
BelowOverflow ==
  \A c \in Channels : cfg.litres[c] < Overflow /\ kept.litres[c] < Overflow

(***************************************************************************)
(* What the documentation promises and the code does not do.               *)
(***************************************************************************)
\* Clients read what is counted on (README.md:34): violated because a failed
\* update takes a preset back and leaves the attribute.
PresetSurvivesUpdate ==
  state = "up" => attr = cfg.litres

\* A restart by the button changes no settings (README.md:40): violated
\* because a preset is saved only with the next pulse.
RestartKeepsSettings ==
  [][(state = "up" /\ state' = "stopped") => cfg' = cfg]_vars

\* Every pulse is counted once (README.md:31), also over a reset without a
\* record: violated because levels recorded before an image that is not taken,
\* or before a factory reset that is slow, stay in the register, and a contact
\* that was counted since is counted again.
ResetsCountNothingTwice ==
  [][Reset => \A c \in Channels \ blurred :
                Settled(c) /\ closed[c] => c \notin reg.open]_vars

\* Every pulse is counted once, also over such a reset: violated because
\* the start does not count a contact that closes meanwhile if no record says
\* that it was open.
ResetsLoseNothing ==
  [][\A c \in Channels : state = "reset" /\ ~closed[c] /\ closed'[c] => c \in reg.open]_vars

\* The step can be set from 1 to Unit litres (README.md:31): violated because
\* everything below Unit becomes 1.
StepAsSet ==
  [][\A v \in 1 .. Unit :
       WriteReq(<<"step">>, v) => cfg'.step = v]_vars
=============================================================================
