# A verification development of the water meter firmware

The repository is the firmware of a battery-powered Zigbee end device (Telink
TLSR8258) that counts the pulses of two water meters and watches two leak
sensors. The application is about four thousand lines of C under `src/src`;
everything under `src/tl_zigbee_sdk` is the vendor's SDK. This directory holds
TLA+ modules that model the application and the parts of the SDK its
correctness rests on, TLC configurations that check them on small instances,
and proofs checked by TLAPS. Line numbers in the modules,
`README.md:n` among them, refer to the repository's files.

To check something by hand, in this directory:

    tlc -workers 2 -config MCLeak.cfg MCLeak      # one run
    tlapm ConfigStoreProofs.tla                   # one proof module

`PROJECT.json` lists the runs with their properties, the theorems, the mutants
(a plausible bug for each property, which the property must catch), the source
lines behind every definition, and the hazards the properties are aimed at.

## 1. Inventory

### How the program runs

There is one thread of control. The SDK's main loop runs timer events, stack
events, and `app_task` (`watermeter.c:175`) as the idle poll. `app_task` calls,
in this order, `button_handler`, `counters_handler` and `waterleak_handler`;
then, if the commissioning layer is idle, it blinks the LED every 5 seconds,
calls `app_report_handler`, and sleeps if none of button, counters and sensors
is being debounced. Sleep with retention goes on where it was; deep sleep, a
reset and a battery change start again at `user_app_init` (`watermeter.c:122`):
`zcl_onOffCfgAttr_restore`, `ota_init`, `init_config`, `init_counters`,
`init_button`, the battery, and then the two reading attributes from the
configuration.

Interrupts do not run application code, so handlers are atomic with respect to
one another. What interleaves is: polls of the handlers, timer callbacks,
messages from the network, the update client (a chain of messages and timers
that writes flash), and the physical world (contacts, water, fingers, the
battery). What is not atomic is a sequence of flash operations, because power
may fail in the middle.

### Components

| Component | Source under `src/` | State | Operations | Interacts with | Correct when |
| --- | --- | --- | --- | --- | --- |
| Configuration store | `src/app_dev_config.c` | the log in flash, the NV copy, `watermeter_config`, `flash_addr_start`, `default_config` | `init_config`, `write_config`, `clear_user_data` | saved by counters and update; shares its half of the flash with the image being downloaded | a start comes up with the last saved reading; no save touches an image; pages are erased before they are written |
| Firmware update | `src/zb_appCb.c:345-430`, SDK `zigbee/ota/ota.c` | `new_ota`, download offset | offer, address, block, completion, failure, resumption | erases the log, then redirects the store to NV | the reading survives an update however it ends |
| Water counters | `src/app_counter.c` | two debounce values, two counts, the `CHK_DEEP_SLEEP` register | `init_counters`, `counters_handler` | configuration, attributes, power management | every closure is counted exactly once |
| ZCL callbacks | `src/zcl_appCb.c` | configuration and attributes | write requests, reporting configuration, read responses, identify, IAS enrolment | configuration, switch actions, reporting | attributes and configuration agree |
| Leak detection | `src/app_leak.c` | two debounce values, zone status | `waterleak_handler` | on/off commands to bound actuators, zone notifications | a leak closes the valves, the zone status follows the sensors |
| Switch configuration | `src/zcl/zcl_onoffSwitchCfg.c` | actions of two endpoints, one NV item | save, restore | leak detection | selected actions survive a restart |
| Button | `src/app_button.c` | debounce value, click counter, two time stamps | `button_handler`, `init_button`, `button_idle` | delayed resets, forced report, poll rate, LED | resets happen exactly when asked for; the device can sleep |
| Attribute reporting | `src/app_reporting.c` | a table with two timers per entry, `timerStopReportEvt` | main-loop handler, two timer callbacks, forced report, cancel | ZCL configuration, commissioning, bindings | changes arrive, not too often, and never stop arriving |
| Restart, factory reset | `src/app_utility.c` | timers | `delayedMcuResetCb`, `delayedFactoryResetCb`, `poll_rateAppCb` | store, counters, stack | readings and settings survive |
| Power management | `src/app_pm.c` | wake-up levels, the register, `timerNoJoinedEvt` | light sleep, deep sleep after 30 minutes without a network | counters | no pulse lost over sleep |
| Commissioning, poll rate | `src/zb_appCb.c:60-340`, SDK `zigbee/bdb/bdb.c` | the state and status of `bdb_task`, its posted events, the exchange of the link key; steering, rejoin, poll and 30-minute timers | `bdb_task`, `bdb_zdoStartDevCnf`, `zb_bdbInitCb`, `zb_bdbCommissioningCb`, `app_rejoinBacckoff`, `no_joinedCb`, `poll_rateAppCb` | the stack in libraries, counters, button, update, reporting, LED | the device keeps trying, falls asleep in the end, polls slowly when idle |
| NV item store | SDK `proj/drivers/drv_nv.c` | two sectors per module: flag, index entries, contents; the factory reset flag | `nv_flashWriteNew`, `nv_flashReadNew`, `nv_resetToFactoryNew` | keeps the configuration copy, the switch actions, the reporting table, the download state and the network | a write is all or nothing, and is refused only when the items do not fit |
| LED | `src/app_led.c` | blink count, state, timer | start, stop, timer | everyone blinks it | a blink ends; the LED does not stay lit |
| Battery | `src/app_battery.c` | two attributes | `batteryCb` | attributes | 0 to 200 half percent |
| Tables | `src/app_endpoint_cfg.c` | initial attribute values | none | | |
| Timer events | SDK `proj/os/ev_timer.c` | a pool of 24 timers | schedule, cancel | everyone | see section 6 |
| Others | `common/factory_reset.c` (not called in this build), `common/firmwareEncryptChk.c`, converters | | | | |

### What is hard

* **Flash and power.** The ring of records has no index: a start finds the end
  by reading ids, checksums and consecutive sequence numbers. Records of the
  previous lap, torn records, half-erased sectors and foreign images all sit in
  the same pages. An update erases that log while pulses keep being saved.
* **Stops between two polls.** A contact can close, or be half debounced, when
  the device stops. The register bridges the gap and must count neither twice
  nor never, and may be old by the time it is read.
* **The item store.** What the application writes as one item is up to eight
  operations on flash, and twice that when a sector is full and the items move.
* **One status for many attempts.** The stack confirms searches, rejoins and
  losses at any moment; the commissioning task reads the outcome later, from
  one variable, in whatever state it is then.
* **Shared outcomes.** Two leak sensors share one alarm bit and one pair of
  actuators; several gestures of the button share timers; five reporting
  entries share a handler that returns after the first.
* **The clock.** 32 bits of 1/16 microsecond repeat after 268 seconds, and
  intervals reach an hour.
* **Requests at any moment.** Presets, actions, reporting configurations,
  updates and resets come between any two steps of everything else.

Every hazard is listed at its line under `hazards` in `PROJECT.json`.

## 2. Modules

| Module | Models | Composes |
| --- | --- | --- |
| `DurableReading` | what the store of the readings promises, abstractly | |
| `ConfigStore` | store, update client, restarts, faults | refines `DurableReading`; NV writes atomic, as `NvItems` has them |
| `ConfigStoreProofs`, `DurableReadingProofs` | proofs about `ConfigStore`; the second has the refinement | extend it |
| `NvItems` | what NV promises, abstractly: a map written one item at a time | |
| `NvStore` | the items in two sectors of flash, moves, factory resets, cuts | refines `NvItems` |
| `NvStoreProofs` | proofs about `NvStore` | extends it |
| `Metering` | counters, presets, stops and starts, update failures | store as `kept` |
| `MeteringProofs` | proofs about `Metering` | extends it |
| `Leak` | sensors, commands, zone, stored actions | leak detection with the switch configuration |
| `LeakProofs` | proofs about `Leak` | extends it |
| `Button` | gestures and the timers they start | button with the delayed resets |
| `ButtonProofs` | proofs about `Button` | extends it |
| `Reporting` | reports, timers, configuration commands | reporting with commissioning as `joined` |
| `ReportingProofs` | proofs about `Reporting` | extends it |
| `Network` | joining, rejoining, giving up, poll rate | SDK's commissioning task with the application's callbacks and timers, and with whatever else re-arms the poll timer |
| `NetworkProofs` | proofs about `Network` | extends it |
| `MCxxx` | constants of the instances for TLC | extends each of the above |

### ConfigStore

The log is a function from pages to cells; a cell is erased, a valid record, a
torn record (id right, checksum wrong), a page of an image, or something else.
Contents are abstract readings; the checksum is therefore right or wrong rather
than computed. `mem` is `watermeter_config`, `pos` is the page of
`flash_addr_start`, `fresh` is `default_config`, `nv` is the NV item, and `pc`
is the flash operation that `init_config` or `write_config` does next.
`saved` is a history variable: the reading last handed to `write_config`.

`Boot`/`InitConfig` is `init_config`, with `Outcome` its three ways through the
code: nothing usable (clear the log and begin), an update has just been
completed (move the NV copy to the log), or resume after the last record that
continues the sequence. `Save` is `write_config` up to its first flash
operation, `ClearLog`, `WriteNv`, `EraseSector` and `WritePage` the operations
themselves, so that `PowerCut` may fall between or inside any two of them.
`Program` is what NOR flash does: only an erased page takes a record.
`OtaOffer`, `EraseImage`, `OtaAddress`, `OtaResume`, `OtaBlock`, `OtaFails` and
`OtaDone` are the update client together with `app_otaProcessMsgHandler`. Between
`OtaOffer` and `EraseImage` (`pc = "image"`) stands the loop that erases the image
area: power may fail before it, between two sectors and inside one (`CutErases`,
which serves `clear_user_data` and a single sector too), and any of its sectors
may be skipped (`ImageErasures`). The guards of `flash_write` and `flash_erase`
on a low battery are the `Skippable` branches; `clear_user_data` has none,
because it calls `flash_erase_sector` directly. `OtaDone` runs on when the image
is invalid or its boot flag is not written; power lost between the two flags is
a `Restart` of the old firmware. `Events` says which disturbances an instance has.

That `WriteNv` is one step, all or nothing, is what `NvStore` shows of the
driver below.

### NvStore

`sect` is the two sectors of one NV module: a flag, and the index entries in
order, each with the item, its own flag and the contents it points to. Name
and checksum of a sector count as part of its flag; addresses are the order of
the entries and the room they take (`Size`, `Room`). `pc` is the operation on
flash that `nv_flashWriteNew` does next, `op` the request, `at` the sector it
works on, `moved` is `sectorUpdate`. `Search`, with which every request and
every read begins, is `nv_sector_read`: an empty module erases its first
sector, a sector that was announced but not confirmed becomes the valid one
(`Adopt`). `Place` decides between appending and moving
(`nv_flashWriteNewHandler`), `Copy` moves the live items, of doubled ones the
newer (`nv_exceptionDataHandler`). `Index`, `Content`, `Flag` and `Drop` are
the three programming operations of `nv_write_item` and the mark on the entry
replaced; an entry that cannot be trusted sends the request to the other
sector, once (`force`). `Announce`, `Retire` and `Confirm` change the flags of
the two sectors. `Torn` lists what each operation leaves when power fails
inside it: an index entry is written with its flag last, a torn flag is none of
the known ones. The refinement to `NvItems` maps a module to what a reader gets,
and to nothing once a factory reset has begun; the abstract map empties only
when one begins (`clearing`, which is `resetting`), takes no write until it is
done, and nothing may be back then. `WritesAreAtomic` adds what the
abstract map cannot tell, whether the caller heard of success or of a refusal: a
write that ends with success (`Acknowledged`) has left its value in the store.

### Metering

`closed` is the world, `deb` and `count` are `water_counter_t`, `cfg` is
`watermeter_config`, `attr` what a client reads, `kept` what a start comes up
with (the business of `ConfigStore`), `reg` the register. `CountersHandler` is
the whole handler: debounce, add, overflow, attribute, save. `WriteReq` is
`app_zclWriteReqCmd` with its records in order, every one applied with the value
of the first, as the code does; its effect is stated in closed form (`LastFor`,
`StepAt`), because of several records for one attribute the last one stays and
of several for the step too; a record of another attribute, or of a type that is
not its own, is `"other"`: not handled, but its value counts if it comes first.
`set_regDeepSleep` records the contact levels: in `Stop` the device then sleeps
or resets, in `RecordsLevels` it runs on, because `ota_mcuReboot` returned from
an image it does not take or because `zb_resetDevice2FN` takes its time. `Reset`
is a reset without a record of its own, by `watermeterSysException` or at the
end of such a factory reset; what the register held before is what the start
finds. `Start` is `user_app_init`. `owed` counts closures that are not yet in
the reading; `blurred` are the channels of which that cannot be said: bounced,
caught in the middle of debouncing by a stop, or misread after a `Reset` (see
the divergences).

### Leak, Button, Reporting

`Leak` has `WaterleakHandler` (both sensors in the order of the code, each with
commands, zone status and notification) and `SaveActions`/`Restored`, the NV
item. `missed` remembers that a sensor changed while there was no network,
because the code then does nothing. A switch action that is none of the three
known ones sends no command (`"other"`).

`Button` has `PressFound`, `ReleaseFound` and the series time-out of
`button_handler`, on a clock of seconds that wraps, and the timers as seconds
left. `held`, `disturbed`, `presses` and `bounced` are history variables: how long
ago the user pressed the button, which no bounce and no restart changes, whether
one of these came since, and what the series of presses had of both.

`Reporting` keeps one record per entry: intervals, the two timers, whether the
value differs from `prevData`, and the time since the last post. `Exceeds`
is `clock_time_exceed` with both sides modulo the clock's period; at equality
it may answer either way. `since`, `stale` and `got` are history: what the
client has seen.

### Network

`bdb` is what `bdb_task` keeps: its state, whether an attempt is under way,
and `result`, the one status that the next confirmation carries. `tasks` are
the events posted to it; `Task` handles one of them in the state it finds,
which need not be the state it was posted in (`TaskInInit`, `TaskInIdle`,
`TaskInSteer`; `Permitted` is a task of its own). `Answer`, `ParentLost` and
`Leaves` are the libraries: a scan or rejoin ends one way or the other, a parent
goes silent, the network removes the device; `DevCnf` is what
`bdb_zdoStartDevCnf` makes of it. `key` is the exchange of the trust center's
link key, with its delays, attempts and the answers still out. `app` has the
timers of the application: `steer` counts those of `app_bdbNetworkSteerStart`,
which the code keeps nowhere, `backoff`, `noJoined` and `poll` are
`appRejoinBackoffTimerEvt`, `timerNoJoinedEvt` and `timerPollRateEvt`, `rate`
is what was last asked of the stack. `Told` is `zb_bdbCommissioningCb`,
`InitCb` is `zb_bdbInitCb`, and `Pulse`, `ShortPress`, `OtaStart` and
`OtaFails` are the other places that touch the poll timer. Time is not counted:
a timer that runs may fire at any moment, which includes every order the real
intervals allow.

## 3. The checks

The runs, with TLC's distinct states. A pass covers the whole state space of
the instance.

| Run | Shows | States |
| --- | --- | --- |
| `store_updates` | With updates, failures of updates, presets and restarts in any order, and flash that works: the reading survives (`ReadingSurvives`), pages are erased before written, the inductive invariant `StoreInv` holds, and the store refines `DurableReading` | 71 000 |
| `store_cuts` | With power cuts between and inside flash operations, updates and factory resets: while a record is appended, on a page that is neither the first nor the last, a start finds the old or the new reading (`AppendKeepsOldOrNew`); during a download the NV copy carries the reading (`UpdateKeepsReading`) | 5 700 000 |
| `store_faults` | With everything that can happen, skipped flash operations included: no save touches the part of the image that is already there (`ImageUntouched`) | 1 090 000 |
| `metering` | Two meters, one with a contact that bounces, pulses, write requests, deep sleeps, resets, power losses and failing updates: each closure that can be told apart is counted, and once, with a fresh, an old or no record of the levels; attribute, configuration and kept reading agree; readings stay below the overflow | 275 000 |
| `leak` | Two sensors that bounce, an unstable network, one restart: zone and coordinator agree with the sensors, actions survive, valves close and stay closed | 42 000 |
| `button` | Gestures of every length on a bouncing contact: resets are earned, long presses restart, a restart is not overtaken by a factory reset, the device may sleep | 20 000 |
| `reporting` | The minimum of `user_init` with half an hour as maximum and seven other kinds of intervals, on the repeating clock, network and bindings unstable: intervals in effect, no entry whose intervals the clock tells apart silent for more than two maxima, changes sent at once, nothing sent too often | 1 080 000 |
| `nv` | Writes and factory resets in a module that cannot hold all its items, power cut at and inside every operation: the store refines `NvItems` (`WritesAreAtomic`), a sector is always found, only a full module refuses a write | 282 000 |
| `network` | Joining with and without a link key, losing and finding the network, removal, stops, pulses, clicks and downloads in any order: an attempt is always ahead of a device without a network, never two; if it stays without one it sleeps or tries for ever; the back-off ends with the network; the poll timer keeps running | 17 400 |
| `store_ring`, `leak_outage`, `reporting_hour` | a disagreement between documentation and code each (section 5) | |

Several properties say "unless": `ReadingSurvives` not on the last page,
`AppendKeepsOldOrNew` not on the first page, the last one, or with newer records
ahead, and not for the save that starts an update, which finds the log erased;
`EachClosureCountedOnce` not for a disturbed channel, `AlarmFollowsSensors`
only when both sensors agree. Each exception is a behaviour of the code listed
in section 5 with a definition that drops the exception and that TLC refutes.

### Bounds, and why they are enough

* `NPages`, `SectorStarts`: three or four pages in two sectors instead of 832 in
  52. Everything the code does depends on whether a page is the first, the last,
  sector-aligned or inside a sector, and all of these occur. `MaxTop` allows
  one to two laps, so that old records of the previous lap lie ahead. The wrap
  of `top` itself needs 2^32 saves, more than the flash endures; `MaxTop` stays
  at most `TopMask` and the wrap is not exercised. The proofs hold for every
  size.
* `Reading`: two values tell old from new; in `store_faults` one, because
  `ImageUntouched` is about pages and not values.
* `Polls`: 3 instead of 32 (16 for the button) has a value at each end and one
  between, and 2 in `metering`, where a value between the ends adds states and
  no case. The theorems about counting hold for every `Polls >= 2`.
* `MaxWrites` is 1 in `metering`, and of the two readings, which the code treats
  alike, clients write one (`Written`); the theorems hold for requests of any length.
* `Overflow`, `Unit`, `MaxStep`, `Values`: scaled so that presets fall below a
  step, above the overflow, and pulses cross it. No value is twice `Overflow`
  or more (`BelowOverflow` is not true there, see its hazard).
* `Clicks` 3 of 5, `CounterSize` 8 of 64, `Long` 2, `Full` 4, `Wrap` 6 keep the
  order of the real constants; `MaxHold` 7 is longer than `Wrap`, so that a press
  that the code takes for a short one again is in the run.
* `WrapMs` of `Reporting` is the clock's real period, 268.435 s. `reporting`
  counts time in units of 100 s, so that some intervals are shorter than the
  period and others longer: the battery's minimum of 300 s is three units, and
  its maximum is half an hour, which halves the states. `reporting_hour` has
  the hour of `user_init`, in units of 300 s. `MaxPosted` and `MaxSince` allow
  two maxima and more. Time stops at the bound. The proofs hold for every
  unit, period and table.
* `MaxRestarts` 1 in `Leak`: the state after a restart is again an initial one
  except for what a restart keeps.

* `NvStore`: the module assumes that each item fits a sector by itself, as all
  items of this firmware do. Three items, two of one size and one of two, in three
  slots and a room of three: not all of them fit, so that moves, refusals and second tries
  occur; two values tell old from new. The two small items and the two values
  are interchangeable and declared symmetric; the run has no liveness property.
  `FlagTears` is off (section 5).
* `Attempts` 2 of 3: a first, a repeated and a last time-out. `MaxTasks` 3
  bounds how far confirmations run ahead of the task that reads them; two of
  them already overtake one another. `Disturbances` is empty (section 5).

Deadlock is checked in every run.

### Fairness

Fairness is assumed only of what the scheduler runs without anyone's help.
`Metering`: the main loop polls (`CountersHandler`) and a stopped device starts
in the end (`Start`: a reset ends in a start; deep sleep ends when a contact
changes, and a closure is owed only once one has; without power nothing is
owed, so that the start it also assumes then decides nothing). `Leak`: the main loop polls.
`Button`: the main loop polls, time passes, timers that are due run.
`Network`: posted tasks run, timers run out, the stack answers what it was
asked, and leaves when it was told to. Contacts, water, users, clients, the
network, power and updates get no fairness.

All of it is weak: the steps stay enabled until they are taken. No strong
fairness is assumed, in particular not of `no_joinedCb`. It looks once a minute
whether the stack is busy, the back-off rejoins once a minute, and both are on
one list of timers, often started in the same callback: how they meet is fixed
and not random, so that a look that finds the stack busy may be followed by such
looks for ever. `GivesUpOrTriesOn` therefore promises sleep or attempts for
ever, and no more; `JoinsOrSleeps` is in section 5.

## 4. The proofs

Every proof module states its theorems at the end; the lemmas before them are,
in order, facts about the operators, one lemma per group of actions, and the
invariant. Unless an assumption is named, a theorem holds for every value of the
constants that the `ASSUME` of the module allows.

**The store** (`ConfigStoreProofs`), for any number of pages, layout of sectors,
set of readings and image size.

* `TypeCorrect`: `TypeOK`, for every set of `Events`.
* Under `Calm` (the only events are updates and factory resets, and sequence
  numbers stay below the mask): `StoreInvariant` (`StoreInv`), and from it
  `LastReadingRecovered` (`ReadingSurvives`) and `OnlyErasedPagesWritten`
  (`WritesOnlyErasedPages`).
* For every set of `Events`: `DownloadNotDisturbed` (`ImageUntouched`).
* Without low battery: `CopyKeepsReading` (`UpdateKeepsReading`), power cuts
  included.
* For every set of `Events`, if numbers may reach `TopMask` but not start again
  (`MaxTop <= TopMask`): `AppendLeavesOldOrNew` (`AppendKeepsOldOrNew`).

`ReadingSurvives` is not inductive: it says what a start would find, not why it
would stop there. `StoreInv` says why. Between saves the pages up to `pos` are
consecutive records that lead up to the saved one, the rest of its sector is
erased, and no record anywhere is newer than the one in RAM: the next page
either is erased or holds an older record, so that the scan ends exactly at
`pos`. In the middle of a save the pages still to be written are ready for it.
During an update the NV copy holds the reading and the log does not matter. The
assumption on the events is needed: the cut before a new first page is written,
and the battery that refuses an update or skips a write, do lose the reading.
The other theorems need other invariants, because they hold under faults that
break `StoreInv`. `LoadInv`: while an image is loaded `new_ota` is set, and no
operation on the log is under way while it is set. `Numbered`, for
`AppendLeavesOldOrNew`: which sequence numbers can stand in the log, whatever has
been cut, skipped or torn before. Its point is the one record that carries
`TopMask`: a torn first page, which is adopted by its id alone, and whose
successor is number 0. Given the numbers, `AppendLeavesOldOrNew` is about one
step (`AppendScan`): the scan of the log ends where it did, perhaps at a gap an
earlier cut left, or at `pos` with the record just written, and never beyond,
because nothing there is newer. What the theorem excludes, the code loses:
`WrapKeepsReading`, `RingNeverLosesReading` and `OfferKeepsReading` (section 5).

**The refinement** (`DurableReadingProofs`): `StoreImplementsDurableReading`,
under `UpdatesOnly` (`Calm` without factory resets, which do lose the reading).
`KeptIs` evaluates the refinement mapping, whose kept reading is what a start
would recover, under `StoreInv`: the saved reading, or zero when the log is
exactly full. With it, `StepRefines` maps each step to one of `DurableReading`
or to a stutter.

**The item store** (`NvStoreProofs`), for any items and sizes and any number of
slots.

* `NvTypes` (`TypeOK`), for torn flags too: index and contents of a sector never
  exceed it. What has to be added is `RoomInv`: where an entry is about to be
  appended there is a slot and room for it. Behind a move this rests on
  `MovedIs`: the items that move take no more than they took before.
* Under `~FlagTears`: `SectorAlwaysFound` (`AlwaysASector`). The property is
  about one step; the invariant `NvInv` is about the whole request: at each `pc`
  it names the sector the store can be found by, the old one until the new one
  is announced and the new one from then on, and that is never the one the next
  operation spoils.
* Under `~FlagTears`: `WritesAllOrNothing` (`WritesAreAtomic`, the refinement of
  `NvItems` and the value of a write that succeeds). `MapInv` says at each `pc`
  into which sector a reader looks (`Where`), what stands in the two indexes
  (`What`) and which requests there can be (`When`). Its core is `What`: every
  valid entry has its whole contents, and from the move until the old sector is
  retired both sectors hold the same, but for the item being written (`Agree`).
  So it makes no difference to any other item when the reader changes sectors,
  and to the item of the request it makes exactly the difference between the old
  value and the new. `MapStep` shows with it what each step does to what a reader
  gets, power cuts inside an operation among them, and `OutcomeOnMap` that this
  is a write, a reset or a stutter of `NvItems`.

Room is a sum over a sequence and a move picks the live entries out of it, which
the proofs reach by induction over positions. The library states induction with
an operator as parameter; here it is the least counterexample in a set of
numbers (`UpTo`), with which the partial sums are shown to exist and to be
unique (`SumsDefined`).

**Counting** (`MeteringProofs`), for any number of contacts, any `Polls >= 2`,
and any requests, stops, resets, starts and updates.

* `ClosuresCountedOnce` (`EachClosureCountedOnce`). The strengthening `CountInv`
  adds the types it needs and `Woken`: a pulse left over by a start belongs to a
  contact whose debounce value starts at its end (so that the handler cannot
  find it again), a register without the flag names no contact as open, and an
  unpowered device has an empty register. Without the last two, a start could not
  be told whose closures it finds. `EndCounts` is the common part of stops and
  resets: a channel that is not blurred is owed what the start will find in the
  register, whenever that was written.
* `MeteringTypes` (`TypeOK`), `ClientsReadTheCount` (`AttributeShowsReading`),
  `CountedPulsesSurvive` (`CountedPulsesKept`), and, if no value written is
  twice the overflow or more (`SmallWrites`), `ReadingsBelowOverflow`
  (`BelowOverflow`). They are inductive together (`ReadingInv`): a failed update
  reads back what was kept, so that what it leaves in the attributes depends on
  what saves have kept.

**Leaks** (`LeakProofs`), for any number of polls, endpoints and restarts:
`LeakTypes` (`TypeOK`), `ZoneFollowsSensors` (`AlarmFollowsSensors`),
`CoordinatorKnows` (`CoordinatorTold`), `SelectedActionsSurvive`
(`ActionsSurvive`) and `ValvesStayShut` (`ValveStaysShut`). `LeakInv` adds to
the types and the alarm that until the first restart what was told is the
alarm, and that the actions in RAM are always those a start would restore.

**Button** (`ButtonProofs`), for any limits and any period of the clock:
`ButtonTypes` (`TypeOK`), `FactoryResetsEarned` (`FactoryResetEarned`),
`LongPressesRestart` (`LongPressRestarts`), `RestartsComeFirst`
(`RestartComesFirst`). `ButtonInv` has, besides the types: the clock
never shows more than the user held the button, and just that if nothing
disturbed the press and the clock did not repeat in it (`HeldInv`); `SeriesInv`, the
clicks counted, with the one not yet debounced, are presses of one series; and
`TimersInv`, how far the two timers and the two time stamps can be apart, which
is what keeps a factory reset from being asked for beside a restart.

**Reports** (`ReportingProofs`), for any table of entries and any clock:
`ReportingTypes` (`TypeOK`); for configuration commands of one attribute at a
time (`OneAtATime`) `TimersFollowConfiguration` (`IntervalsInEffect`); and, if
besides no report is posted a whole number of periods of the clock before the
end of the maximum interval (`NeverInStep`), `ReadingsAlwaysReported`
(`ReadingsReported`). The invariant `Sound` is one of each entry: its timers run
on its intervals; the time since the last post and what is left of the maximum
do not exceed the maximum together, and without a timer no time has passed; what
is stale has changed. Both assumptions are needed. Without the first, the timers
of the second attribute keep their old intervals. Without the second, an entry
whose report of the maximum interval meets the clock at the same value may drop
it. Units of 100 s or 300 s share no multiple with the clock's 268.435 s within
any `MaxPosted` in use, so that it holds there.

Three theorems are about entries that do have a minimum interval, under
`OneAtATime`. They rest on `Quiet`, again an invariant of each entry: a timer
that runs has an interval above zero and no more left than that (`Running`);
while the timer of the maximum runs, its end comes before one maximum is over
since the client last heard, or before two, and then the clock will tell
(`Heard`); when a timer ends, the last report is its interval back, if not
overtaken by a report of the maximum (`Apart`).

* `TwoMaximaAtMost` (`OncePerTwoMaxima`): a report of the maximum interval that
  the clock suppresses is followed by one that it does not. The condition on
  the intervals, `ClockTells`, says just this of the two values the clock
  shows; those of `user_init` meet it, with 31.6 s for 300 s and 110.3 s for an
  hour. The intervals 200 s and 500 s do not: such an entry can remain silent
  for longer.
* `ReportsApart` (`NotTooOften`): with a maximum, and a minimum below the clock's
  period, no two reports are closer than the minimum.
* `MinimumKeptInStep` (`MinimumKept`): in a network that stays (`Unstable = {}`)
  the same holds for a minimum above the period, as the 300 s of `user_init`,
  if the maximum is a multiple of it. The clock is then no help; it is that the
  timer of the maximum always ends together with one of the minimum (`InStep`).
  Without a stable network the property fails (section 5).

**Joining** (`NetworkProofs`), for any number of attempts and of waiting tasks,
if nothing goes wrong while a link key is exchanged (`Undisturbed`):
`NetworkTypes` (`TypeOK`), `AnAttemptIsAhead` (`SomethingWillRun`),
`BackoffEnds` (`BackoffEndsWithNetwork`), `SlowPollingReturns`
(`PollTimerRuns`), `OneSearch` (`OneAttemptAtATime`). The properties speak of
timers and attempts; whether they hold depends on which events wait for
`bdb_task`, in which order, and what the shared status says when it reads them.
`NetworkInv` (`NetworkStates`) lists that, state by state. After a start one
confirmation waits, or two if the parent is lost at once (`InInit`). At rest
either one search is planned or posted, perhaps with the loss of a parent before
or behind it (`Planned`), or any number of confirmations waits, of which the
last to come has set the status (`OnNetwork`): while no rejoin is under way and
the device was not removed, it says `success` if and only if the device has its
network, so that reading it late does no harm. While
searching, exactly one of scan, timer, exchange and event is under way
(`InSteer`), and a confirmation from before is passed over. The assumption is
needed: a parent lost, or an answer that comes, during the exchange breaks this
(section 5).

**Only model-checked.** Liveness, for which the prover has no rules
(`ClosuresGetCounted`, `LeakStopsWater`, `LeftAloneSleeps`, `GivesUpOrTriesOn`).
Of `NvStore` `RefusedOnlyWhenFull`: it compares the room with a sum over a set of
items, and what that fold has to do with the sum over a sequence in `Used` has
not been proved. No module contains a `RECURSIVE` operator, so that all of them
remain open to proofs.

## 5. Where the code and its documentation part

Three of these are runs that end in a counterexample (marked) and findings in
`PROJECT.json`. The others are definitions in the last section of their module,
to be put in place of the properties of the configuration named.

| Property | What happens | Reproduce with |
| --- | --- | --- |
| `RingNeverLosesReading` (run `store_ring`) | a restart with the last record on the last page erases the log and starts at 0 | `MCConfigStoreRing.cfg` |
| `HandoverKeepsReading` | power fails after the first start following an update cleared the flag in NV and before the log holds the reading | `MCConfigStoreUpdates.cfg` |
| `WrapKeepsReading` | where the ring wraps, the sector of the first page is erased before the page is written; without its first page the log is not read, and a cut in between comes up with 0 | `MCConfigStoreUpdates.cfg`, `Events = {}` |
| `OfferKeepsReading` | an offered image erases the log before the NV copy has the reading; a cut in between comes up with 0 | same, `Events = {"update"}` |
| `RefusedUpdateKeepsReading` | the log is erased when an image is offered, before the battery is checked; a refused update followed by a restart comes up with 0 | same, `Events = {"update", "lowcharge"}` |
| `FactoryResetKeepsReading` | leaving the network erases the NV item, and `init_config` then ignores the log | same, `Events = {"factory"}` |
| `DownloadIntact` | a download resumed after a restart continues over pages the restart rewrote; the image check rejects it in the end | same, `ResumeMin = 0` |
| `ResetsCountNothingTwice` | after an image that is not taken, or in a slow factory reset, the device polls on with the levels recorded: a contact that closes, is counted and is still closed in a reset by `watermeterSysException` is counted again | `MCMetering.cfg` |
| `ResetsLoseNothing` | a contact that closes during a reset without a record is taken for one that was closed all along | `MCMetering.cfg` |
| `RestartKeepsSettings` | a preset or step is saved only with the next pulse | `MCMetering.cfg` |
| `PresetSurvivesUpdate` | a failed update reloads the configuration and leaves the preset in the attribute | `MCMetering.cfg` |
| `StepAsSet` | steps of 2 to 9 litres become 1 | same, `Unit = 3`, `MaxStep = 3`, `Overflow = 4`, `Values = {2}` |
| `OutageOnlyDelays` (run `leak_outage`) | a leak debounced without a network is never acted on | `MCLeakOutage.cfg` |
| `OtherSensorStillWet` | the sensor that dries clears the alarm of the other | `MCLeak.cfg` |
| `RestartRemembersAlarm` | after a restart nobody tells the coordinator that the leak is over | `MCLeak.cfg` |
| `ToggledOnce` | with the toggle action the second sensor opens the valve again | `MCLeak.cfg` |
| `FactoryResetByPresses` | bounces inside a press count as clicks | `MCButton.cfg` |
| `LongHoldRestarts` | a bounce in a long press starts its time again: released within five seconds of the bounce, it asks only for a report | `MCButton.cfg` |
| `AnyLongPressRestarts` | a press of more than ten seconds does not restart | `MCButton.cfg` |
| `OncePerMaximum` (run `reporting_hour`) | the hourly battery report is dropped when the clock wrapped | `MCReportingHour.cfg` |
| `MinimumKept` | once the network was away, the report of the maximum interval may follow another one before a minimum interval above the clock's period is over, as the battery's | `MCReporting.cfg` |
| `MinimumWithoutMaximum` | with a minimum and no maximum every change is reported at once | `MCReporting.cfg` |
| `IntervalsInEffect` with `MaxAttrs = 2` | a configuration command for two attributes cancels the timers of the first only | `Reporting` with two entries |
| `WritesAreAtomic`, `AlwaysASector` | the two bytes of 0xFAFA become 0x7A7A one after the other when a ready sector is confirmed: a cut between them leaves a flag nobody recognises in the only sector there is | `MCNvStore.cfg`, `FlagTears = TRUE` |
| `SomethingWillRun` | a device that loses its parent while it exchanges the link key, or leaves while the answer is on its way, is told that it has joined: it plans no further attempt | `MCNetwork.cfg`, `Disturbances = {"loss"}` or `{"late answer"}` |
| `PollTimerRuns` | after a late answer the device is on a network without the confirmation that starts its poll timer | same, `{"late answer"}` |
| `JoinsOrSleeps` | `no_joinedCb` may find the stack busy at every look and come back in a minute for ever: the device never sleeps | `MCNetwork.cfg` |
| `DownloadPollsFast` | a pulse starts the poll timer in the middle of a download, which is then polled slowly | `MCNetwork.cfg` |

Behaviour that the properties exclude and the modules do model: a settled
contact that opens for one poll is counted twice, and one that is being
debounced when the device stops, or whose pulse of the last start is not yet
added when an exception resets it, is not counted (`blurred`); a save made after
an earlier cut broke the log is lost at the next start, and a torn first page
is adopted by its id alone (outside of `AppendKeepsOldOrNew`, as are records of
an earlier lap that cuts made current again); a flash operation skipped on a low
battery leaves a gap behind which nothing is read (`store_faults`); the records of a write request all take the value of the first
one, whatever they carry (`WriteReq`, `zcl_appCb.c:184`).

## 6. Not modelled

* Light sleep and its wake-up pins: the program goes on where it was; the
  choice of when to sleep is `button_idle`, of which `Button` has the part that
  may keep the device awake.
* The LED and the battery's arithmetic: nothing modelled depends on them.
* Touchlink, finding and binding, network formation: in `bdb.c`, not in use by
  this end device. The network layer itself is in libraries without source; its
  answers are the nondeterminism of `Network`.
* NV items that are not written as single ones and the frame counter, which
  only the libraries use; several NV modules side by side, which share nothing.
  The addresses of contents in a sector are the order of the entries. The buffer
  of `nv_exceptionDataHandler` is taken to be there: without it doubled entries
  move both (`drv_nv.c:535`). The module of the update client, which
  `app_ota_abort` resets without the flag of a factory reset (`zb_appCb.c:342`),
  holds the state of a download and no reading; `ConfigStore` lets a restart come
  up with any smaller offset instead.
* Identify, IAS enrolment, read responses and binding: no state that the
  properties are about.
* The stack itself: a command that is sent arrives or does not. The pool of 24
  timer events is assumed not to run out: a scheduling that finds it empty
  raises an exception, and `watermeterSysException` resets the device, which
  `Metering` has (`Reset`) and the other modules have as a restart. Most timers of the
  application exist once because a variable keeps them; `OneAttemptAtATime`
  is the part of that argument that is not obvious, because nobody keeps the
  timer of the next search.
* The signature check, the factory reset by power cycles (not called), tables,
  makefiles, converters outside of the device.
* The cluster in a reporting configuration: `app_zclCfgReportCmd` compares
  endpoint and attribute only, which tells the entries of `user_init` apart
  (`watermeter.c:269-275`). That `app_task` passes over `app_report_handler` while
  `bdb` is busy (`watermeter.c:182`): with a network it is busy for seconds, and
  `Reporting` takes the handler to have run before a unit of time of 100 s passes.
* Null pointers in `app_reporting[]` before the handler first runs: what is
  read at address 0 is not defined by the source.

## 7. The plan

Done, in this order because a lost reading is the worst the device can do: the
store with its abstract specification, its proofs and its refinement; counting
and readings with their proofs; leaks, button and reporting, with proofs of
their safety; the item store below all of them, with the proof that it is an
atomic map; joining and the poll rate, with proofs of their safety.

Left, by weight:

1. `Meter`: the store and the counters composed, `kept` of `Metering` being
   `Recovered` of `ConfigStore`, so that the counts survive on the same ring
   that updates erase.
2. The timer pool of `ev_timer.c` with its insertions and cancellations from
   within callbacks, under the timers of all parts together.
3. The update client beyond what `ConfigStore` has of it: requests, waits,
   retries and the check of the image, message by message.
4. `Telling`: what the client knows, an abstract specification of change and
   report that `Reporting` refines for entries with a minimum, and for those
   without.
5. Proofs: `RefusedOnlyWhenFull` of `NvStore` for any items, which needs facts
   about the fold that adds up the room over a set.
6. `Led` and the battery level as an operator over its range.
