-------------------------------- MODULE Leak --------------------------------
(***************************************************************************)
(* Leak sensors (src/app_leak.c) and the actions they trigger              *)
(* (src/zcl/zcl_onoffSwitchCfg.c).                                         *)
(*                                                                         *)
(* Two sensors are polled by the main loop and debounced as the water      *)
(* meters are.  A sensor found wet sends one command per actuator endpoint *)
(* and raises the one alarm bit of the IAS zone; found dry, it clears that *)
(* bit and sends nothing (the commands of a drying sensor are compiled in  *)
(* debug builds only).  Nothing at all is sent or set without a network.   *)
(***************************************************************************)
EXTENDS Integers

CONSTANTS
  First,       \* the sensors in the order waterleak_handler looks at them
  Second,
  Endpoints,   \* the endpoints of the actuators (EP4 and EP5)
  Polls,       \* DEBOUNCE_COUNTER (32)
  Selectable,  \* the actions a Zigbee client selects
  MaxRestarts, \* bound on the restarts of the device
  Offline      \* whether the network may go down

ASSUME LeakAssumption ==
  /\ First # Second
  /\ Polls \in Nat /\ Polls >= 2
  \* "other" is any value out of the range of the attribute
  /\ Selectable \subseteq {"on_off", "off_on", "toggle", "other"}
  /\ MaxRestarts \in Nat
  /\ Offline \in BOOLEAN

VARIABLES
  wet,      \* wet[s]: the contacts of sensor s are in water
  deb,      \* waterleak_debounce1 and waterleak_debounce2
  joined,   \* zb_isDeviceJoinedNwk
  alarm,    \* ALARM1 in the zone status
  told,     \* the alarm as last notified to the coordinator
  action,   \* switchActions of every endpoint
  saved,    \* the item in NV: a function of the endpoints, or Nothing
  valve,    \* what the actuator of every endpoint was last commanded to
  restarts, \* restarts so far
  missed    \* history: since the last start, a sensor was found wet or dry
            \* while the network was down

vars == <<wet, deb, joined, alarm, told, action, saved, valve, restarts, missed>>

Sensors == {First, Second}
Nothing   == [e \in {} |-> "on_off"]
Default   == [e \in Endpoints |-> "on_off"]

(***************************************************************************)
(* The environment.                                                        *)
(***************************************************************************)
Water(s) ==
  /\ wet' = [wet EXCEPT ![s] = ~@]
  /\ UNCHANGED <<deb, joined, alarm, told, action, saved, valve, restarts, missed>>

Network ==
  /\ Offline
  /\ joined' = ~joined
  /\ UNCHANGED <<wet, deb, alarm, told, action, saved, valve, restarts, missed>>

(***************************************************************************)
(* waterleak_handler.                                                      *)
(***************************************************************************)
\* Mutant: the value climbs for ever.
DebouncedOn(s) == IF wet[s] THEN deb[s] + 1 ELSE IF deb[s] = 1 THEN 1 ELSE deb[s] - 1
Debounced(s) ==
  IF wet[s] THEN (IF deb[s] = Polls THEN Polls ELSE deb[s] + 1)
  ELSE IF deb[s] = 1 THEN 1 ELSE deb[s] - 1

Detected(s) == wet[s] /\ deb[s] = Polls - 1
Dried(s)    == ~wet[s] /\ deb[s] = 2

\* Where the command chosen by an action leaves the actuator.
Commanded(a, position) ==
  CASE a = "on_off" -> "off"
    [] a = "off_on" -> "on"
    [] a = "toggle" -> IF position = "on" THEN "off" ELSE "on"
    [] a = "other"  -> position

\* Mutant: a command is sent to one endpoint only.
LeakFoundOnce(m) ==
  LET e == CHOOSE e \in Endpoints : TRUE
  IN  [m EXCEPT !.valve[e] = Commanded(action[e], @), !.alarm = TRUE, !.told = TRUE]
\* Mutant: the zone status is sent and not set.
LeakFoundUnset(m) ==
  [valve |-> [e \in Endpoints |-> Commanded(action[e], m.valve[e])],
   alarm |-> m.alarm, told |-> TRUE]
\* A detected leak: the commands, zone status and notification.
LeakFound(m) ==
  [valve |-> [e \in Endpoints |-> Commanded(action[e], m.valve[e])],
   alarm |-> TRUE, told |-> TRUE]

\* Mutant: the alarm is cleared and nobody is told.
LeakOverSilently(m) == [m EXCEPT !.alarm = FALSE]
\* Mutant: a drying sensor takes the command back, as the debug build does.
LeakOverUndone(m) ==
  [valve |-> [e \in Endpoints |-> IF action[e] = "on_off" THEN "on" ELSE "off"],
   alarm |-> FALSE, told |-> FALSE]
\* A dried leak.
LeakOver(m) == [m EXCEPT !.alarm = FALSE, !.told = FALSE]

\* One sensor's part of the handler.
Handled(m, s) ==
  IF joined /\ Detected(s) THEN LeakFound(m)
  ELSE IF joined /\ Dried(s) THEN LeakOver(m)
  ELSE m

WaterleakHandler ==
  /\ deb' = [s \in Sensors |-> Debounced(s)]
  /\ LET before == [valve |-> valve, alarm |-> alarm, told |-> told]
         after  == Handled(Handled(before, First), Second)
     IN  /\ valve' = after.valve
         /\ alarm' = after.alarm
         /\ told' = after.told
  /\ missed' = (missed \/ (~joined /\ \E s \in Sensors : Detected(s) \/ Dried(s)))
  /\ UNCHANGED <<wet, joined, action, saved, restarts>>

(***************************************************************************)
(* The actions.                                                            *)
(***************************************************************************)
\* Mutant: an existing item is not brought up to date.
SaveFirstOnly(chosen) == IF saved = Nothing THEN chosen ELSE saved
\* zcl_onOffCfgAttr_save: what NV holds afterwards.
SaveActions(chosen) ==
  IF saved = Nothing THEN chosen
  ELSE [e \in Endpoints |-> IF saved[e] # chosen[e] THEN chosen[e] ELSE saved[e]]

\* The stack writes the attribute, then the handler of write requests saves.
SelectAction(e, a) ==
  /\ joined
  /\ action' = [action EXCEPT ![e] = a]
  /\ saved' = SaveActions(action')
  /\ UNCHANGED <<wet, deb, joined, alarm, told, valve, restarts, missed>>

\* zcl_onOffCfgAttr_restore over the initial values of the attributes.
Restored == IF saved = Nothing THEN Default ELSE saved

Restart ==
  /\ restarts < MaxRestarts
  /\ restarts' = restarts + 1
  /\ deb' = [s \in Sensors |-> 1]
  /\ alarm' = FALSE /\ missed' = FALSE
  /\ action' = Restored
  /\ UNCHANGED <<wet, joined, told, saved, valve>>

Init ==
  /\ wet = [s \in Sensors |-> FALSE]
  /\ deb = [s \in Sensors |-> 1]
  /\ joined = TRUE
  /\ alarm = FALSE /\ told = FALSE
  /\ action = Default
  /\ saved = Nothing
  /\ valve = [e \in Endpoints |-> "on"]
  /\ restarts = 0 /\ missed = FALSE

Next ==
  \/ \E s \in Sensors : Water(s)
  \/ Network
  \/ WaterleakHandler
  \/ \E e \in Endpoints, a \in Selectable : SelectAction(e, a)
  \/ Restart

Spec     == Init /\ [][Next]_vars
FairSpec == Spec /\ WF_vars(WaterleakHandler)

(***************************************************************************)
(* Properties.                                                             *)
(***************************************************************************)
\* Type correctness.
TypeOK ==
  /\ wet \in [Sensors -> BOOLEAN]
  /\ deb \in [Sensors -> 1 .. Polls]
  /\ joined \in BOOLEAN /\ alarm \in BOOLEAN /\ told \in BOOLEAN
  /\ action \in [Endpoints -> {"on_off", "off_on", "toggle", "other"}]
  /\ saved = Nothing \/ saved \in [Endpoints -> {"on_off", "off_on", "toggle", "other"}]
  /\ valve \in [Endpoints -> {"on", "off"}]
  /\ restarts \in 0 .. MaxRestarts /\ missed \in BOOLEAN

\* The zone status agrees with the sensors, however they bounce and the
\* network and restarts come and go: an alarm once all are debounced wet, none
\* once all are debounced dry.  In between they get in each other's way
\* (OtherSensorStillWet).
AlarmFollowsSensors ==
  ~missed =>
    /\ (\A s \in Sensors : deb[s] = Polls) => alarm
    /\ (\A s \in Sensors : deb[s] = 1) => ~alarm

\* What the coordinator was told last agrees with the sensors in the same way:
\* dry once they are dry and have been polled dry.  A restart makes the device
\* forget what it told (RestartRemembersAlarm).
CoordinatorTold ==
  (~missed /\ restarts = 0) =>
    /\ (\A s \in Sensors : deb[s] = Polls) => told
    /\ (\A s \in Sensors : deb[s] = 1 /\ ~wet[s]) => ~told

\* A start comes up with the actions a client selected last, whichever
\* endpoints were written and in whatever order.
ActionsSurvive == [][Restart => action' = action]_vars

Closes(e) == action[e] = "on_off"

\* A leak shuts every valve whose action says so when it is debounced, across
\* restarts and bounces, unless the water goes before or the network is down.
LeakStopsWater ==
  \A s \in Sensors, e \in Endpoints :
    (wet[s] /\ deb[s] < Polls /\ Closes(e))
      ~> (valve[e] = "off" \/ ~wet[s] \/ missed \/ ~Closes(e))

\* Such a valve does not open again while a sensor stays wet: not by the second
\* sensor, not by a sensor that bounces, not by one that dries.
ValveStaysShut ==
  [][\A e \in Endpoints :
       (Closes(e) /\ \E s \in Sensors : deb[s] = Polls /\ wet[s])
       => ~(valve[e] = "off" /\ valve'[e] = "on")]_vars

(***************************************************************************)
(* What the documentation promises and the code does not do.               *)
(***************************************************************************)
\* Water at any sensor is a leak (README.md:221): violated because the sensor
\* that dries clears the one alarm bit of both.
OtherSensorStillWet ==
  ~missed => ((\E s \in Sensors : deb[s] = Polls) => alarm)

\* The state of the cluster changes when the water dries (README.md:221):
\* violated because a restart forgets the alarm that was sent.
RestartRemembersAlarm ==
  (\A s \in Sensors : deb[s] = 1 /\ ~wet[s]) => ~told

\* The actuators are commanded even if the network goes down for a while
\* (README.md:223): violated because a leak that is debounced in that while is
\* never acted on, also when the network is back.
OutageOnlyDelays ==
  \A s \in Sensors, e \in Endpoints :
    (wet[s] /\ joined) ~> (valve[e] = "off" \/ ~wet[s] \/ ~joined)

\* A toggled valve stays as the leak left it (README.md:273): violated because
\* the second sensor toggles again.
ToggledOnce ==
  [][\A e \in Endpoints :
       (\E s \in Sensors : deb[s] = Polls /\ wet[s])
       => ~(valve[e] = "off" /\ valve'[e] = "on")]_vars
=============================================================================
