----------------------------- MODULE LeakProofs -----------------------------
(***************************************************************************)
(* Proofs about Leak: types, agreement of zone status and coordinator with *)
(* the sensors, and the actions in NV, for any length of the debouncing,   *)
(* any actuators and any number of restarts.                               *)
(***************************************************************************)
EXTENDS Leak, TLAPS

Actions == {"on_off", "off_on", "toggle", "other"}
Outcomes == [valve : [Endpoints -> {"on", "off"}], alarm : BOOLEAN, told : BOOLEAN]
Before == [valve |-> valve, alarm |-> alarm, told |-> told]

\* What makes the properties inductive: until a restart the zone status and
\* what was told change together, and NV holds the actions in force.
LeakInv ==
  /\ TypeOK
  /\ AlarmFollowsSensors
  /\ restarts = 0 => told = alarm
  /\ action = Restored

LEMMA InitLeak == Init => LeakInv
<1> SUFFICES ASSUME Init PROVE LeakInv
  OBVIOUS
<1>1. TypeOK
  <2>1. 1 \in 1 .. Polls /\ 0 \in 0 .. MaxRestarts
    BY LeakAssumption
  <2> QED
    BY <2>1 DEF Init, TypeOK, Default
<1>2. AlarmFollowsSensors
  <2>1. First \in Sensors /\ deb[First] = 1 /\ ~alarm
    BY DEF Sensors, Init
  <2> QED
    BY <2>1, LeakAssumption DEF AlarmFollowsSensors
<1>3. action = Restored
  BY DEF Init, Restored
<1> QED
  BY <1>1, <1>2, <1>3 DEF LeakInv, Init

(***************************************************************************)
(* The handler.                                                            *)
(***************************************************************************)
\* One sensor's part leaves zone status and notification as they were, or
\* sets both as the sensor asks; an endpoint that closes is not opened.
LEMMA OneSensor ==
  ASSUME TypeOK, NEW m \in Outcomes, NEW s \in Sensors
  PROVE  /\ Handled(m, s) \in Outcomes
         /\ ~(joined /\ (Detected(s) \/ Dried(s))) => Handled(m, s) = m
         /\ (joined /\ Detected(s)) => Handled(m, s).alarm /\ Handled(m, s).told
         /\ (joined /\ Dried(s)) => ~Handled(m, s).alarm /\ ~Handled(m, s).told
         /\ \A e \in Endpoints :
              Closes(e) => (Handled(m, s).valve[e] = m.valve[e] \/ Handled(m, s).valve[e] = "off")
<1>1. /\ LeakFound(m) \in Outcomes /\ LeakFound(m).alarm /\ LeakFound(m).told
      /\ \A e \in Endpoints : Closes(e) => LeakFound(m).valve[e] = "off"
  <2>1. \A e \in Endpoints : Commanded(action[e], m.valve[e]) \in {"on", "off"}
    BY DEF TypeOK, Commanded, Outcomes
  <2> QED
    BY <2>1 DEF LeakFound, Outcomes, Closes, Commanded
<1>2. /\ LeakOver(m) \in Outcomes /\ ~LeakOver(m).alarm /\ ~LeakOver(m).told
      /\ LeakOver(m).valve = m.valve
  BY DEF LeakOver, Outcomes
<1>3. ~(Detected(s) /\ Dried(s))
  BY DEF Detected, Dried
<1> QED
  BY <1>1, <1>2, <1>3 DEF Handled

\* Where the debounce values are after a poll.
LEMMA Debouncing ==
  ASSUME TypeOK, NEW s \in Sensors
  PROVE  /\ Debounced(s) \in 1 .. Polls
         /\ Debounced(s) = Polls => (Detected(s) \/ deb[s] = Polls) /\ ~Dried(s)
         /\ Debounced(s) = 1 => (Dried(s) \/ deb[s] = 1) /\ ~Detected(s)
BY LeakAssumption DEF TypeOK, Debounced, Detected, Dried

\* The whole handler.
LEMMA HandlerStep ==
  ASSUME TypeOK, WaterleakHandler
  PROVE  /\ TypeOK'
         /\ \A s \in Sensors : deb'[s] = Debounced(s)
         /\ restarts' = restarts /\ action' = action /\ saved' = saved /\ wet' = wet
         /\ (joined /\ (\E s \in Sensors : Detected(s)) /\ ~\E s \in Sensors : Dried(s))
              => alarm' /\ told'
         /\ (joined /\ (\E s \in Sensors : Dried(s)) /\ ~\E s \in Sensors : Detected(s))
              => ~alarm' /\ ~told'
         /\ ~(joined /\ \E s \in Sensors : Detected(s) \/ Dried(s))
              => alarm' = alarm /\ told' = told
         /\ (told = alarm) => (told' = alarm')
         /\ ~missed' => ~missed /\ (joined \/ ~\E s \in Sensors : Detected(s) \/ Dried(s))
         /\ \A e \in Endpoints : Closes(e) => valve'[e] = valve[e] \/ valve'[e] = "off"
<1> DEFINE one == Handled(Before, First)
           two == Handled(one, Second)
<1>1. First \in Sensors /\ Second \in Sensors /\ \A s \in Sensors : s = First \/ s = Second
  BY DEF Sensors
<1>2. Before \in Outcomes
  BY DEF Before, Outcomes, TypeOK
<1>3. /\ one \in Outcomes
      /\ ~(joined /\ (Detected(First) \/ Dried(First))) => one = Before
      /\ (joined /\ Detected(First)) => one.alarm /\ one.told
      /\ (joined /\ Dried(First)) => ~one.alarm /\ ~one.told
      /\ \A e \in Endpoints :
           Closes(e) => (one.valve[e] = valve[e] \/ one.valve[e] = "off")
  BY <1>1, <1>2, OneSensor DEF Before
<1>4. /\ two \in Outcomes
      /\ ~(joined /\ (Detected(Second) \/ Dried(Second))) => two = one
      /\ (joined /\ Detected(Second)) => two.alarm /\ two.told
      /\ (joined /\ Dried(Second)) => ~two.alarm /\ ~two.told
      /\ \A e \in Endpoints :
           Closes(e) => (two.valve[e] = one.valve[e] \/ two.valve[e] = "off")
  BY <1>1, <1>3, OneSensor
<1>5. valve' = two.valve /\ alarm' = two.alarm /\ told' = two.told
  BY DEF WaterleakHandler, Before
<1>6. /\ deb' = [s \in Sensors |-> Debounced(s)]
      /\ missed' = (missed \/ (~joined /\ \E s \in Sensors : Detected(s) \/ Dried(s)))
      /\ UNCHANGED <<wet, joined, action, saved, restarts>>
  BY DEF WaterleakHandler
<1> HIDE DEF one, two
<1>7. TypeOK'
  <2>1. deb' \in [Sensors -> 1 .. Polls]
    BY <1>6, Debouncing
  <2>2. valve' \in [Endpoints -> {"on", "off"}] /\ alarm' \in BOOLEAN /\ told' \in BOOLEAN
    BY <1>4, <1>5 DEF Outcomes
  <2>3. missed' \in BOOLEAN
    BY <1>6 DEF TypeOK
  <2> QED
    BY <1>6, <2>1, <2>2, <2>3 DEF TypeOK
<1>8. \A s \in Sensors : deb'[s] = Debounced(s)
  BY <1>6
<1>9. Before.alarm = alarm /\ Before.told = told
  BY DEF Before
<1>10. (joined /\ (\E s \in Sensors : Detected(s)) /\ ~\E s \in Sensors : Dried(s))
         => alarm' /\ told'
  BY <1>1, <1>3, <1>4, <1>5
<1>11. (joined /\ (\E s \in Sensors : Dried(s)) /\ ~\E s \in Sensors : Detected(s))
         => ~alarm' /\ ~told'
  BY <1>1, <1>3, <1>4, <1>5
<1>12. ~(joined /\ \E s \in Sensors : Detected(s) \/ Dried(s)) => alarm' = alarm /\ told' = told
  BY <1>1, <1>3, <1>4, <1>5, <1>9
<1>13. (told = alarm) => (told' = alarm')
  <2> SUFFICES ASSUME told = alarm PROVE told' = alarm'
    OBVIOUS
  <2>1. one.told = one.alarm
    BY <1>3, <1>9 DEF Outcomes
  <2>2. two.told = two.alarm
    BY <1>4, <2>1 DEF Outcomes
  <2> QED
    BY <2>2, <1>5
<1>14. \A e \in Endpoints : Closes(e) => valve'[e] = valve[e] \/ valve'[e] = "off"
  BY <1>3, <1>4, <1>5
<1> QED
  BY <1>6, <1>7, <1>8, <1>10, <1>11, <1>12, <1>13, <1>14 DEF TypeOK

\* A poll keeps the zone status in agreement with the sensors.
LEMMA HandlerKeepsAgreement ==
  ASSUME LeakInv, WaterleakHandler
  PROVE  AlarmFollowsSensors'
<1> SUFFICES ASSUME ~missed'
             PROVE  /\ (\A s \in Sensors : deb'[s] = Polls) => alarm'
                    /\ (\A s \in Sensors : deb'[s] = 1) => ~alarm'
  BY DEF AlarmFollowsSensors
<1>1. TypeOK /\ ~missed /\ (joined \/ ~\E s \in Sensors : Detected(s) \/ Dried(s))
  BY HandlerStep DEF LeakInv
<1>2. \A s \in Sensors : deb'[s] = Debounced(s)
  BY <1>1, HandlerStep
<1>3. ASSUME \A s \in Sensors : deb'[s] = Polls
      PROVE  alarm'
  <2>1. \A s \in Sensors : (Detected(s) \/ deb[s] = Polls) /\ ~Dried(s)
    BY <1>1, <1>2, <1>3, Debouncing
  <2>2. CASE \E s \in Sensors : Detected(s)
    BY <1>1, <2>1, <2>2, HandlerStep
  <2>3. CASE ~\E s \in Sensors : Detected(s)
    <3>1. alarm' = alarm
      BY <1>1, <2>1, <2>3, HandlerStep
    <3>2. alarm
      BY <1>1, <2>1, <2>3 DEF LeakInv, AlarmFollowsSensors
    <3> QED
      BY <3>1, <3>2
  <2> QED
    BY <2>2, <2>3
<1>4. ASSUME \A s \in Sensors : deb'[s] = 1
      PROVE  ~alarm'
  <2>1. \A s \in Sensors : (Dried(s) \/ deb[s] = 1) /\ ~Detected(s)
    BY <1>1, <1>2, <1>4, Debouncing
  <2>2. CASE \E s \in Sensors : Dried(s)
    BY <1>1, <2>1, <2>2, HandlerStep
  <2>3. CASE ~\E s \in Sensors : Dried(s)
    <3>1. alarm' = alarm
      BY <1>1, <2>1, <2>3, HandlerStep
    <3>2. ~alarm
      BY <1>1, <2>1, <2>3 DEF LeakInv, AlarmFollowsSensors
    <3> QED
      BY <3>1, <3>2
  <2> QED
    BY <2>2, <2>3
<1> QED
  BY <1>3, <1>4

(***************************************************************************)
(* The actions in NV.                                                      *)
(***************************************************************************)
\* The item is brought up to date whatever it held.
LEMMA SavedAsChosen ==
  ASSUME TypeOK, NEW chosen \in [Endpoints -> Actions]
  PROVE  SaveActions(chosen) = chosen
BY DEF SaveActions, TypeOK, Actions

LEMMA SelectKeeps ==
  ASSUME LeakInv, NEW e \in Endpoints, NEW a \in Selectable, SelectAction(e, a)
  PROVE  LeakInv'
<1>1. action' \in [Endpoints -> Actions] /\ saved' = action'
  <2>1. action' \in [Endpoints -> Actions]
    BY LeakAssumption DEF LeakInv, TypeOK, SelectAction, Actions
  <2> QED
    BY <2>1, SavedAsChosen DEF SelectAction, LeakInv
<1>2. action' = Restored'
  <2>1. CASE saved' = Nothing
    <3>1. Endpoints = {}
      BY <1>1, <2>1 DEF Nothing
    <3> QED
      BY <3>1
  <2>2. CASE saved' # Nothing
    BY <1>1, <2>2 DEF Restored
  <2> QED
    BY <2>1, <2>2
<1>3. TypeOK'
  BY <1>1 DEF LeakInv, TypeOK, SelectAction, Actions
<1> QED
  BY <1>2, <1>3 DEF LeakInv, SelectAction, AlarmFollowsSensors

LEMMA RestartKeeps ==
  ASSUME LeakInv, Restart
  PROVE  LeakInv' /\ action' = action
<1>1. TypeOK'
  <2>1. 1 \in 1 .. Polls /\ restarts' \in 0 .. MaxRestarts
    BY LeakAssumption DEF LeakInv, TypeOK, Restart
  <2>2. action' \in [Endpoints -> Actions]
    BY DEF LeakInv, TypeOK, Restart, Actions
  <2> QED
    BY <2>1, <2>2 DEF LeakInv, TypeOK, Restart, Actions
<1>2. AlarmFollowsSensors'
  <2>1. First \in Sensors
    BY DEF Sensors
  <2>2. deb'[First] = 1 /\ Polls # 1 /\ ~alarm'
    BY <2>1, LeakAssumption DEF Restart
  <2> QED
    BY <2>1, <2>2 DEF AlarmFollowsSensors
<1>3. restarts' # 0
  BY DEF LeakInv, TypeOK, Restart
<1>4. action' = Restored' /\ action' = action
  BY DEF LeakInv, Restart, Restored
<1> QED
  BY <1>1, <1>2, <1>3, <1>4 DEF LeakInv

(***************************************************************************)
(* The invariant.                                                          *)
(***************************************************************************)
LEMMA NextKeepsLeakInv ==
  ASSUME LeakInv, [Next]_vars
  PROVE  LeakInv'
<1>1. CASE UNCHANGED vars
  BY <1>1 DEF vars, LeakInv, TypeOK, AlarmFollowsSensors, Restored
<1>2. ASSUME NEW s \in Sensors, Water(s)
      PROVE  LeakInv'
  <2>1. wet' \in [Sensors -> BOOLEAN]
    BY <1>2 DEF Water, LeakInv, TypeOK
  <2> QED
    BY <1>2, <2>1 DEF Water, LeakInv, TypeOK, AlarmFollowsSensors, Restored
<1>3. CASE Network
  <2>1. TypeOK'
    BY <1>3 DEF Network, LeakInv, TypeOK
  <2> QED
    BY <1>3, <2>1 DEF Network, LeakInv, AlarmFollowsSensors, Restored
<1>4. CASE WaterleakHandler
  <2>1. TypeOK' /\ (restarts' = 0 => told' = alarm') /\ action' = action /\ saved' = saved
    BY <1>4, HandlerStep DEF LeakInv
  <2> QED
    BY <1>4, <2>1, HandlerKeepsAgreement DEF LeakInv, Restored
<1>5. ASSUME NEW e \in Endpoints, NEW a \in Selectable, SelectAction(e, a)
      PROVE  LeakInv'
  BY <1>5, SelectKeeps
<1>6. CASE Restart
  BY <1>6, RestartKeeps
<1> QED
  BY <1>1, <1>2, <1>3, <1>4, <1>5, <1>6 DEF Next

\* The inductive invariant holds throughout.
LEMMA LeakInvariant == Spec => []LeakInv
BY InitLeak, NextKeepsLeakInv, PTL DEF Spec

\* Type correctness of the debounce values, the actions and the valves.
THEOREM LeakTypes == Spec => []TypeOK
<1>1. LeakInv => TypeOK
  BY DEF LeakInv
<1> QED
  BY <1>1, LeakInvariant, PTL

\* The zone status agrees with the two sensors once both are debounced alike,
\* through bounces, restarts and a network that comes and goes
\* (waterleak_handler).
THEOREM ZoneFollowsSensors == Spec => []AlarmFollowsSensors
<1>1. LeakInv => AlarmFollowsSensors
  BY DEF LeakInv
<1> QED
  BY <1>1, LeakInvariant, PTL

\* Until the device restarts, the coordinator was told what the zone status
\* says, and so agrees with the sensors too.
THEOREM CoordinatorKnows == Spec => []CoordinatorTold
<1>1. LeakInv => CoordinatorTold
  BY DEF LeakInv, CoordinatorTold, AlarmFollowsSensors
<1> QED
  BY <1>1, LeakInvariant, PTL

\* A restart comes up with the actions selected last
\* (zcl_onOffCfgAttr_save and zcl_onOffCfgAttr_restore).
THEOREM SelectedActionsSurvive == Spec => ActionsSurvive
<1>1. ASSUME LeakInv, [Next]_vars
      PROVE  [Restart => action' = action]_vars
  BY <1>1, RestartKeeps
<1> QED
  BY <1>1, LeakInvariant, PTL DEF Spec, ActionsSurvive

\* No step opens a valve whose action closes it while a sensor is wet.
THEOREM ValvesStayShut == Spec => ValveStaysShut
<1> DEFINE Kept == \A e \in Endpoints :
             (Closes(e) /\ \E s \in Sensors : deb[s] = Polls /\ wet[s])
               => ~(valve[e] = "off" /\ valve'[e] = "on")
<1>1. ASSUME LeakInv, [Next]_vars
      PROVE  [Kept]_vars
  <2>1. CASE WaterleakHandler
    BY <1>1, <2>1, HandlerStep DEF LeakInv
  <2>2. CASE ~WaterleakHandler
    <3>1. valve' = valve
      BY <1>1, <2>2 DEF Next, vars, Water, Network, SelectAction, Restart
    <3> QED
      BY <3>1
  <2> QED
    BY <2>1, <2>2
<1> QED
  BY <1>1, LeakInvariant, PTL DEF Spec, ValveStaysShut
=============================================================================
