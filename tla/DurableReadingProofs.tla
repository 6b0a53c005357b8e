------------------------ MODULE DurableReadingProofs ------------------------
(***************************************************************************)
(* Proof that ConfigStore implements DurableReading, for every size of the *)
(* log, every layout of its sectors and every set of readings, while no    *)
(* fault disturbs the store: each of its steps keeps, changes, shelves,    *)
(* stops or adopts the reading, or leaves it alone.                        *)
(***************************************************************************)
EXTENDS ConfigStoreProofs

\* Restarts and updates that are not refused, and no factory reset.
UpdatesOnly == Calm /\ "factory" \notin Events

\* Until the first save has written the NV copy nothing is kept; what is kept
\* later is a reading.
CopyInv ==
  /\ mem.val \in Reading /\ saved \in Reading
  /\ ~nv.valid => /\ pc \in {"off", "clear", "nv"}
                  /\ ~mem.newOta /\ pos = 0 /\ saved = Zero

RefineInv == TypeOK /\ StoreInv /\ CopyInv

\* What a start would come up with, in terms of the variables of a save.
Kept(m, p, s) == IF m.newOta \/ p # Last THEN s ELSE Zero
RoomLeft(m, p) == IF m.newOta THEN Last ELSE Last - p

LEMMA LastFacts == Last \in Nat /\ Last # 0 /\ 0 \in Page /\ \A p \in Page : p \in 0 .. Last
BY ConfigStoreAssumption DEF Last, Page

\* The refinement mapping of the kept reading.
LEMMA KeptIs ==
  ASSUME Calm, RefineInv
  PROVE  KeptReading = Kept(mem, pos, saved)
<1> USE DEF RefineInv
<1>1. CASE pc \notin {"run", "image", "off"}
  BY <1>1 DEF KeptReading, Kept
<1>2. CASE pc \in {"run", "image", "off"} /\ ~nv.valid
  <2>1. Outcome(log, nv) = "default"
    BY <1>2 DEF Outcome
  <2>2. KeptReading = Zero /\ pos = 0 /\ saved = Zero
    BY <1>2, <2>1 DEF KeptReading, Recovered, CopyInv
  <2> QED
    BY <2>2 DEF Kept
<1>3. CASE pc \in {"run", "image", "off"} /\ nv.valid /\ mem.newOta
  <2>1. nv.newOta /\ nv.val = saved
    BY <1>3 DEF StoreInv, NvHolds
  <2>2. Outcome(log, nv) = "handover"
    BY <1>3, <2>1 DEF Outcome
  <2> QED
    BY <1>3, <2>1, <2>2 DEF KeptReading, Recovered, Kept
<1>4. CASE pc \in {"run", "image", "off"} /\ nv.valid /\ ~mem.newOta
  <2>1. LogHolds /\ NvOld /\ NoNewerRecord /\ mem.top <= MaxTop
    BY <1>4 DEF StoreInv
  <2>2. ScanEnd(log) = pos
    BY <2>1, ScanFindsLastSave
  <2>3. log[0].kind = "rec"
    BY <2>1, ConfigStoreAssumption DEF LogHolds, LeadsTo, TypeOK, Page
  <2>4. Outcome(log, nv) = IF pos = Last THEN "default" ELSE "resume"
    BY <1>4, <2>1, <2>2, <2>3 DEF Outcome, HasId, NvOld
  <2> QED
    BY <1>4, <2>1, <2>2, <2>4 DEF KeptReading, Recovered, Kept, LogHolds
<1> QED
  BY <1>1, <1>2, <1>3, <1>4

(***************************************************************************)
(* CopyInv.                                                                *)
(***************************************************************************)
LEMMA InitRefines == Init => CopyInv
BY ConfigStoreAssumption DEF Init, CopyInv, Default, Invalid

\* What a start or a failed update adopts is what was kept.
LEMMA AdoptsKept ==
  ASSUME Calm, RefineInv, InitConfig(log), UNCHANGED <<log, nv>>,
         pc = "off" \/ (pc = "run" /\ mem.newOta)
  PROVE  /\ CopyInv'
         /\ mem'.val = KeptReading /\ saved' = mem'.val
         /\ Kept(mem', pos', saved') = KeptReading
         /\ RoomLeft(mem', pos') = IF RoomLeft(mem, pos) = 0 THEN Last ELSE RoomLeft(mem, pos)
         /\ pc' # "off"
<1> USE DEF RefineInv
<1>1. CASE Outcome(log, nv) = "default" /\ mem' = Default /\ pos' = 0 /\ fresh' = TRUE /\ pc' = "clear"
  <2>1. pc = "off"
    BY <1>1 DEF CopyInv, Outcome, StoreInv, NvHolds
  <2>2. KeptReading = Zero
    BY <1>1, <2>1 DEF KeptReading, Recovered
  <2>3. mem'.val = Zero /\ ~mem'.newOta /\ saved' = Zero
    BY <1>1 DEF InitConfig, Default
  <2>4. mem.newOta \/ pos = 0 \/ pos = Last
    <3> SUFFICES ASSUME ~mem.newOta, nv.valid PROVE pos = Last
      BY DEF CopyInv
    <3>1. LogHolds /\ NvOld /\ NoNewerRecord /\ mem.top <= MaxTop
      BY <2>1 DEF StoreInv
    <3>2. ScanEnd(log) = pos /\ log[0].kind = "rec"
      BY <3>1, ScanFindsLastSave, ConfigStoreAssumption DEF LogHolds, LeadsTo, TypeOK, Page
    <3> QED
      BY <1>1, <3>1, <3>2 DEF Outcome, HasId, NvOld
  <2> QED
    BY <1>1, <2>2, <2>3, <2>4, LastFacts, ConfigStoreAssumption DEF CopyInv, Kept, RoomLeft
<1>2. CASE /\ Outcome(log, nv) = "handover"
           /\ mem' = [top |-> nv.top, val |-> nv.val, newOta |-> FALSE]
           /\ pos' = 0 /\ fresh' = TRUE /\ pc' = "nv"
  <2>1. nv.valid /\ nv.newOta
    BY <1>2 DEF Outcome
  <2>2. mem.newOta /\ nv.val = saved
    BY <2>1 DEF StoreInv, NvHolds, NvOld
  <2>3. KeptReading = saved /\ RoomLeft(mem, pos) = Last
    BY <2>2, KeptIs DEF Kept, RoomLeft
  <2>4. mem'.val = saved /\ saved' = saved /\ ~mem'.newOta
    BY <1>2, <2>2 DEF InitConfig
  <2> QED
    BY <1>2, <2>1, <2>3, <2>4, LastFacts DEF CopyInv, Kept, RoomLeft
<1>3. CASE /\ Outcome(log, nv) = "resume"
           /\ mem' = [top |-> log[ScanEnd(log)].top, val |-> log[ScanEnd(log)].val,
                      newOta |-> FALSE]
           /\ pos' = ScanEnd(log) /\ fresh' = FALSE /\ pc' = "run"
  <2>1. nv.valid /\ ~nv.newOta /\ ScanEnd(log) # Last
    BY <1>3 DEF Outcome
  <2>2. pc = "off" /\ ~mem.newOta
    BY <2>1 DEF StoreInv, NvHolds
  <2>3. LogHolds /\ NvOld /\ NoNewerRecord /\ mem.top <= MaxTop
    BY <2>1, <2>2 DEF StoreInv
  <2>4. ScanEnd(log) = pos
    BY <2>3, ScanFindsLastSave
  <2>5. mem'.val = saved /\ saved' = saved /\ pos' = pos /\ ~mem'.newOta
    BY <1>3, <2>3, <2>4 DEF LogHolds, InitConfig
  <2>6. KeptReading = saved
    BY <2>1, <2>2, <2>4, KeptIs DEF Kept
  <2>7. pos \in Page
    BY DEF TypeOK
  <2> QED
    BY <1>3, <2>1, <2>2, <2>4, <2>5, <2>6, <2>7, LastFacts DEF CopyInv, Kept, RoomLeft
<1> QED
  BY <1>1, <1>2, <1>3 DEF InitConfig

(***************************************************************************)
(* The steps, with Kept for the kept reading.                              *)
(***************************************************************************)
Live == mem.val
Up   == pc # "off"
Held == Kept(mem, pos, saved)
Left == RoomLeft(mem, pos)

Same    == Live' = Live /\ Held' = Held /\ Left' = Left /\ Up' = Up
Changes == Up /\ Live' \in Reading /\ Held' = Held /\ Left' = Left /\ Up' = Up
Keeps ==
  /\ Up /\ Live' \in Reading /\ Up' = Up
  /\ Left' = IF Left = 0 THEN Last ELSE Left - 1
  /\ Held' = IF Left' = 0 THEN Zero ELSE Live'
Shelves == Up /\ Live' \in Reading /\ Held' = Live' /\ Left' = Last /\ Up' = Up
Stops   == Up /\ ~Up' /\ Live' = Live /\ Held' = Held /\ Left' = Left
Adopts  == Up' /\ Live' = Held /\ Left' = (IF Left = 0 THEN Last ELSE Left) /\ Held' = Held

LEMMA SaveRefines ==
  ASSUME UpdatesOnly, RefineInv, NEW v \in Reading, Save(v)
  PROVE  CopyInv' /\ (Keeps \/ Shelves)
<1> USE DEF RefineInv
<1>1. nv.valid /\ pos \in Page /\ pc = "run" /\ pc' \in {"nv", "erase", "write"}
      /\ mem'.val = v /\ saved' = v /\ nv' = nv /\ mem'.newOta = mem.newOta
  BY DEF Save, CopyInv, TypeOK
<1>2. CopyInv'
  BY <1>1 DEF CopyInv
<1>3. CASE mem.newOta
  <2>1. mem'.newOta
    BY <1>1, <1>3, Zenon
  <2> QED
    BY <1>1, <1>2, <2>1 DEF Shelves, Live, Up, Held, Left, Kept, RoomLeft
<1>4. CASE ~mem.newOta
  <2>1. pos' = IF pos = Last THEN 0 ELSE pos + 1
    BY <1>4 DEF Save
  <2>2. Left = Last - pos /\ Left' = Last - pos'
    BY <1>1, <1>4 DEF Left, RoomLeft
  <2>3. Left' = IF Left = 0 THEN Last ELSE Left - 1
    BY <1>1, <2>1, <2>2, LastFacts
  <2>4. Left' = 0 <=> pos' = Last
    BY <1>1, <2>1, <2>2, LastFacts
  <2>5. Held' = IF Left' = 0 THEN Zero ELSE Live'
    BY <1>1, <1>4, <2>4 DEF Held, Kept, Live
  <2>6. Up /\ Up' = Up /\ Live' \in Reading
    BY <1>1 DEF Up, Live
  <2> QED
    BY <1>2, <2>3, <2>5, <2>6 DEF Keeps
<1> QED
  BY <1>2, <1>3, <1>4

\* The start of a download, and its resumption.
LEMMA UpdateRefines ==
  ASSUME UpdatesOnly, RefineInv, EraseImage \/ OtaResume
  PROVE  CopyInv' /\ Shelves
<1> USE DEF RefineInv
<1>1. /\ mem' = [mem EXCEPT !.newOta = TRUE] /\ saved' = mem.val
      /\ pc \in {"run", "image"} /\ pc' = "nv" /\ nv' = nv
  BY DEF EraseImage, OtaResume, UpdateStarts, UpdatesOnly, Calm
<1>2. mem'.newOta /\ mem'.val = mem.val /\ nv.valid
  BY <1>1 DEF TypeOK, CopyInv
<1> QED
  BY <1>1, <1>2 DEF CopyInv, Shelves, Live, Up, Held, Left, Kept, RoomLeft

LEMMA StepRefines ==
  ASSUME UpdatesOnly, RefineInv, Next
  PROVE  CopyInv' /\ (Same \/ Changes \/ Keeps \/ Shelves \/ Stops \/ Adopts)
<1> USE DEF RefineInv
<1>0. Calm /\ "factory" \notin Events
  BY DEF UpdatesOnly
<1>1. ASSUME InitConfig(log), UNCHANGED <<log, nv>>, pc = "off" \/ (pc = "run" /\ mem.newOta)
      PROVE  CopyInv' /\ Adopts
  <2>1. KeptReading = Held
    BY <1>0, KeptIs DEF Held
  <2> QED
    BY <1>0, <1>1, <2>1, AdoptsKept DEF Adopts, Live, Up, Held, Left
<1>2. CASE Boot
  BY <1>1, <1>2 DEF Boot
<1>3. CASE ClearLog \/ EraseSector \/ WritePage \/ OtaOffer \/ OtaBlock
  <2>1. UNCHANGED <<mem, pos, saved, nv>> /\ pc # "off" /\ pc' # "off"
        /\ (~nv.valid => pc = "clear" \/ pc = "nv") /\ (pc = "clear" => pc' = "nv")
        /\ pc # "nv"
    BY <1>3 DEF ClearLog, EraseSector, WritePage, OtaOffer, OtaBlock, CopyInv
  <2> QED
    BY <2>1 DEF CopyInv, Same, Live, Up, Held, Left
<1>4. CASE WriteNv
  <2>1. UNCHANGED <<mem, pos, saved>> /\ nv'.valid /\ pc # "off" /\ pc' # "off"
    BY <1>0, <1>4 DEF WriteNv, Calm, Skippable
  <2> QED
    BY <2>1 DEF CopyInv, Same, Live, Up, Held, Left
<1>5. ASSUME NEW v \in Reading, Save(v)
      PROVE  CopyInv' /\ (Keeps \/ Shelves)
  BY <1>5, SaveRefines
<1>6. ASSUME NEW v \in Reading, Preset(v)
      PROVE  CopyInv' /\ Changes
  <2>1. /\ mem'.val = v /\ mem'.newOta = mem.newOta /\ pc = "run"
        /\ UNCHANGED <<pos, saved, nv, pc>>
    BY <1>6 DEF Preset, TypeOK
  <2> QED
    BY <2>1 DEF CopyInv, Changes, Live, Up, Held, Left, Kept, RoomLeft
<1>7. CASE EraseImage \/ OtaResume
  BY <1>7, UpdateRefines
<1>8. CASE OtaAddress
  BY <1>8 DEF OtaAddress, StoreInv
<1>9. CASE OtaFails
  BY <1>1, <1>9 DEF OtaFails, UpdateFails, StoreInv
<1>10. CASE OtaDone \/ Restart
  <2>1. UNCHANGED <<mem, pos, saved, nv>> /\ pc = "run" /\ pc' \in {"run", "off"}
    BY <1>10 DEF OtaDone, Restart
  <2> QED
    BY <2>1 DEF CopyInv, Same, Stops, Live, Up, Held, Left
<1>11. CASE FactoryReset \/ PowerCut
  BY <1>0, <1>11 DEF FactoryReset, PowerCut, Calm
<1> QED
  BY <1>2, <1>3, <1>4, <1>5, <1>6, <1>7, <1>8, <1>9, <1>10, <1>11 DEF Next

LEMMA RefineAlways ==
  ASSUME UpdatesOnly
  PROVE  Spec => []RefineInv
<1>1. Init => CopyInv
  BY InitRefines
<1>2. TypeOK /\ StoreInv /\ CopyInv /\ [Next]_vars => CopyInv'
  BY StepRefines DEF RefineInv, vars, CopyInv
<1>3. Spec => []StoreInv
  BY StoreInvariant DEF UpdatesOnly
<1> QED
  BY <1>1, <1>2, <1>3, TypeCorrect, PTL DEF Spec, RefineInv

\* The store keeps readings as DurableReading says: every save is kept until
\* the log is exactly full, an update shelves the reading, and a start or a
\* failed update adopts the one that was kept.
THEOREM StoreImplementsDurableReading ==
  ASSUME UpdatesOnly
  PROVE  Spec => ImplementsDurableReading
<1>1. Init => Durable!InitD
  <2> SUFFICES ASSUME Init PROVE Durable!InitD
    OBVIOUS
  <2>1. Outcome(log, nv) = "default"
    BY DEF Init, Invalid, Outcome
  <2>2. KeptReading = Zero
    BY <2>1 DEF Init, KeptReading, Recovered
  <2>3. mem.val = Zero /\ ~mem.newOta /\ Last - pos = Last /\ pc = "off"
    BY LastFacts DEF Init, Default
  <2> QED
    BY <2>2, <2>3 DEF Durable!InitD
<1>2. RefineInv => KeptReading = Held
  BY KeptIs DEF UpdatesOnly, Held
<1>3. RefineInv' => (KeptReading = Held)'
  BY <1>2, PTL
<1>4. RefineInv /\ RefineInv' /\ [Next]_vars => [Durable!NextD]_(Durable!varsD)
  <2> SUFFICES ASSUME RefineInv, RefineInv', [Next]_vars
               PROVE  [Durable!NextD]_(Durable!varsD)
    OBVIOUS
  <2>1. KeptReading = Held /\ KeptReading' = Held'
    BY <1>2, <1>3
  <2>2. CASE UNCHANGED vars
    <3>1. Held' = Held
      BY <2>2 DEF vars, Held, Kept
    <3> QED
      BY <2>1, <2>2, <3>1 DEF vars, Durable!varsD
  <2>3. CASE Next
    <3>1. Same \/ Changes \/ Keeps \/ Shelves \/ Stops \/ Adopts
      BY <2>3, StepRefines
    <3>2. Same => UNCHANGED Durable!varsD
      BY <2>1 DEF Same, Durable!varsD, Live, Left, RoomLeft, Up
    <3>3. Changes => \E v \in Reading : Durable!Change(v)
      BY <2>1 DEF Changes, Durable!Change, Live, Left, RoomLeft, Up
    <3>4. Keeps => \E v \in Reading : Durable!Keep(v)
      BY <2>1 DEF Keeps, Durable!Keep, Live, Left, RoomLeft, Up
    <3>5. Shelves => \E v \in Reading : Durable!Shelve(v)
      BY <2>1 DEF Shelves, Durable!Shelve, Live, Left, RoomLeft, Up
    <3>6. Stops => Durable!Stop
      BY <2>1 DEF Stops, Durable!Stop, Live, Left, RoomLeft, Up
    <3>7. Adopts => Durable!Adopt
      BY <2>1 DEF Adopts, Durable!Adopt, Live, Left, RoomLeft, Up
    <3> QED
      BY <3>1, <3>2, <3>3, <3>4, <3>5, <3>6, <3>7, Zenon DEF Durable!NextD
  <2> QED
    BY <2>2, <2>3
<1> QED
  BY <1>1, <1>4, RefineAlways, PTL DEF Spec, ImplementsDurableReading, Durable!SpecD
=============================================================================
