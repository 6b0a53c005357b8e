-------------------------- MODULE ConfigStoreProofs --------------------------
(***************************************************************************)
(* Theorems about ConfigStore, for every size of the log, every layout of  *)
(* its sectors and every set of readings.                                  *)
(***************************************************************************)
EXTENDS ConfigStore, WellFoundedInduction, TLAPS

\* A non-empty set of natural numbers has a least element.
LEMMA LeastNumber ==
  ASSUME NEW T \in SUBSET Nat, T # {}
  PROVE  \E x \in T : \A y \in T : x <= y
<1> DEFINE R == {ss \in Nat \X Nat : ss[1] < ss[2]}
<1>1. IsWellFoundedOn(OpToRel(<, Nat), Nat)
  BY NatLessThanWellFounded
<1>2. OpToRel(<, Nat) = R
  BY DEF OpToRel
<1>3. IsWellFoundedOn(R, Nat)
  BY <1>1, <1>2
<1>4. \E x \in T : \A y \in T : ~ (<<y, x>> \in R)
  <2> HIDE DEF R
  <2> QED BY <1>3, WFMin
<1>5. ASSUME NEW x \in T, NEW y \in T, ~ (<<y, x>> \in R)
      PROVE  x <= y
  BY <1>5
<1> QED
  BY <1>4, <1>5

(***************************************************************************)
(* The scan of init_config.                                                *)
(***************************************************************************)
\* The page the scan of init_config stops at exists, is reached over records
\* that continue each other, and is not continued by the next page.
LEMMA ScanStops ==
  ASSUME NEW l
  PROVE  /\ ScanEnd(l) \in Page
         /\ \A p \in 1 .. ScanEnd(l) : Continues(l, p)
         /\ ScanEnd(l) = Last \/ ~Continues(l, ScanEnd(l) + 1)
<1> DEFINE Stop(k) == k = Last \/ ~Continues(l, k + 1)
           T == {k \in Page : Stop(k)}
<1>1. T \in SUBSET Nat /\ Last \in T
  BY ConfigStoreAssumption DEF Page, Last
<1>2. PICK k \in T : \A y \in T : k <= y
  BY <1>1, LeastNumber
<1>3. k \in Page /\ Stop(k)
  BY <1>2
<1>4. ASSUME NEW p \in 1 .. k
      PROVE  Continues(l, p)
  <2>1. p - 1 \in Page /\ ~(k <= p - 1) /\ (p - 1) + 1 = p
    BY <1>3, ConfigStoreAssumption DEF Page
  <2>2. p - 1 \notin T
    BY <1>2, <2>1
  <2>3. ~Stop(p - 1)
    BY <2>1, <2>2
  <2> QED
    BY <2>1, <2>3
<1>5. \E j \in Page : /\ \A p \in 1 .. j : Continues(l, p)
                      /\ j = Last \/ ~Continues(l, j + 1)
  BY <1>3, <1>4
<1> HIDE DEF T, Stop
<1> QED
  BY <1>5, Zenon DEF ScanEnd

\* The scan stops at k as soon as the pages up to k continue each other and
\* the one after k does not.
LEMMA ScanStopsAt ==
  ASSUME NEW l, NEW k \in Page,
         \A p \in 1 .. k : Continues(l, p),
         k = Last \/ ~Continues(l, k + 1)
  PROVE  ScanEnd(l) = k
<1> DEFINE e == ScanEnd(l)
<1>1. /\ e \in Page
      /\ \A p \in 1 .. e : Continues(l, p)
      /\ e = Last \/ ~Continues(l, e + 1)
  BY ScanStops
<1> HIDE DEF e
<1>2. ~(e < k)
  BY <1>1, ConfigStoreAssumption DEF Page, Last
<1>3. ~(k < e)
  BY <1>1, ConfigStoreAssumption DEF Page, Last
<1>4. e = k
  BY <1>1, <1>2, <1>3, ConfigStoreAssumption DEF Page
<1> QED
  BY <1>4 DEF e

(***************************************************************************)
(* Types.                                                                  *)
(***************************************************************************)
LEMMA CellTypes ==
  /\ Blank \in CellType /\ Junk \in CellType /\ Img \in CellType
  /\ \A t \in 0 .. TopMask : Torn(t) \in CellType
  /\ \A t \in 0 .. TopMask, v \in Reading \cup {Garbage} : Cell("rec", t, v) \in CellType
BY ConfigStoreAssumption DEF Blank, Junk, Img, Torn, Cell, CellType

LEMMA ProgramType ==
  ASSUME NEW old \in CellType, NEW c \in CellType
  PROVE  Program(old, c) \in CellType
<1>1. c.top \in 0 .. TopMask
  BY DEF CellType
<1>2. Torn(c.top) \in CellType /\ Junk \in CellType
  BY <1>1, CellTypes
<1> QED
  BY <1>2 DEF Program

LEMMA RecType ==
  ASSUME TypeOK
  PROVE  Rec(mem) \in CellType
BY CellTypes DEF TypeOK, Rec

LEMMA EraseType ==
  ASSUME NEW l \in [Page -> CellType], NEW P
  PROVE  Erase(l, P) \in [Page -> CellType]
BY CellTypes DEF Erase

\* What a page holds after sectors were erased and power may have failed.
LEMMA CutErasesPage ==
  ASSUME NEW P, NEW l \in CutErases(P), NEW p \in Page
  PROVE  l[p] \in {Blank, Junk, log[p]} /\ (p \notin P => l[p] = log[p])
BY DEF CutErases

LEMMA CutErasesType ==
  ASSUME TypeOK, NEW P, NEW l \in CutErases(P)
  PROVE  l \in [Page -> CellType]
<1>1. \A p \in Page : l[p] \in CellType
  BY CutErasesPage, CellTypes DEF TypeOK
<1>2. l = [p \in Page |-> l[p]]
  BY DEF CutErases
<1> QED
  BY <1>1, <1>2

LEMMA InitConfigType ==
  ASSUME TypeOK, NEW l \in [Page -> CellType], InitConfig(l)
  PROVE  /\ mem' \in [top : 0 .. TopMask, val : Reading \cup {Garbage}, newOta : BOOLEAN]
         /\ pos' \in Page /\ fresh' \in BOOLEAN
         /\ pc' \in {"run", "clear", "nv"}
         /\ saved' \in Reading \cup {Garbage}
<1>1. 0 \in Page /\ 0 \in 0 .. TopMask /\ Zero \in Reading
  BY ConfigStoreAssumption DEF Page
<1>2. ScanEnd(l) \in Page
  BY ScanStops
<1>3. l[ScanEnd(l)].top \in 0 .. TopMask /\ l[ScanEnd(l)].val \in Reading \cup {Garbage}
  BY <1>2 DEF CellType
<1>4. saved' = mem'.val
  BY DEF InitConfig
<1>5. CASE Outcome(l, nv) = "default" /\ mem' = Default /\ pos' = 0 /\ fresh' = TRUE /\ pc' = "clear"
  BY <1>1, <1>4, <1>5 DEF Default
<1>6. CASE /\ mem' = [top |-> nv.top, val |-> nv.val, newOta |-> FALSE]
           /\ pos' = 0 /\ fresh' = TRUE /\ pc' = "nv"
  BY <1>1, <1>4, <1>6 DEF TypeOK
<1>7. CASE /\ mem' = [top |-> l[ScanEnd(l)].top, val |-> l[ScanEnd(l)].val, newOta |-> FALSE]
           /\ pos' = ScanEnd(l) /\ fresh' = FALSE /\ pc' = "run"
  BY <1>2, <1>3, <1>4, <1>7
<1> QED
  BY <1>5, <1>6, <1>7 DEF InitConfig

LEMMA UpdateFailsType ==
  ASSUME TypeOK, NEW l \in [Page -> CellType], UpdateFails(l),
         log' \in [Page -> CellType], UNCHANGED nv
  PROVE  TypeOK'
<1>1. 0 \in 0 .. NImage
  BY ConfigStoreAssumption
<1>2. CASE mem.newOta
  BY <1>1, <1>2, InitConfigType DEF UpdateFails, TypeOK
<1>3. CASE ~mem.newOta
  BY <1>1, <1>3 DEF UpdateFails, TypeOK
<1> QED
  BY <1>2, <1>3

LEMMA UpdateStartsType ==
  ASSUME TypeOK, NEW l \in [Page -> CellType], NEW o \in 0 .. NImage,
         UpdateStarts(l, o), log' \in [Page -> CellType], UNCHANGED nv
  PROVE  TypeOK'
<1>1. CASE UpdateFails(l)
  BY <1>1, UpdateFailsType
<1>2. CASE /\ mem' = [mem EXCEPT !.newOta = TRUE]
           /\ saved' = mem.val /\ pc' = "nv"
           /\ ota' = "load" /\ off' = o
           /\ UNCHANGED <<pos, fresh>>
  BY <1>2 DEF TypeOK
<1> QED
  BY <1>1, <1>2 DEF UpdateStarts

\* Whatever fails, the store's variables keep their types: in particular the
\* scan of init_config always ends inside the log.
THEOREM TypeCorrect == Spec => []TypeOK
<1>1. ASSUME Init PROVE TypeOK
  <2>1. 0 \in 0 .. TopMask /\ 0 \in Page /\ 0 \in 0 .. NImage /\ Zero \in Reading
    BY ConfigStoreAssumption DEF Page
  <2>2. log \in [Page -> CellType]
    BY <1>1, CellTypes DEF Init
  <2>3. nv \in [valid : BOOLEAN, top : 0 .. TopMask,
                val : Reading \cup {Garbage}, newOta : BOOLEAN]
    BY <1>1, <2>1 DEF Init, Invalid
  <2>4. mem \in [top : 0 .. TopMask, val : Reading \cup {Garbage}, newOta : BOOLEAN]
    BY <1>1, <2>1 DEF Init, Default
  <2> QED
    BY <1>1, <2>1, <2>2, <2>3, <2>4 DEF Init, TypeOK
<1>2. TypeOK /\ [Next]_vars => TypeOK'
  <2> SUFFICES ASSUME TypeOK, [Next]_vars PROVE TypeOK'
    OBVIOUS
  <2>1. CASE Boot
    BY <2>1, InitConfigType DEF Boot, TypeOK
  <2>2. CASE ClearLog
    <3>1. Erase(log, Page) \in [Page -> CellType]
      BY EraseType DEF TypeOK
    <3> QED
      BY <2>2, <3>1 DEF ClearLog, TypeOK
  <2>3. CASE WriteNv
    <3>1. nv' \in [valid : BOOLEAN, top : 0 .. TopMask,
                   val : Reading \cup {Garbage}, newOta : BOOLEAN]
      <4>1. mem.top \in 0 .. TopMask /\ mem.val \in Reading \cup {Garbage}
            /\ mem.newOta \in BOOLEAN
        BY DEF TypeOK
      <4>2. CASE nv' = [valid |-> TRUE, top |-> mem.top, val |-> mem.val,
                        newOta |-> mem.newOta]
        BY <4>1, <4>2
      <4>3. CASE UNCHANGED nv
        BY <4>3 DEF TypeOK
      <4> QED
        BY <2>3, <4>2, <4>3 DEF WriteNv
    <3>2. pc' \in {"erase", "run"}
      BY <2>3 DEF WriteNv
    <3> QED
      BY <2>3, <3>1, <3>2 DEF WriteNv, TypeOK
  <2>4. CASE EraseSector
    BY <2>4, EraseType DEF EraseSector, TypeOK
  <2>5. CASE WritePage
    <3>1. Program(log[pos], Rec(mem)) \in CellType
      BY RecType, ProgramType DEF TypeOK
    <3> QED
      BY <2>5, <3>1 DEF WritePage, TypeOK
  <2>6. ASSUME NEW v \in Reading, Save(v)
        PROVE  TypeOK'
    <3>1. NextTop(mem.top) \in 0 .. TopMask
      BY ConfigStoreAssumption DEF NextTop, TypeOK
    <3>2. (IF pos = Last THEN 0 ELSE pos + 1) \in Page
      BY ConfigStoreAssumption DEF Page, Last, TypeOK
    <3>3. CASE mem.newOta
      BY <2>6, <3>3 DEF Save, TypeOK
    <3>4. CASE ~mem.newOta
      BY <2>6, <3>1, <3>2, <3>4 DEF Save, TypeOK
    <3> QED
      BY <3>3, <3>4
  <2>7. ASSUME NEW v \in Reading, Preset(v)
        PROVE  TypeOK'
    BY <2>7 DEF Preset, TypeOK
  <2>8. CASE EraseImage
    <3>1. PICK P \in ImageErasures : log' = Erase(log, P)
      BY <2>8 DEF EraseImage
    <3>2. log' \in [Page -> CellType] /\ UNCHANGED nv /\ 0 \in 0 .. NImage
      BY <2>8, <3>1, EraseType, ConfigStoreAssumption DEF EraseImage, TypeOK
    <3>3. CASE UpdateStarts(log', 0)
      <4> DEFINE l == Erase(log, P)
      <4>1. l \in [Page -> CellType] /\ UpdateStarts(l, 0)
        BY <3>1, <3>3, EraseType DEF TypeOK
      <4> HIDE DEF l
      <4> QED
        BY <3>2, <4>1, UpdateStartsType
    <3>4. CASE ota' = "addr" /\ off' = 0 /\ pc' = "run" /\ UNCHANGED <<mem, pos, fresh, saved>>
      BY <3>2, <3>4 DEF TypeOK
    <3> QED
      BY <2>8, <3>3, <3>4 DEF EraseImage
  <2>9. CASE OtaAddress
    <3>1. log \in [Page -> CellType] /\ log' \in [Page -> CellType] /\ UNCHANGED nv
          /\ 0 \in 0 .. NImage
      BY <2>9, ConfigStoreAssumption DEF OtaAddress, TypeOK
    <3> QED
      BY <2>9, <3>1, UpdateStartsType, UpdateFailsType DEF OtaAddress
  <2>10. CASE OtaResume
    <3>1. log \in [Page -> CellType] /\ log' \in [Page -> CellType] /\ UNCHANGED nv
          /\ off \in 0 .. NImage
      BY <2>10 DEF OtaResume, TypeOK
    <3> QED
      BY <2>10, <3>1, UpdateStartsType DEF OtaResume
  <2>11. CASE OtaBlock
    <3>1. log' \in [Page -> CellType]
      BY <2>11, CellTypes DEF OtaBlock, TypeOK
    <3>2. off + 1 \in 0 .. NImage
      BY <2>11, ConfigStoreAssumption DEF OtaBlock, TypeOK
    <3> QED
      BY <2>11, <3>1, <3>2 DEF OtaBlock, TypeOK
  <2>12. CASE OtaFails
    <3>1. log \in [Page -> CellType] /\ log' \in [Page -> CellType] /\ UNCHANGED nv
      BY <2>12 DEF OtaFails, TypeOK
    <3> QED
      BY <2>12, <3>1, UpdateFailsType DEF OtaFails
  <2>13. CASE OtaDone
    <3>1. log' \in [Page -> CellType]
      BY <2>13, CellTypes DEF OtaDone, TypeOK
    <3>2. 0 \in 0 .. NImage
      BY ConfigStoreAssumption
    <3> QED
      BY <2>13, <3>1, <3>2 DEF OtaDone, TypeOK
  <2>14. CASE Restart
    <3>1. 0 .. off \subseteq 0 .. NImage
      BY ConfigStoreAssumption DEF TypeOK
    <3> QED
      BY <2>14, <3>1 DEF Restart, TypeOK
  <2>15. CASE FactoryReset
    <3>1. 0 \in 0 .. TopMask /\ 0 \in 0 .. NImage /\ Zero \in Reading
      BY ConfigStoreAssumption
    <3>2. nv' \in [valid : BOOLEAN, top : 0 .. TopMask,
                   val : Reading \cup {Garbage}, newOta : BOOLEAN]
      BY <2>15, <3>1 DEF FactoryReset, Invalid
    <3> QED
      BY <2>15, <3>1, <3>2 DEF FactoryReset, TypeOK
  <2>16. CASE PowerCut
    <3>1. CutOutcomes \subseteq [Page -> CellType]
      <4>1. CASE pc = "clear"
        BY <4>1, CutErasesType DEF CutOutcomes
      <4>2. CASE pc = "nv"
        BY <4>2 DEF CutOutcomes, TypeOK
      <4>3. CASE pc = "erase"
        BY <4>3, CutErasesType DEF CutOutcomes
      <4>4. CASE pc = "write"
        <5>1. \A c \in {Rec(mem), Junk, Torn(mem.top), Torn(TopMask)} : c \in CellType
          BY RecType, CellTypes, ConfigStoreAssumption DEF TypeOK
        <5>2. \A c \in {Rec(mem), Junk, Torn(mem.top), Torn(TopMask)} :
                Program(log[pos], c) \in CellType
          BY <5>1, ProgramType DEF TypeOK
        <5>3. \A x \in CellType : [log EXCEPT ![pos] = x] \in [Page -> CellType]
          BY DEF TypeOK
        <5>4. CutOutcomes = {log} \cup {[log EXCEPT ![pos] = Program(@, c)] :
                               c \in {Rec(mem), Junk, Torn(mem.top), Torn(TopMask)}}
          BY <4>4 DEF CutOutcomes
        <5> QED
          BY <5>2, <5>3, <5>4 DEF TypeOK
      <4>5. CASE pc = "image"
        BY <4>5, CutErasesType DEF CutOutcomes
      <4> QED
        BY <2>16, <4>1, <4>2, <4>3, <4>4, <4>5 DEF PowerCut
    <3>2. 0 .. off \subseteq 0 .. NImage
      BY ConfigStoreAssumption DEF TypeOK
    <3> QED
      BY <2>16, <3>1, <3>2 DEF PowerCut, TypeOK
  <2>17. CASE OtaOffer \/ UNCHANGED vars
    BY <2>17 DEF OtaOffer, vars, TypeOK
  <2> QED
    BY <2>1, <2>2, <2>3, <2>4, <2>5, <2>6, <2>7, <2>8, <2>9, <2>10, <2>11,
       <2>12, <2>13, <2>14, <2>15, <2>16, <2>17 DEF Next
<1> QED
  BY <1>1, <1>2, PTL DEF Spec

(***************************************************************************)
(* The inductive invariant.  Calm: nothing disturbs the flash operations,  *)
(* no update is refused, and the sequence numbers do not wrap.             *)
(***************************************************************************)
Calm == Events \subseteq {"update", "factory"} /\ MaxTop < TopMask

LEMMA SameSectorFacts ==
  /\ \A p : SameSector(p, p)
  /\ \A p, q \in Page : q \in SectorStarts /\ p < q => ~SameSector(p, q)
  /\ \A p, q \in Page : q + 1 \in Page \ SectorStarts
       => (SameSector(p, q + 1) <=> SameSector(p, q))
BY ConfigStoreAssumption DEF SameSector, Page

\* The scan of init_config ends at the page of the last save.
LEMMA ScanFindsLastSave ==
  ASSUME TypeOK, Calm, mem.top <= MaxTop, LogHolds, NoNewerRecord
  PROVE  ScanEnd(log) = pos
<1>1. pos \in Page /\ mem.top \in Nat /\ mem.top < TopMask /\ pos \in Nat
  BY ConfigStoreAssumption DEF TypeOK, Calm, Page
<1>2. \A p \in 0 .. pos : log[p].kind = "rec" /\ log[p].top = mem.top - (pos - p)
  BY <1>1 DEF LogHolds, LeadsTo
<1>3. ASSUME NEW p \in 1 .. pos
      PROVE  Continues(log, p)
  <2>1. p - 1 \in 0 .. pos /\ p \in 0 .. pos
    BY <1>1
  <2>2. log[p].kind = "rec" /\ log[p].top = mem.top - (pos - p)
        /\ log[p - 1].top = mem.top - (pos - (p - 1))
    BY <1>2, <2>1
  <2>3. log[p].top = log[p - 1].top + 1 /\ log[p - 1].top # TopMask
    BY <1>1, <2>2, ConfigStoreAssumption
  <2> QED
    BY <2>2, <2>3 DEF Continues, NextTop
<1>4. ASSUME pos # Last, Continues(log, pos + 1)
      PROVE  FALSE
  <2>1. pos + 1 \in Page
    BY <1>1, <1>4, ConfigStoreAssumption DEF Page, Last
  <2>2. (pos + 1) - 1 = pos
    BY <1>1
  <2>3. log[pos + 1].kind = "rec" /\ log[pos + 1].top = NextTop(log[pos].top)
    BY <1>4, <2>2 DEF Continues
  <2>4. log[pos + 1].top = mem.top + 1
    BY <1>1, <2>3, ConfigStoreAssumption DEF LogHolds, NextTop
  <2>5. log[pos + 1].top <= mem.top
    BY <2>1, <2>3 DEF NoNewerRecord
  <2> QED
    BY <1>1, <2>4, <2>5
<1> QED
  BY <1>1, <1>3, <1>4, ScanStopsAt

\* A start, or a failed update, adopts the reading StoreInv says is kept.
LEMMA InitConfigKeepsInv ==
  ASSUME TypeOK, Calm, StoreInv, InitConfig(log),
         pc = "off" \/ (pc = "run" /\ mem.newOta),
         UNCHANGED <<log, nv>>, ota' = "idle"
  PROVE  StoreInv'
<1>1. CASE Outcome(log, nv) = "default" /\ mem' = Default /\ pos' = 0 /\ fresh' = TRUE /\ pc' = "clear"
  BY <1>1, ConfigStoreAssumption DEF StoreInv, InitConfig, Default
<1>2. CASE /\ Outcome(log, nv) = "handover"
           /\ mem' = [top |-> nv.top, val |-> nv.val, newOta |-> FALSE]
           /\ pos' = 0 /\ fresh' = TRUE /\ pc' = "nv"
  <2>1. nv.valid /\ nv.newOta
    BY <1>2 DEF Outcome
  <2>2. mem.newOta /\ nv.top = mem.top
    BY <2>1 DEF StoreInv, NvHolds, NvOld
  <2>3. mem'.top = mem.top /\ NoNewerRecord
    BY <1>2, <2>2 DEF StoreInv
  <2>4. NoNewerRecord'
    BY <2>3 DEF NoNewerRecord
  <2> QED
    BY <1>2, <2>3, <2>4 DEF StoreInv, InitConfig
<1>3. CASE /\ Outcome(log, nv) = "resume"
           /\ mem' = [top |-> log[ScanEnd(log)].top, val |-> log[ScanEnd(log)].val,
                      newOta |-> FALSE]
           /\ pos' = ScanEnd(log) /\ fresh' = FALSE /\ pc' = "run"
  <2>1. nv.valid /\ ~nv.newOta
    BY <1>3 DEF Outcome
  <2>2. pc = "off" /\ ~mem.newOta
    BY <2>1 DEF StoreInv, NvHolds
  <2>3. LogHolds /\ NvOld /\ NoNewerRecord /\ mem.top <= MaxTop
    BY <2>1, <2>2 DEF StoreInv
  <2>4. ScanEnd(log) = pos
    BY <2>3, ScanFindsLastSave
  <2>5. mem'.top = mem.top /\ saved' = saved /\ pos' = pos /\ ~mem'.newOta
    BY <1>3, <2>3, <2>4 DEF LogHolds, InitConfig
  <2>6. LogHolds' /\ NvOld' /\ NoNewerRecord'
    BY <2>3, <2>5 DEF LogHolds, LeadsTo, BlankFrom, NvOld, NoNewerRecord
  <2> QED
    BY <1>3, <2>3, <2>5, <2>6 DEF StoreInv
<1> QED
  BY <1>1, <1>2, <1>3 DEF InitConfig

\* Every step keeps StoreInv.
LEMMA StepKeepsInv ==
  ASSUME TypeOK, Calm, StoreInv, Next
  PROVE  StoreInv'
<1>1. CASE Boot
  BY <1>1, InitConfigKeepsInv DEF Boot, StoreInv
<1>2. CASE ClearLog
  <2>1. NoNewerRecord'
    BY <1>2 DEF ClearLog, NoNewerRecord, Erase, Blank, Cell
  <2> QED
    BY <1>2, <2>1 DEF ClearLog, StoreInv
<1>3. CASE WriteNv
  <2>1. /\ nv' = [valid |-> TRUE, top |-> mem.top, val |-> mem.val,
                  newOta |-> mem.newOta]
        /\ pc' = IF fresh THEN "erase" ELSE "run"
        /\ pc = "nv" /\ UNCHANGED <<log, mem, pos, fresh, ota, off, saved>>
    BY <1>3 DEF WriteNv, Skippable, Calm
  <2>2. saved = mem.val /\ NoNewerRecord /\ mem.top <= MaxTop
    BY <2>1 DEF StoreInv
  <2>3. NoNewerRecord'
    BY <2>1, <2>2 DEF NoNewerRecord
  <2>4. CASE fresh
    <3>1. pos = 0 /\ ~mem.newOta
      BY <2>1, <2>4 DEF StoreInv
    <3>2. NvOld' /\ LeadsTo(pos)' /\ pos' \in SectorStarts
      BY <2>1, <3>1, ConfigStoreAssumption DEF NvOld, LeadsTo
    <3> QED
      BY <2>1, <2>2, <2>3, <2>4, <3>1, <3>2 DEF StoreInv
  <2>5. CASE ~fresh
    <3>1. mem.newOta
      BY <2>1, <2>5 DEF StoreInv
    <3>2. NvHolds'
      BY <2>1, <2>2, <3>1 DEF NvHolds
    <3> QED
      BY <2>1, <2>2, <2>3, <2>5, <3>1, <3>2 DEF StoreInv
  <2> QED
    BY <2>4, <2>5
<1>4. CASE EraseSector
  <2>1. /\ log' = Erase(log, {p \in Page : SameSector(p, pos)})
        /\ pc = "erase" /\ pc' = "write"
        /\ UNCHANGED <<nv, mem, pos, fresh, ota, off, saved>>
    BY <1>4 DEF EraseSector, Skippable, Calm
  <2>2. pos \in SectorStarts /\ LeadsTo(pos) /\ NvOld /\ NoNewerRecord /\ ~mem.newOta
    BY <2>1 DEF StoreInv
  <2>3. pos \in Page /\ \A p \in 0 .. pos - 1 : p \in Page /\ p < pos
    BY ConfigStoreAssumption DEF TypeOK, Page
  <2>4. \A p \in 0 .. pos - 1 : log'[p] = log[p]
    BY <2>1, <2>2, <2>3, SameSectorFacts DEF Erase
  <2>5. LeadsTo(pos)'
    BY <2>1, <2>2, <2>4 DEF LeadsTo
  <2>6. BlankFrom(pos)'
    BY <2>1 DEF BlankFrom, Erase, Blank, Cell
  <2>7. NoNewerRecord'
    BY <2>1, <2>2 DEF NoNewerRecord, Erase, Blank, Cell
  <2>8. NvOld'
    BY <2>1, <2>2 DEF NvOld
  <2> QED
    BY <2>1, <2>2, <2>5, <2>6, <2>7, <2>8 DEF StoreInv
<1>5. CASE WritePage
  <2>1. /\ log' = [log EXCEPT ![pos] = Program(@, Rec(mem))]
        /\ pc = "write" /\ pc' = "run" /\ fresh' = FALSE
        /\ UNCHANGED <<nv, mem, pos, ota, off, saved>>
    BY <1>5 DEF WritePage, Skippable, Calm
  <2>2. LeadsTo(pos) /\ BlankFrom(pos) /\ NvOld /\ NoNewerRecord /\ ~mem.newOta
        /\ saved = mem.val
    BY <2>1 DEF StoreInv
  <2>3. pos \in Page /\ pos \in Nat /\ mem.top \in Nat
        /\ log \in [Page -> CellType]
        /\ \A p \in 0 .. pos - 1 : p \in Page /\ p # pos
    BY ConfigStoreAssumption DEF TypeOK, Page
  <2>4. log[pos].kind = "blank"
    BY <2>2, <2>3, SameSectorFacts DEF BlankFrom
  <2>5. log' = [log EXCEPT ![pos] = Rec(mem)]
    <3>1. Program(log[pos], Rec(mem)) = Rec(mem)
      BY <2>4 DEF Program, HasId
    <3> QED
      BY <2>1, <3>1
  <2>6. log'[pos] = [kind |-> "rec", top |-> mem.top, val |-> saved]
        /\ \A p \in Page : p # pos => log'[p] = log[p]
    BY <2>2, <2>3, <2>5 DEF Rec, Cell
  <2>7. LeadsTo(pos)'
    BY <2>1, <2>2, <2>3, <2>6 DEF LeadsTo
  <2>8. BlankFrom(pos + 1)'
    BY <2>1, <2>2, <2>3, <2>6 DEF BlankFrom, Page
  <2>9. LogHolds' /\ NvOld'
    BY <2>1, <2>2, <2>6, <2>7, <2>8 DEF LogHolds, NvOld
  <2>10. NoNewerRecord'
    BY <2>1, <2>2, <2>3, <2>6 DEF NoNewerRecord
  <2> QED
    BY <2>1, <2>2, <2>9, <2>10 DEF StoreInv
<1>6. ASSUME NEW v \in Reading, Save(v)
      PROVE  StoreInv'
  <2>1. /\ pc = "run" /\ mem.top # MaxTop /\ saved' = v /\ ~fresh
        /\ UNCHANGED <<log, nv, fresh, ota, off>>
        /\ NoNewerRecord /\ mem.top <= MaxTop
        /\ mem.top \in Nat /\ pos \in Page /\ MaxTop \in Nat
    BY <1>6, ConfigStoreAssumption DEF Save, StoreInv, TypeOK
  <2>2. CASE mem.newOta
    <3>1. /\ mem'.top = mem.top /\ mem'.val = v /\ mem'.newOta
          /\ pc' = "nv" /\ pos' = pos
      BY <1>6, <2>2 DEF Save, TypeOK
    <3>2. NoNewerRecord'
      BY <2>1, <3>1 DEF NoNewerRecord
    <3> QED
      BY <2>1, <2>2, <3>1, <3>2 DEF StoreInv
  <2>3. CASE ~mem.newOta
    <3>1. NextTop(mem.top) = mem.top + 1
      BY <2>1, ConfigStoreAssumption DEF NextTop, Calm
    <3>2. /\ mem'.top = mem.top + 1 /\ mem'.val = v /\ ~mem'.newOta
          /\ pos' = IF pos = Last THEN 0 ELSE pos + 1
          /\ pc' = IF pos' \in SectorStarts THEN "erase" ELSE "write"
      BY <1>6, <2>3, <3>1 DEF Save, TypeOK
    <3>3. LogHolds /\ NvOld
      BY <2>1, <2>3 DEF StoreInv
    <3>4. NoNewerRecord' /\ mem'.top <= MaxTop /\ NvOld' /\ ota # "load"
      <4>1. mem'.top <= MaxTop /\ ota # "load"
        BY <2>1, <2>3, <3>2 DEF StoreInv
      <4>2. NvOld'
        BY <2>1, <3>3 DEF NvOld
      <4>3. ASSUME NEW p \in Page, log'[p].kind = "rec"
            PROVE  log'[p].top <= mem'.top
        BY <2>1, <3>2, <4>3 DEF NoNewerRecord, TypeOK, CellType
      <4> QED
        BY <4>1, <4>2, <4>3 DEF NoNewerRecord
    <3>5. CASE pos = Last
      <4>1. pos' = 0 /\ pos' \in SectorStarts /\ pc' = "erase"
        BY <3>2, <3>5, ConfigStoreAssumption
      <4>2. LeadsTo(pos)'
        BY <4>1 DEF LeadsTo
      <4> QED
        BY <2>1, <3>2, <3>4, <4>1, <4>2 DEF StoreInv
    <3>6. CASE pos # Last
      <4>1. pos' = pos + 1 /\ pos' \in Page /\ pos \in Nat
        BY <2>1, <3>2, <3>6, ConfigStoreAssumption DEF Page, Last
      <4>2. LeadsTo(pos)'
        <5>1. ASSUME NEW p \in 0 .. pos' - 1
              PROVE  log'[p].kind = "rec" /\ log'[p].top = mem'.top - (pos' - p)
          BY <2>1, <3>2, <3>3, <4>1 DEF LogHolds, LeadsTo
        <5> QED
          BY <5>1 DEF LeadsTo
      <4>3. pos' \notin SectorStarts => BlankFrom(pos)'
        BY <2>1, <3>3, <4>1, SameSectorFacts DEF LogHolds, BlankFrom
      <4> QED
        BY <2>1, <3>2, <3>4, <4>2, <4>3 DEF StoreInv
    <3> QED
      BY <3>5, <3>6
  <2> QED
    BY <2>2, <2>3
<1>7. ASSUME NEW v \in Reading, Preset(v)
      PROVE  StoreInv'
  <2>1. /\ pc = "run" /\ pc' = "run"
        /\ mem'.top = mem.top /\ mem'.newOta = mem.newOta
        /\ UNCHANGED <<log, nv, pos, fresh, ota, off, saved>>
    BY <1>7 DEF Preset, TypeOK
  <2>2. LogHolds' <=> LogHolds
    BY <2>1 DEF LogHolds, LeadsTo, BlankFrom
  <2>3. (NvHolds' <=> NvHolds) /\ (NvOld' <=> NvOld) /\ (NoNewerRecord' <=> NoNewerRecord)
    BY <2>1 DEF NvHolds, NvOld, NoNewerRecord
  <2> QED
    BY <2>1, <2>2, <2>3 DEF StoreInv
<1>8. ASSUME pc \in {"run", "image"}, mem' = [mem EXCEPT !.newOta = TRUE], saved' = mem.val,
             pc' = "nv", ota' = "load", UNCHANGED <<pos, fresh>>, NoNewerRecord'
      PROVE  StoreInv'
  <2>1. mem'.newOta /\ mem'.top = mem.top /\ mem'.val = mem.val
    BY <1>8 DEF TypeOK
  <2> QED
    BY <1>8, <2>1 DEF StoreInv
<1>9. ASSUME NEW l, NEW o, UpdateStarts(l, o)
      PROVE  /\ mem' = [mem EXCEPT !.newOta = TRUE]
             /\ saved' = mem.val /\ pc' = "nv" /\ ota' = "load"
             /\ UNCHANGED <<pos, fresh>>
  BY <1>9 DEF UpdateStarts, Calm
<1>10. CASE EraseImage
  <2>1. (\E P : log' = Erase(log, P)) /\ pc = "image" /\ \E l : UpdateStarts(l, 0)
    BY <1>10 DEF EraseImage, Calm
  <2>2. mem'.top = mem.top /\ NoNewerRecord
    BY <2>1, <1>9 DEF StoreInv, TypeOK
  <2>3. NoNewerRecord'
    BY <2>1, <2>2 DEF NoNewerRecord, Erase, Blank, Cell
  <2> QED
    BY <2>1, <2>3, <1>8, <1>9
<1>11. CASE OtaAddress
  BY <1>11 DEF OtaAddress, StoreInv
<1>12. CASE OtaResume
  <2>1. pc = "run" /\ UNCHANGED log /\ UpdateStarts(log, off)
    BY <1>12 DEF OtaResume
  <2>2. NoNewerRecord'
    BY <2>1, <1>9 DEF NoNewerRecord, StoreInv, TypeOK
  <2> QED
    BY <2>1, <2>2, <1>8, <1>9
<1>13. CASE OtaBlock
  <2>1. /\ pc = "run" /\ ota = "load" /\ mem.newOta /\ NvHolds /\ NoNewerRecord
        /\ UNCHANGED <<nv, mem, pos, fresh, pc, ota, saved>>
    BY <1>13 DEF OtaBlock, StoreInv
  <2>2. NvHolds' /\ mem'.newOta
    BY <2>1 DEF NvHolds
  <2>3. \A p \in Page : log'[p].kind = "rec" => log'[p] = log[p]
    BY <1>13 DEF OtaBlock, TypeOK, Img, Junk, Cell
  <2>4. NoNewerRecord'
    BY <2>1, <2>3 DEF NoNewerRecord
  <2> QED
    BY <2>1, <2>2, <2>4 DEF StoreInv
<1>14. CASE OtaFails
  <2>1. /\ pc = "run" /\ mem.newOta /\ InitConfig(log) /\ ota' = "idle"
        /\ UNCHANGED <<log, nv>>
    BY <1>14 DEF OtaFails, UpdateFails, StoreInv
  <2> QED
    BY <2>1, InitConfigKeepsInv
<1>15. CASE OtaDone
  <2>1. /\ pc = "run" /\ mem.newOta /\ NvHolds /\ NoNewerRecord /\ ~fresh
        /\ UNCHANGED <<nv, mem, pos, fresh, saved>> /\ ota' = "idle"
    BY <1>15 DEF OtaDone, StoreInv
  <2>2. \/ pc' = "off" /\ log' = [p \in Page |-> Img]
        \/ UNCHANGED <<pc, log>>
    BY <1>15 DEF OtaDone
  <2>3. NvHolds' /\ mem'.newOta
    BY <2>1 DEF NvHolds
  <2>4. NoNewerRecord'
    BY <2>1, <2>2 DEF NoNewerRecord, Img, Cell
  <2>5. pc' \in {"run", "off"}
    BY <2>1, <2>2
  <2> QED
    BY <2>1, <2>3, <2>4, <2>5 DEF StoreInv
<1>16. CASE Restart
  <2>1. /\ pc = "run" /\ pc' = "off" /\ fresh' = FALSE /\ ota' = "idle"
        /\ UNCHANGED <<log, nv, mem, pos, saved>>
    BY <1>16 DEF Restart
  <2>2. (LogHolds' <=> LogHolds) /\ (NoNewerRecord' <=> NoNewerRecord)
        /\ (NvHolds' <=> NvHolds) /\ (NvOld' <=> NvOld)
    BY <2>1 DEF LogHolds, LeadsTo, BlankFrom, NoNewerRecord, NvHolds, NvOld
  <2> QED
    BY <2>1, <2>2 DEF StoreInv
<1>17. CASE FactoryReset
  <2>1. /\ pc = "run" /\ ~nv'.valid /\ pc' \in {"run", "off"}
        /\ (pc' = "off" => ota' = "idle") /\ (ota' \in {"idle", ota})
        /\ UNCHANGED <<log, mem, pos, fresh, saved>>
    BY <1>17 DEF FactoryReset, Invalid
  <2>2. (LogHolds' <=> LogHolds) /\ (NoNewerRecord' <=> NoNewerRecord)
    BY <2>1 DEF LogHolds, LeadsTo, BlankFrom, NoNewerRecord
  <2>3. NvHolds' /\ NvOld'
    BY <2>1 DEF NvHolds, NvOld
  <2> QED
    BY <2>1, <2>2, <2>3 DEF StoreInv
<1>18. CASE PowerCut
  BY <1>18 DEF PowerCut, Calm
<1>19. CASE OtaOffer
  <2>1. /\ pc = "run" /\ pc' = "image" /\ ota = "idle"
        /\ UNCHANGED <<log, nv, mem, pos, fresh, ota, saved>>
    BY <1>19 DEF OtaOffer
  <2>2. (LogHolds' <=> LogHolds) /\ (NoNewerRecord' <=> NoNewerRecord)
        /\ (NvHolds' <=> NvHolds) /\ (NvOld' <=> NvOld)
    BY <2>1 DEF LogHolds, LeadsTo, BlankFrom, NoNewerRecord, NvHolds, NvOld
  <2> QED
    BY <2>1, <2>2 DEF StoreInv
<1> QED
  BY <1>1, <1>2, <1>3, <1>4, <1>5, <1>6, <1>7, <1>10, <1>11, <1>12, <1>13,
     <1>14, <1>15, <1>16, <1>17, <1>18, <1>19 DEF Next

LEMMA StutterKeepsInv ==
  ASSUME StoreInv, UNCHANGED vars
  PROVE  StoreInv'
BY DEF vars, StoreInv, LogHolds, LeadsTo, BlankFrom, NoNewerRecord, NvHolds, NvOld

LEMMA InitHoldsInv ==
  ASSUME Init
  PROVE  StoreInv
<1>1. NoNewerRecord
  BY DEF Init, NoNewerRecord, Blank, Cell
<1> QED
  BY <1>1, ConfigStoreAssumption DEF Init, StoreInv, Default, Invalid, NvHolds

\* Updates, factory resets and restarts, in any order and number, keep the
\* store in one of the few shapes StoreInv describes.
THEOREM StoreInvariant == Calm => (Spec => []StoreInv)
<1> SUFFICES ASSUME Calm PROVE Spec => []StoreInv
  OBVIOUS
<1>1. Init => StoreInv
  BY InitHoldsInv
<1>2. TypeOK /\ StoreInv /\ [Next]_vars => StoreInv'
  BY StepKeepsInv, StutterKeepsInv
<1> QED
  BY <1>1, <1>2, TypeCorrect, PTL DEF Spec

\* A start of the firmware comes up with the last saved reading.
THEOREM LastReadingRecovered == Calm => (Spec => []ReadingSurvives)
<1> SUFFICES ASSUME Calm PROVE Spec => []ReadingSurvives
  OBVIOUS
<1>1. ASSUME TypeOK, StoreInv, pc \in {"run", "off"}, nv.valid,
             mem.newOta \/ pos # Last
      PROVE  Recovered(log, nv) = saved
  <2>1. CASE mem.newOta
    <3>1. nv.newOta /\ nv.val = saved
      BY <1>1, <2>1 DEF StoreInv, NvHolds
    <3>2. Outcome(log, nv) = "handover"
      BY <1>1, <3>1 DEF Outcome
    <3> QED
      BY <3>1, <3>2 DEF Recovered
  <2>2. CASE ~mem.newOta
    <3>1. LogHolds /\ NvOld /\ NoNewerRecord /\ mem.top <= MaxTop
      BY <1>1, <2>2 DEF StoreInv
    <3>2. ScanEnd(log) = pos /\ pos # Last
      BY <1>1, <2>2, <3>1, ScanFindsLastSave
    <3>3. log[0].kind = "rec"
      BY <1>1, <3>1, ConfigStoreAssumption DEF LogHolds, LeadsTo, TypeOK, Page
    <3>4. ~nv.newOta
      BY <1>1, <3>1 DEF NvOld
    <3>5. Outcome(log, nv) = "resume"
      BY <1>1, <3>2, <3>3, <3>4 DEF Outcome, HasId
    <3> QED
      BY <3>1, <3>2, <3>5 DEF Recovered, LogHolds
  <2> QED
    BY <2>1, <2>2
<1>2. TypeOK /\ StoreInv => ReadingSurvives
  BY <1>1 DEF ReadingSurvives
<1> QED
  BY <1>2, TypeCorrect, StoreInvariant, PTL

\* No save programs a page that is not erased.
THEOREM OnlyErasedPagesWritten == Calm => (Spec => []WritesOnlyErasedPages)
<1> SUFFICES ASSUME Calm PROVE Spec => []WritesOnlyErasedPages
  OBVIOUS
<1>1. TypeOK /\ StoreInv => WritesOnlyErasedPages
  BY SameSectorFacts, ConfigStoreAssumption
  DEF TypeOK, StoreInv, BlankFrom, WritesOnlyErasedPages, Page
<1> QED
  BY <1>1, TypeCorrect, StoreInvariant, PTL

(***************************************************************************)
(* Downloads, with any faults.                                             *)
(***************************************************************************)
\* A save that is not the first one of a start writes the log only outside of
\* updates.
LoadInv ==
  /\ pc \in {"run", "image", "off"} => ~fresh
  /\ pc \in {"image", "off"} => ota = "idle"
  /\ ota # "idle" => ~fresh
  /\ ota = "load" => mem.newOta
  /\ pc \in {"clear", "erase", "write"} => ~mem.newOta
  /\ (pc = "nv" /\ fresh) => ~mem.newOta
  /\ pc \in {"clear", "nv", "erase", "write"} => saved = mem.val

LEMMA InitConfigLoads ==
  ASSUME TypeOK, NEW l, InitConfig(l), ota' = "idle"
  PROVE  LoadInv'
BY DEF InitConfig, LoadInv, Default

LEMMA UpdateFailsLoads ==
  ASSUME TypeOK, LoadInv, NEW l, UpdateFails(l), pc \in {"run", "image"}
  PROVE  LoadInv'
<1>1. CASE mem.newOta
  BY <1>1, InitConfigLoads DEF UpdateFails
<1>2. CASE ~mem.newOta
  BY <1>2 DEF UpdateFails, LoadInv
<1> QED
  BY <1>1, <1>2

LEMMA UpdateStartsLoads ==
  ASSUME TypeOK, LoadInv, NEW l, NEW o, UpdateStarts(l, o), pc \in {"run", "image"}
  PROVE  LoadInv'
<1>1. CASE UpdateFails(l)
  BY <1>1, UpdateFailsLoads
<1>2. CASE /\ mem' = [mem EXCEPT !.newOta = TRUE] /\ saved' = mem.val
           /\ pc' = "nv" /\ ota' = "load" /\ UNCHANGED <<pos, fresh>>
  <2>1. mem'.newOta /\ mem'.val = mem.val
    BY <1>2 DEF TypeOK
  <2> QED
    BY <1>2, <2>1 DEF LoadInv
<1> QED
  BY <1>1, <1>2 DEF UpdateStarts

LEMMA StepLoads ==
  ASSUME TypeOK, LoadInv, [Next]_vars
  PROVE  LoadInv'
<1>1. CASE Boot
  BY <1>1, InitConfigLoads DEF Boot, LoadInv
<1>2. CASE ClearLog \/ WriteNv \/ EraseSector \/ WritePage
  BY <1>2 DEF ClearLog, WriteNv, EraseSector, WritePage, LoadInv
<1>3. ASSUME NEW v \in Reading, Save(v) PROVE LoadInv'
  <2>1. /\ mem'.newOta = mem.newOta /\ mem'.val = v /\ saved' = v
        /\ pc = "run" /\ UNCHANGED <<fresh, ota>>
        /\ pc' \in {"nv", "erase", "write"} /\ (mem.newOta <=> pc' = "nv")
    BY <1>3 DEF Save, TypeOK
  <2> QED
    BY <2>1 DEF LoadInv
<1>4. ASSUME NEW v \in Reading, Preset(v) PROVE LoadInv'
  <2>1. mem'.newOta = mem.newOta /\ pc = "run" /\ pc' = "run" /\ UNCHANGED <<fresh, ota>>
    BY <1>4 DEF Preset, TypeOK
  <2> QED
    BY <2>1 DEF LoadInv
<1>5. CASE EraseImage
  <2>1. CASE UpdateStarts(log', 0)
    BY <1>5, <2>1, UpdateStartsLoads DEF EraseImage
  <2>2. CASE ~UpdateStarts(log', 0)
    BY <1>5, <2>2 DEF EraseImage, LoadInv
  <2> QED
    BY <2>1, <2>2
<1>6. CASE OtaAddress
  BY <1>6, UpdateStartsLoads, UpdateFailsLoads DEF OtaAddress
<1>7. CASE OtaResume
  BY <1>7, UpdateStartsLoads DEF OtaResume
<1>8. CASE OtaFails
  BY <1>8, UpdateFailsLoads DEF OtaFails
<1>9. CASE \/ OtaOffer \/ OtaBlock \/ OtaDone \/ Restart \/ FactoryReset \/ PowerCut
           \/ UNCHANGED vars
  BY <1>9 DEF OtaOffer, OtaBlock, OtaDone, Restart, FactoryReset, PowerCut, vars, LoadInv
<1> QED
  BY <1>1, <1>2, <1>3, <1>4, <1>5, <1>6, <1>7, <1>8, <1>9 DEF Next

LEMMA LoadsAlways == Spec => []LoadInv
<1>1. Init => LoadInv
  BY DEF Init, LoadInv, Default
<1>2. TypeOK /\ LoadInv /\ [Next]_vars => LoadInv'
  BY StepLoads
<1> QED
  BY <1>1, <1>2, TypeCorrect, PTL DEF Spec

\* Nothing writes to a page that the download has filled, whatever fails and
\* whenever power is cut.
THEOREM DownloadNotDisturbed == Spec => ImageUntouched
<1>1. TypeOK /\ LoadInv /\ [Next]_vars =>
        [ota = "load" /\ ota' = "load" => \A p \in 0 .. off - 1 : log'[p] = log[p]]_vars
  <2> SUFFICES ASSUME TypeOK, LoadInv, Next, ota = "load", ota' = "load",
                      NEW p \in 0 .. off - 1
               PROVE  log'[p] = log[p]
    OBVIOUS
  <2>1. pc \notin {"clear", "image", "erase", "write", "off"}
    BY DEF LoadInv
  <2>2. CASE OtaBlock
    BY <2>2, ConfigStoreAssumption DEF OtaBlock, TypeOK
  <2>3. CASE ~OtaBlock
    BY <2>1, <2>3
    DEF Next, Boot, ClearLog, WriteNv, EraseSector, WritePage, Save, Preset, OtaOffer,
        EraseImage, OtaAddress, OtaResume, OtaFails, OtaDone, Restart, FactoryReset, PowerCut
  <2> QED
    BY <2>2, <2>3
<1> QED
  BY <1>1, TypeCorrect, LoadsAlways, PTL DEF Spec, ImageUntouched

\* During an update a start finds the last saved reading in the NV copy,
\* whatever else happens, as long as the write of the copy is not skipped.
THEOREM CopyKeepsReading ==
  ASSUME "lowflash" \notin Events
  PROVE  Spec => []UpdateKeepsReading
<1> DEFINE Carried ==
             (pc \in {"run", "image"} /\ nv.valid /\ mem.newOta) => nv.newOta /\ nv.val = saved
<1>1. Init => Carried
  BY DEF Init
<1>2. ASSUME TypeOK, LoadInv, Carried, [Next]_vars
      PROVE  Carried'
  <2>1. CASE WriteNv
    BY <1>2, <2>1 DEF WriteNv, Skippable, LoadInv
  <2>2. ASSUME NEW v \in Reading, Preset(v) PROVE Carried'
    BY <1>2, <2>2 DEF Preset, TypeOK
  <2>3. ASSUME NEW v \in Reading, Save(v) PROVE Carried'
    BY <2>3 DEF Save
  <2>4. ASSUME NEW l, InitConfig(l) PROVE Carried'
    BY <2>4 DEF InitConfig, Default
  <2>5. ASSUME NEW l, UpdateFails(l), nv' = nv PROVE Carried'
    BY <1>2, <2>4, <2>5 DEF UpdateFails
  <2>6. ASSUME NEW l, NEW o, UpdateStarts(l, o), nv' = nv PROVE Carried'
    BY <2>5, <2>6 DEF UpdateStarts
  <2>7. CASE Boot
    BY <2>4, <2>7 DEF Boot
  <2>8. CASE OtaAddress \/ OtaResume \/ OtaFails
    BY <1>2, <2>5, <2>6, <2>8 DEF OtaAddress, OtaResume, OtaFails
  <2>9. CASE ClearLog \/ EraseSector \/ WritePage
    BY <1>2, <2>9 DEF ClearLog, EraseSector, WritePage, LoadInv
  <2>10. CASE \/ OtaOffer \/ OtaBlock \/ OtaDone \/ Restart \/ FactoryReset \/ PowerCut
              \/ UNCHANGED vars
    BY <1>2, <2>10 DEF OtaOffer, OtaBlock, OtaDone, Restart, FactoryReset, Invalid, PowerCut, vars
  <2>11. CASE EraseImage
    <3>1. CASE UpdateStarts(log', 0)
      BY <2>6, <2>11, <3>1 DEF EraseImage
    <3>2. CASE ~UpdateStarts(log', 0)
      BY <1>2, <2>11, <3>2 DEF EraseImage
    <3> QED
      BY <3>1, <3>2
  <2> QED
    BY <1>2, <2>1, <2>2, <2>3, <2>7, <2>8, <2>9, <2>10, <2>11 DEF Next
<1>3. Carried => UpdateKeepsReading
  BY DEF UpdateKeepsReading, Recovered, Outcome
<1> HIDE DEF Carried
<1>4. TypeOK /\ LoadInv /\ Carried /\ [Next]_vars => Carried'
  BY <1>2
<1> QED
  BY <1>1, <1>3, <1>4, TypeCorrect, LoadsAlways, PTL DEF Spec

(***************************************************************************)
(* The sequence numbers, whatever fails.  A power cut may leave TopMask in *)
(* a torn record, which the first page of the log is read by all the same: *)
(* apart from it no number exceeds MaxTop, and none starts again from zero *)
(* behind the first page where MaxTop is TopMask.                          *)
(***************************************************************************)
Tops == (0 .. MaxTop) \cup {TopMask}

Numbered ==
  /\ fresh => pos = 0
  /\ pc = "erase" => pos \in SectorStarts
  /\ MaxTop = TopMask =>
       /\ \A p \in Page \ {0} : log[p].kind = "rec" => log[p].top # 0
       /\ (pc \in {"erase", "write"} /\ pos # 0) => mem.top # 0
  /\ MaxTop < TopMask =>
       /\ mem.top \in Tops /\ nv.top \in Tops
       /\ \A p \in Page : log[p].top \in Tops
       /\ (pc \in {"erase", "write"} /\ ~fresh) => mem.top # TopMask

\* What programming one of the contents of a save leaves on its page.
LEMMA ProgramLeaves ==
  ASSUME NEW old, NEW c \in {Rec(mem), Junk, Torn(mem.top), Torn(TopMask)}
  PROVE  \/ Program(old, c) = Rec(mem)
         \/ /\ Program(old, c).kind # "rec"
            /\ Program(old, c).top \in {0, mem.top, TopMask}
<1>1. /\ Rec(mem).top = mem.top /\ Junk.top = 0
      /\ \A t : Torn(t).kind = "torn" /\ Torn(t).top = t
      /\ Junk.kind = "junk"
  BY DEF Rec, Junk, Torn, Cell
<1>2. c.top \in {0, mem.top, TopMask} /\ (c = Rec(mem) \/ c.kind # "rec")
  BY <1>1
<1>3. \/ Program(old, c) = c
      \/ Program(old, c) = Torn(c.top)
      \/ Program(old, c) = Junk
  BY DEF Program
<1> QED
  BY <1>1, <1>2, <1>3

\* What a step may do to a page: only the write of a save puts a record there.
LEMMA StepCells ==
  ASSUME TypeOK, [Next]_vars, NEW p \in Page
  PROVE  \/ log'[p] = log[p]
         \/ log'[p].kind # "rec" /\ log'[p].top \in {0, mem.top, TopMask}
         \/ pc = "write" /\ p = pos /\ log'[p] = Rec(mem)
<1>1. /\ Blank.kind # "rec" /\ Blank.top = 0
      /\ Junk.kind # "rec" /\ Junk.top = 0
      /\ Img.kind # "rec" /\ Img.top = 0
  BY DEF Blank, Junk, Img, Cell
<1>2. ASSUME NEW P, log' = Erase(log, P)
      PROVE  log'[p] = log[p] \/ log'[p] = Blank
  BY <1>2 DEF Erase
<1>3. ASSUME NEW c \in {Rec(mem), Junk, Torn(mem.top), Torn(TopMask)},
             log' = [log EXCEPT ![pos] = Program(@, c)], pc = "write"
      PROVE  \/ log'[p] = log[p]
             \/ log'[p].kind # "rec" /\ log'[p].top \in {0, mem.top, TopMask}
             \/ pc = "write" /\ p = pos /\ log'[p] = Rec(mem)
  <2>1. CASE p # pos
    BY <1>3, <2>1 DEF TypeOK
  <2>2. CASE p = pos
    <3>1. log'[p] = Program(log[pos], c)
      BY <1>3, <2>2 DEF TypeOK
    <3> QED
      BY <1>3, <2>2, <3>1, ProgramLeaves
  <2> QED
    BY <2>1, <2>2
<1>4. CASE ClearLog \/ EraseSector \/ EraseImage
  BY <1>1, <1>2, <1>4 DEF ClearLog, EraseSector, EraseImage
<1>5. CASE WritePage
  BY <1>3, <1>5 DEF WritePage
<1>6. CASE OtaBlock
  BY <1>1, <1>6 DEF OtaBlock, TypeOK
<1>7. CASE OtaDone
  BY <1>1, <1>7 DEF OtaDone
<1>8. CASE PowerCut
  <2>1. ASSUME NEW P, log' \in CutErases(P)
        PROVE  log'[p] \in {Blank, Junk, log[p]}
    BY <2>1, CutErasesPage
  <2>2. CASE pc \in {"clear", "image", "nv", "erase"}
    <3>1. log' = log \/ \E P : log' \in CutErases(P)
      BY <1>8, <2>2 DEF PowerCut, CutOutcomes
    <3> QED
      BY <1>1, <2>1, <3>1
  <2>3. CASE pc = "write"
    <3>1. \/ log' = log
          \/ \E c \in {Rec(mem), Junk, Torn(mem.top), Torn(TopMask)} :
               log' = [log EXCEPT ![pos] = Program(@, c)]
      BY <1>8, <2>3 DEF PowerCut, CutOutcomes
    <3> QED
      BY <1>3, <2>3, <3>1
  <2> QED
    BY <1>8, <2>2, <2>3 DEF PowerCut
<1>9. CASE log' = log
  BY <1>9
<1> QED
  BY <1>4, <1>5, <1>6, <1>7, <1>8, <1>9
  DEF Next, Boot, WriteNv, Save, Preset, OtaOffer, OtaAddress, OtaResume, OtaFails,
      Restart, FactoryReset, vars

\* What a step may do to the configuration in RAM and to its page.
LEMMA InitConfigNumbers ==
  ASSUME TypeOK, NEW l, InitConfig(l)
  PROVE  /\ fresh' => pos' = 0
         /\ pc' \notin {"erase", "write"}
         /\ \/ mem'.top = 0 \/ mem'.top = nv.top
            \/ \E p \in Page : mem'.top = l[p].top
<1>1. ScanEnd(l) \in Page
  BY ScanStops
<1> QED
  BY <1>1 DEF InitConfig, Default

LEMMA UpdateNumbers ==
  ASSUME TypeOK, NEW l, NEW o, UpdateFails(l) \/ UpdateStarts(l, o),
         fresh => pos = 0
  PROVE  /\ fresh' => pos' = 0
         /\ pc' \notin {"erase", "write"}
         /\ \/ mem'.top = 0 \/ mem'.top = mem.top \/ mem'.top = nv.top
            \/ \E p \in Page : mem'.top = l[p].top
<1>1. CASE InitConfig(l)
  BY <1>1, InitConfigNumbers
<1>2. CASE pc' = "run" /\ UNCHANGED <<mem, pos, fresh, saved>>
  BY <1>2
<1>3. CASE mem' = [mem EXCEPT !.newOta = TRUE] /\ pc' = "nv" /\ UNCHANGED <<pos, fresh>>
  BY <1>3 DEF TypeOK
<1> QED
  BY <1>1, <1>2, <1>3 DEF UpdateFails, UpdateStarts

LEMMA StepNumbers ==
  ASSUME TypeOK, LoadInv, Numbered, [Next]_vars
  PROVE  /\ fresh' => pos' = 0
         /\ pc' = "erase" => pos' \in SectorStarts
         /\ \/ mem'.top = 0
            \/ mem'.top = mem.top
            \/ mem'.top = nv.top
            \/ \E p \in Page : mem'.top = log[p].top
            \/ mem.top # MaxTop /\ mem'.top = NextTop(mem.top)
         /\ pc' \in {"erase", "write"} =>
              \/ pc \in {"nv", "erase", "write"} /\ UNCHANGED <<mem, pos, fresh>>
                 /\ (pc = "nv" => fresh)
              \/ mem.top # MaxTop /\ mem'.top = NextTop(mem.top)
<1>1. CASE Boot
  BY <1>1, InitConfigNumbers DEF Boot
<1>2. CASE ClearLog \/ WriteNv \/ EraseSector \/ WritePage
  BY <1>2, ConfigStoreAssumption
  DEF ClearLog, WriteNv, EraseSector, WritePage, LoadInv, Numbered
<1>3. ASSUME NEW v \in Reading, Save(v)
      PROVE  /\ pc = "run" /\ fresh' = fresh /\ mem.top # MaxTop
             /\ \/ mem'.top = mem.top /\ pc' = "nv"
                \/ /\ mem'.top = NextTop(mem.top)
                   /\ pc' = IF pos' \in SectorStarts THEN "erase" ELSE "write"
  <2>1. CASE mem.newOta
    BY <1>3, <2>1 DEF Save, TypeOK
  <2>2. CASE ~mem.newOta
    BY <1>3, <2>2 DEF Save, TypeOK
  <2> QED
    BY <2>1, <2>2
<1>4. ASSUME NEW v \in Reading, Preset(v)
      PROVE  mem'.top = mem.top /\ pc' = "run" /\ UNCHANGED <<pos, fresh>>
  BY <1>4 DEF Preset, TypeOK
<1>5. CASE EraseImage
  <2>1. PICK P \in ImageErasures :
          /\ log' = Erase(log, P) /\ pc = "image"
          /\ \/ UpdateStarts(log', 0)
             \/ pc' = "run" /\ UNCHANGED <<mem, pos, fresh, saved>>
    BY <1>5 DEF EraseImage
  <2>2. CASE UpdateStarts(log', 0)
    <3> DEFINE l == Erase(log, P)
    <3>1. UpdateStarts(l, 0)
      BY <2>1, <2>2
    <3>2. \A p \in Page : l[p].top = 0 \/ l[p].top = log[p].top
      BY DEF Erase, Blank, Cell
    <3> HIDE DEF l
    <3> QED
      BY <2>1, <3>1, <3>2, UpdateNumbers DEF Numbered
  <2> QED
    BY <2>1, <2>2 DEF Numbered
<1>6. CASE OtaAddress \/ OtaResume \/ OtaFails
  BY <1>6, UpdateNumbers DEF OtaAddress, OtaResume, OtaFails, Numbered
<1>7. CASE \/ OtaOffer \/ OtaBlock \/ OtaDone \/ Restart \/ FactoryReset \/ PowerCut
           \/ UNCHANGED vars
  BY <1>7
  DEF OtaOffer, OtaBlock, OtaDone, Restart, FactoryReset, PowerCut, vars, LoadInv, Numbered
<1> QED
  BY <1>1, <1>2, <1>3, <1>4, <1>5, <1>6, <1>7 DEF Next, LoadInv, Numbered

LEMMA StepNumbered ==
  ASSUME TypeOK, LoadInv, Numbered, [Next]_vars
  PROVE  Numbered'
<1>1. /\ fresh' => pos' = 0
      /\ pc' = "erase" => pos' \in SectorStarts
  BY StepNumbers
<1>2. mem.top \in 0 .. TopMask /\ MaxTop \in Nat /\ TopMask \in Nat
  BY ConfigStoreAssumption DEF TypeOK
<1>3. ASSUME MaxTop = TopMask, NEW p \in Page \ {0}, log'[p].kind = "rec"
      PROVE  log'[p].top # 0
  <2>1. CASE log'[p] = log[p]
    BY <1>3, <2>1 DEF Numbered
  <2>2. CASE pc = "write" /\ p = pos /\ log'[p] = Rec(mem)
    BY <1>3, <2>2 DEF Numbered, Rec, Cell
  <2> QED
    BY <1>3, <2>1, <2>2, StepCells
<1>4. ASSUME MaxTop = TopMask, pc' \in {"erase", "write"}, pos' # 0
      PROVE  mem'.top # 0
  <2>1. CASE mem.top # MaxTop /\ mem'.top = NextTop(mem.top)
    BY <1>2, <1>4, <2>1 DEF NextTop
  <2>2. CASE /\ pc \in {"nv", "erase", "write"} /\ (pc = "nv" => fresh)
            /\ UNCHANGED <<mem, pos, fresh>>
    BY <1>1, <1>4, <2>2 DEF Numbered
  <2> QED
    BY <1>4, <2>1, <2>2, StepNumbers
<1>5. ASSUME MaxTop < TopMask, mem.top # MaxTop
      PROVE  NextTop(mem.top) \in Tops /\ NextTop(mem.top) # TopMask
  <2>1. mem.top \in Tops
    BY <1>5 DEF Numbered
  <2> QED
    BY <1>2, <1>5, <2>1 DEF NextTop, Tops
<1>6. ASSUME MaxTop < TopMask
      PROVE  mem'.top \in Tops
  <2>1. /\ 0 \in Tops /\ mem.top \in Tops /\ nv.top \in Tops
        /\ \A p \in Page : log[p].top \in Tops
    BY <1>2, <1>6 DEF Numbered, Tops
  <2> QED
    BY <1>5, <1>6, <2>1, StepNumbers
<1>7. ASSUME MaxTop < TopMask
      PROVE  nv'.top \in Tops
  <2>1. nv' = nv \/ nv'.top = mem.top \/ nv'.top = 0
    <3>1. CASE WriteNv
      BY <3>1 DEF WriteNv
    <3>2. CASE FactoryReset
      BY <3>2 DEF FactoryReset, Invalid
    <3>3. CASE UNCHANGED nv
      BY <3>3
    <3> QED
      BY <3>1, <3>2, <3>3
      DEF Next, Boot, ClearLog, EraseSector, WritePage, Save, Preset, OtaOffer, EraseImage,
          OtaAddress, OtaResume, OtaBlock, OtaFails, OtaDone, Restart, PowerCut, vars
  <2> QED
    BY <1>2, <1>7, <2>1 DEF Numbered, Tops
<1>8. ASSUME MaxTop < TopMask, NEW p \in Page
      PROVE  log'[p].top \in Tops
  <2>1. /\ 0 \in Tops /\ mem.top \in Tops /\ TopMask \in Tops
        /\ log[p].top \in Tops
    BY <1>2, <1>8 DEF Numbered, Tops
  <2> QED
    BY <2>1, StepCells DEF Rec, Cell
<1>9. ASSUME MaxTop < TopMask, pc' \in {"erase", "write"}, ~fresh'
      PROVE  mem'.top # TopMask
  <2>1. CASE mem.top # MaxTop /\ mem'.top = NextTop(mem.top)
    BY <1>5, <1>9, <2>1
  <2>2. CASE /\ pc \in {"nv", "erase", "write"} /\ (pc = "nv" => fresh)
            /\ UNCHANGED <<mem, pos, fresh>>
    BY <1>9, <2>2 DEF Numbered
  <2> QED
    BY <1>9, <2>1, <2>2, StepNumbers
<1> QED
  BY <1>1, <1>3, <1>4, <1>6, <1>7, <1>8, <1>9 DEF Numbered

LEMMA NumberedAlways == Spec => []Numbered
<1>1. ASSUME Init PROVE Numbered
  <2>1. \A p \in Page : log[p].kind = "blank" /\ log[p].top = 0
    BY <1>1 DEF Init, Blank, Cell
  <2>2. 0 \in Tops
    BY ConfigStoreAssumption DEF Tops
  <2> QED
    BY <1>1, <2>1, <2>2 DEF Init, Numbered, Default, Invalid
<1>2. TypeOK /\ LoadInv /\ Numbered /\ [Next]_vars => Numbered'
  BY StepNumbered
<1> QED
  BY <1>1, <1>2, TypeCorrect, LoadsAlways, PTL DEF Spec

\* The scan that ends before the page of a save ends where it did, or at the
\* page itself when its record is complete, whatever else happened to the page
\* and to those behind it.
LEMMA AppendScan ==
  ASSUME TypeOK, NEW l, MaxTop <= TopMask, Numbered,
         NoNewerRecord, ~fresh, pos \notin {0, Last}, ScanEnd(log) < pos,
         \A p \in Page : p < pos => l[p] = log[p],
         \/ l[pos] = log[pos]
         \/ l[pos].kind # "rec"
         \/ pc = "write" /\ l[pos] = Rec(mem) /\ l[pos + 1] = log[pos + 1]
  PROVE  ScanEnd(l) = ScanEnd(log) \/ (ScanEnd(l) = pos /\ l[pos].val = mem.val)
<1> DEFINE k == ScanEnd(log)
<1>0. /\ k \in Page /\ k < pos
      /\ \A p \in 1 .. k : Continues(log, p)
      /\ k = Last \/ ~Continues(log, k + 1)
  BY ScanStops
<1> HIDE DEF k
<1>1. /\ pos \in Page /\ pos \in Nat /\ pos - 1 \in Page /\ pos + 1 \in Page
      /\ (pos - 1) + 1 = pos /\ (pos + 1) - 1 = pos /\ pos < Last
  BY ConfigStoreAssumption DEF TypeOK, Page, Last
<1>2. /\ k \in Page /\ k < pos
      /\ \A p \in 1 .. k : Continues(log, p)
      /\ ~Continues(log, k + 1)
  BY <1>1, <1>0, ConfigStoreAssumption DEF Page, Last
<1>3. k \in Nat /\ k # Last /\ k + 1 \in Page /\ (k + 1) - 1 = k
  BY <1>1, <1>2, ConfigStoreAssumption DEF Page, Last
<1>4. \A p \in 1 .. k : Continues(l, p)
  <2>1. \A p \in 1 .. k : /\ p \in Page /\ p < pos
                         /\ p - 1 \in Page /\ p - 1 < pos
    BY <1>1, <1>2, <1>3, ConfigStoreAssumption DEF Page
  <2> QED
    BY <1>2, <2>1 DEF Continues
<1>5. CASE ~Continues(l, k + 1)
  <2>1. ScanEnd(l) = k
    BY <1>2, <1>4, <1>5, ScanStopsAt
  <2> QED
    BY <2>1 DEF k
<1>6. CASE Continues(l, k + 1)
  <2>1. l[k] = log[k]
    BY <1>2
  <2>2. k + 1 = pos
    <3>1. CASE k + 1 < pos
      <4>1. l[k + 1] = log[k + 1]
        BY <1>3, <3>1
      <4> QED
        BY <1>2, <1>3, <1>6, <2>1, <4>1 DEF Continues
    <3> QED
      BY <1>1, <1>2, <1>3, <3>1
  <2>3. pc = "write" /\ l[pos] = Rec(mem) /\ l[pos + 1] = log[pos + 1]
    BY <1>2, <1>3, <1>6, <2>1, <2>2 DEF Continues
  <2>4. \A p \in 1 .. pos : Continues(l, p)
    BY <1>1, <1>3, <1>4, <1>6, <2>2
  <2>5. ASSUME Continues(l, pos + 1) PROVE FALSE
    <3>1. log[pos + 1].kind = "rec" /\ log[pos + 1].top = NextTop(mem.top)
      BY <1>1, <2>3, <2>5 DEF Continues, Rec, Cell
    <3>2. log[pos + 1].top <= mem.top
      BY <1>1, <3>1 DEF NoNewerRecord
    <3>3. mem.top \in 0 .. TopMask /\ TopMask \in Nat /\ MaxTop \in Nat
      BY ConfigStoreAssumption DEF TypeOK
    <3>4. mem.top = TopMask /\ log[pos + 1].top = 0
      BY <3>1, <3>2, <3>3 DEF NextTop
    <3>5. pos + 1 \in Page \ {0}
      BY <1>1
    <3>6. CASE MaxTop = TopMask
      BY <3>1, <3>4, <3>5, <3>6 DEF Numbered
    <3>7. CASE MaxTop < TopMask
      BY <2>3, <3>4, <3>7 DEF Numbered
    <3> QED
      BY <3>3, <3>6, <3>7
  <2>6. ScanEnd(l) = pos
    BY <1>1, <2>4, <2>5, ScanStopsAt
  <2> QED
    BY <2>3, <2>6 DEF Rec, Cell
<1> QED
  BY <1>5, <1>6

\* Each flash operation of a save that appends a record, completed, cut or
\* skipped, leaves a start the old reading or the new one.  Not for the first
\* page of the log, its last one, and a log with newer records ahead; and the
\* sequence numbers may reach TopMask but not start again from zero, which
\* takes 2^32 saves.
THEOREM AppendLeavesOldOrNew ==
  ASSUME MaxTop <= TopMask
  PROVE  Spec => AppendKeepsOldOrNew
<1>1. ASSUME TypeOK, Numbered, Next,
             pc \in {"erase", "write"}, ~fresh, pos \notin {0, Last},
             ScanEnd(log) < pos, NoNewerRecord
      PROVE  Recovered(log', nv') \in {Recovered(log, nv), mem.val}
  <2>1. EraseSector \/ WritePage \/ PowerCut
    BY <1>1
    DEF Next, Boot, ClearLog, WriteNv, Save, Preset, OtaOffer, EraseImage,
        OtaAddress, OtaResume, OtaBlock, OtaFails, OtaDone, Restart, FactoryReset
  <2>2. nv' = nv
    BY <2>1 DEF EraseSector, WritePage, PowerCut
  <2>3. /\ pos \in Page /\ pos \in Nat /\ pos + 1 \in Page /\ pos + 1 # pos
        /\ 0 \in Page /\ 0 < pos /\ pos < Last
    BY <1>1, ConfigStoreAssumption DEF TypeOK, Page, Last
  <2>4. ScanEnd(log) \in Page /\ ScanEnd(log) # Last
    BY <1>1, <2>3, ScanStops DEF Page
  <2>5. ASSUME \A p \in Page : p < pos => log'[p] = log[p],
               \/ log'[pos] = log[pos]
               \/ log'[pos].kind # "rec"
               \/ pc = "write" /\ log'[pos] = Rec(mem) /\ log'[pos + 1] = log[pos + 1]
        PROVE  Recovered(log', nv') \in {Recovered(log, nv), mem.val}
    <3> DEFINE l == log'
    <3>1. /\ \A p \in Page : p < pos => l[p] = log[p]
          /\ \/ l[pos] = log[pos]
             \/ l[pos].kind # "rec"
             \/ pc = "write" /\ l[pos] = Rec(mem) /\ l[pos + 1] = log[pos + 1]
      BY <2>5
    <3> HIDE DEF l
    <3>2. ScanEnd(l) = ScanEnd(log) \/ (ScanEnd(l) = pos /\ l[pos].val = mem.val)
      BY <1>1, <3>1, AppendScan
    <3>3. l[0] = log[0] /\ l[ScanEnd(log)] = log[ScanEnd(log)]
      BY <1>1, <2>3, <2>4, <3>1
    <3>4. Outcome(l, nv) = Outcome(log, nv)
      BY <2>3, <2>4, <3>2, <3>3 DEF Outcome
    <3>5. Recovered(l, nv) \in {Recovered(log, nv), mem.val}
      BY <3>2, <3>3, <3>4 DEF Recovered, Outcome
    <3> QED
      BY <2>2, <3>5 DEF l
  <2>6. CASE log' = log
    BY <2>5, <2>6
  <2>7. CASE pc = "erase" /\ log' # log
    <3> DEFINE P == {p \in Page : SameSector(p, pos)}
    <3>1. \A p \in Page : p < pos => p \notin P
      BY <1>1, <2>3, <2>7, SameSectorFacts DEF Numbered
    <3>2. log' = Erase(log, P) \/ log' \in CutErases(P)
      BY <2>1, <2>7 DEF EraseSector, WritePage, PowerCut, CutOutcomes
    <3> HIDE DEF P
    <3>3. \A p \in Page : log'[p] \in {Blank, Junk, log[p]} /\ (p \notin P => log'[p] = log[p])
      BY <3>2, CutErasesPage DEF Erase
    <3>4. Blank.kind # "rec" /\ Junk.kind # "rec"
      BY DEF Blank, Junk, Cell
    <3>5. log'[pos] = log[pos] \/ log'[pos].kind # "rec"
      BY <2>3, <3>3, <3>4
    <3> QED
      BY <2>5, <3>1, <3>3, <3>5
  <2>8. CASE pc = "write" /\ log' # log
    <3>1. PICK c \in {Rec(mem), Junk, Torn(mem.top), Torn(TopMask)} :
            log' = [log EXCEPT ![pos] = Program(@, c)]
      BY <2>1, <2>8 DEF EraseSector, WritePage, PowerCut, CutOutcomes
    <3>2. /\ \A p \in Page : p < pos => log'[p] = log[p]
          /\ log'[pos] = Program(log[pos], c) /\ log'[pos + 1] = log[pos + 1]
      BY <1>1, <2>3, <3>1 DEF TypeOK
    <3> QED
      BY <2>5, <2>8, <3>2, ProgramLeaves
  <2> QED
    BY <1>1, <2>6, <2>7, <2>8
<1>2. TypeOK /\ Numbered /\ [Next]_vars =>
        [(/\ pc \in {"erase", "write"} /\ ~fresh /\ pos \notin {0, Last}
          /\ ScanEnd(log) < pos /\ NoNewerRecord)
           => Recovered(log', nv') \in {Recovered(log, nv), mem.val}]_vars
  BY <1>1
<1> QED
  BY <1>2, TypeCorrect, NumberedAlways, PTL DEF Spec, AppendKeepsOldOrNew
=============================================================================
