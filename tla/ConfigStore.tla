----------------------------- MODULE ConfigStore -----------------------------
(***************************************************************************)
(* The configuration store of the water meter (src/app_dev_config.c).      *)
(*                                                                         *)
(* Every save appends one record to a ring of flash pages, the LOG, which  *)
(* lives in the half of the flash the firmware does not run from.  One     *)
(* more copy of the record lives in the NV store (NV_ITEM_APP_USER_CFG).   *)
(* While a firmware update is being downloaded into that same half of the  *)
(* flash, saves go to the NV copy instead, and the first start afterwards  *)
(* moves the NV copy back to the start of the log.                         *)
(*                                                                         *)
(* Every flash operation of a save is a step of its own, so that a power   *)
(* cut can fall between any two of them.  Which faults and other events may *)
(* occur besides pulses and restarts is the constant Events.               *)
(***************************************************************************)
EXTENDS Integers

CONSTANTS
  NPages,        \* pages of the log (832 on the chip)
  SectorStarts,  \* the pages whose address is sector-aligned
  TopMask,       \* greatest value of a record's sequence number "top"
  MaxTop,        \* bound on "top": a log at MaxTop saves no more
  Reading,       \* contents of a record: the two counters and the step
  Zero,          \* the reading of the default configuration
  Garbage,       \* contents of a record that was only partly programmed
  NImage,        \* pages a downloaded firmware image occupies
  ResumeMin,     \* a download past this page is resumed, not restarted
  Events         \* what may happen besides pulses, presets and restarts

Page == 0 .. NPages - 1
Last == NPages - 1

ASSUME ConfigStoreAssumption ==
  /\ NPages \in Nat /\ NPages >= 2
  /\ SectorStarts \subseteq Page /\ 0 \in SectorStarts
  /\ TopMask \in Nat /\ TopMask >= NPages
  /\ MaxTop \in Nat
  /\ Zero \in Reading /\ Garbage \notin Reading
  /\ NImage \in 1 .. NPages
  /\ ResumeMin \in Nat
  \* update    a firmware update is offered
  \* factory   the button asks for a factory reset
  \* cut       power is lost in the middle of a sequence of flash operations
  \* lowflash  the battery is below BATTERY_SAFETY_THRESHOLD: the driver
  \*           returns without programming or erasing
  \* lowcharge the battery is below 50% when an update starts
  \* noaddr    the update server's IEEE address must be asked for first
  /\ Events \subseteq {"update", "factory", "cut",
                   "lowflash", "lowcharge", "noaddr"}

VARIABLES
  log,    \* the flash pages of the log
  nv,     \* the copy in the NV store
  mem,    \* watermeter_config in RAM; dead while pc = "off"
  pos,    \* the page of mem.flash_addr_start
  fresh,  \* default_config: the save in progress is the first one
  pc,     \* "off", "run", or the flash operation the program does next
  ota,    \* the update client: idle, asking for the server address, loading
  off,    \* pages of the image downloaded so far
  saved   \* history: the reading last handed to write_config

vars == <<log, nv, mem, pos, fresh, pc, ota, off, saved>>

(***************************************************************************)
(* Records.                                                                *)
(***************************************************************************)
Cell(k, t, v) == [kind |-> k, top |-> t, val |-> v]
Blank         == Cell("blank", 0, Zero)    \* erased
Junk          == Cell("junk", 0, Zero)     \* anything without ID_CONFIG
Img           == Cell("img", 0, Zero)      \* a page of a firmware image
Rec(m)        == Cell("rec", m.top, m.val) \* id and checksum are right
Torn(t)       == Cell("torn", t, Garbage)  \* id is right, checksum is not

HasId(c)   == c.kind \in {"rec", "torn"}
Invalid    == [valid |-> FALSE, top |-> 0, val |-> Zero, newOta |-> FALSE]
Default    == [top |-> 0, val |-> Zero, newOta |-> FALSE]
NextTop(t) == IF t = TopMask THEN 0 ELSE t + 1

\* Pages of one flash sector: no sector starts between them.
SameSector(p, q) == \A s \in SectorStarts : (s <= p) <=> (s <= q)
ImageArea        == {p \in Page : \E q \in 0 .. NImage - 1 : SameSector(p, q)}
Erase(l, P)      == [p \in Page |-> IF p \in P THEN Blank ELSE l[p]]

\* Programming clears bits only, so that a page must be blank to take c.
Program(old, c) ==
  CASE old.kind = "blank" \/ old = c -> c
    [] HasId(old) /\ old # c         -> Torn(c.top)
    [] OTHER                         -> Junk

(***************************************************************************)
(* What init_config finds in the log l: the first page counts when it has  *)
(* the id, a later one when its checksum is right and it continues the     *)
(* sequence numbers of the page before it.                                 *)
(***************************************************************************)
\* Mutants of Continues: one looks at the checksum only, one at the id and
\* the sequence number only.
ContinuesUnordered(l, p) == l[p].kind = "rec"
ContinuesUnchecked(l, p) == HasId(l[p]) /\ l[p].top = NextTop(l[p - 1].top)

Continues(l, p) == l[p].kind = "rec" /\ l[p].top = NextTop(l[p - 1].top)

ScanEnd(l) ==
  CHOOSE k \in Page :
    /\ \A p \in 1 .. k : Continues(l, p)
    /\ k = Last \/ ~Continues(l, k + 1)

Outcome(l, n) ==
  CASE ~n.valid                                    -> "default"
    [] n.valid /\ n.newOta                         -> "handover"
    [] n.valid /\ ~n.newOta
         /\ (~HasId(l[0]) \/ ScanEnd(l) = Last)    -> "default"
    [] OTHER                                       -> "resume"

\* The reading a start of the firmware would come up with now.
Recovered(l, n) ==
  CASE Outcome(l, n) = "default"  -> Zero
    [] Outcome(l, n) = "handover" -> n.val
    [] Outcome(l, n) = "resume"   -> l[ScanEnd(l)].val

(***************************************************************************)
(* init_config on the log l: adopt a configuration and, unless it was read *)
(* from the log, save it as the first record.                              *)
(***************************************************************************)
InitConfig(l) ==
  /\ \/ /\ Outcome(l, nv) = "default"
        /\ mem' = Default
        /\ pos' = 0 /\ fresh' = TRUE /\ pc' = "clear"
     \/ /\ Outcome(l, nv) = "handover"
        /\ mem' = [top |-> nv.top, val |-> nv.val, newOta |-> FALSE]
        /\ pos' = 0 /\ fresh' = TRUE /\ pc' = "nv"
     \/ /\ Outcome(l, nv) = "resume"
        /\ mem' = [top |-> l[ScanEnd(l)].top, val |-> l[ScanEnd(l)].val,
                   newOta |-> FALSE]
        /\ pos' = ScanEnd(l) /\ fresh' = FALSE /\ pc' = "run"
  /\ saved' = mem'.val

Boot ==
  /\ pc = "off"
  /\ InitConfig(log)
  /\ UNCHANGED <<log, nv, ota, off>>

(***************************************************************************)
(* The flash operations of a save.                                         *)
(***************************************************************************)
Skippable == "lowflash" \in Events

\* What is erased of the image area: all of it, or less the sectors skipped.
ImageErasures ==
  {{p \in ImageArea : \A s \in S : ~SameSector(p, s)} :
     S \in IF Skippable THEN SUBSET SectorStarts ELSE {{}}}

ClearLog ==
  /\ pc = "clear"
  /\ log' = Erase(log, Page)
  /\ pc' = "nv"
  /\ UNCHANGED <<nv, mem, pos, fresh, ota, off, saved>>

\* Mutant: the copy is written without the flag of the update.
WriteNvWithoutFlag ==
  /\ pc = "nv"
  /\ nv' = [valid |-> TRUE, top |-> mem.top, val |-> mem.val, newOta |-> FALSE]
  /\ pc' = IF fresh THEN "erase" ELSE "run"
  /\ UNCHANGED <<log, mem, pos, fresh, ota, off, saved>>

WriteNv ==
  /\ pc = "nv"
  /\ \/ nv' = [valid |-> TRUE, top |-> mem.top, val |-> mem.val,
               newOta |-> mem.newOta]
     \/ Skippable /\ UNCHANGED nv
  /\ pc' = IF fresh THEN "erase" ELSE "run"
  /\ UNCHANGED <<log, mem, pos, fresh, ota, off, saved>>

EraseSector ==
  /\ pc = "erase"
  /\ \/ log' = Erase(log, {p \in Page : SameSector(p, pos)})
     \/ Skippable /\ UNCHANGED log
  /\ pc' = "write"
  /\ UNCHANGED <<nv, mem, pos, fresh, ota, off, saved>>

WritePage ==
  /\ pc = "write"
  /\ \/ log' = [log EXCEPT ![pos] = Program(@, Rec(mem))]
     \/ Skippable /\ UNCHANGED log
  /\ fresh' = FALSE
  /\ pc' = "run"
  /\ UNCHANGED <<nv, mem, pos, ota, off, saved>>

\* Mutants of Save: the ring does not wrap; a sector is erased at the wrap
\* only; an update in progress is ignored.
SaveWithoutWrap(v) ==
  /\ pc = "run"
  /\ mem.top # MaxTop
  /\ mem' = [mem EXCEPT !.val = v, !.top = NextTop(@)]
  /\ pos' = pos + 1
  /\ pc' = IF pos' \in SectorStarts THEN "erase" ELSE "write"
  /\ saved' = v
  /\ UNCHANGED <<log, nv, fresh, ota, off>>
SaveErasingAtWrap(v) ==
  /\ pc = "run"
  /\ mem.top # MaxTop
  /\ mem' = [mem EXCEPT !.val = v, !.top = NextTop(@)]
  /\ pos' = IF pos = Last THEN 0 ELSE pos + 1
  /\ pc' = IF pos' = 0 THEN "erase" ELSE "write"
  /\ saved' = v
  /\ UNCHANGED <<log, nv, fresh, ota, off>>
SaveDuringUpdate(v) ==
  /\ pc = "run"
  /\ mem.top # MaxTop
  /\ mem' = [mem EXCEPT !.val = v, !.top = NextTop(@)]
  /\ pos' = IF pos = Last THEN 0 ELSE pos + 1
  /\ pc' = IF pos' \in SectorStarts THEN "erase" ELSE "write"
  /\ saved' = v
  /\ UNCHANGED <<log, nv, fresh, ota, off>>

\* write_config after the counters or the step changed to v.
Save(v) ==
  /\ pc = "run"
  /\ mem.top # MaxTop
  /\ saved' = v
  /\ IF mem.newOta
     THEN /\ mem' = [mem EXCEPT !.val = v]
          /\ pc' = "nv"
          /\ UNCHANGED pos
     ELSE /\ mem' = [mem EXCEPT !.val = v, !.top = NextTop(@)]
          /\ pos' = IF pos = Last THEN 0 ELSE pos + 1
          /\ pc' = IF pos' \in SectorStarts THEN "erase" ELSE "write"
  /\ UNCHANGED <<log, nv, fresh, ota, off>>

\* A preset written over Zigbee changes the RAM copy and saves nothing.
Preset(v) ==
  /\ pc = "run"
  /\ mem' = [mem EXCEPT !.val = v]
  /\ UNCHANGED <<log, nv, pos, fresh, pc, ota, off, saved>>

(***************************************************************************)
(* The firmware update.                                                    *)
(***************************************************************************)
\* OTA_EVT_COMPLETE with a failure status, the log holding l.
UpdateFails(l) ==
  /\ ota' = "idle" /\ off' = 0
  /\ IF mem.newOta
     THEN InitConfig(l)
     ELSE pc' = "run" /\ UNCHANGED <<mem, pos, fresh, saved>>

\* Mutant: the flag is set in RAM and not saved.
UpdateStartsUnsaved(l, o) ==
  /\ mem' = [mem EXCEPT !.newOta = TRUE]
  /\ pc' = "run"
  /\ ota' = "load" /\ off' = o
  /\ UNCHANGED <<pos, fresh, saved>>

\* OTA_EVT_START, the log holding l and o pages of the image downloaded.
UpdateStarts(l, o) ==
  \/ "lowcharge" \in Events /\ UpdateFails(l)
  \/ /\ mem' = [mem EXCEPT !.newOta = TRUE]
     /\ saved' = mem.val
     /\ pc' = "nv"
     /\ ota' = "load" /\ off' = o
     /\ UNCHANGED <<pos, fresh>>

\* The server offers an image.
OtaOffer ==
  /\ "update" \in Events
  /\ pc = "run" /\ ota = "idle"
  /\ pc' = "image"
  /\ UNCHANGED <<log, nv, mem, pos, fresh, ota, off, saved>>

\* The image area is erased, sector by sector, before anything else is asked.
EraseImage ==
  /\ pc = "image"
  /\ \E P \in ImageErasures : log' = Erase(log, P)
  /\ \/ UpdateStarts(log', 0)
     \/ /\ "noaddr" \in Events
        /\ ota' = "addr" /\ off' = 0 /\ pc' = "run"
        /\ UNCHANGED <<mem, pos, fresh, saved>>
  /\ UNCHANGED nv

\* The answer to the request for the server's address, or its timeout.
OtaAddress ==
  /\ pc = "run" /\ ota = "addr"
  /\ UpdateStarts(log, 0) \/ UpdateFails(log)
  /\ UNCHANGED <<log, nv>>

\* A download interrupted by a restart goes on where it was.
OtaResume ==
  /\ pc = "run" /\ ota = "idle"
  /\ off > ResumeMin /\ off < NImage
  /\ UpdateStarts(log, off)
  /\ UNCHANGED <<log, nv>>

OtaBlock ==
  /\ pc = "run" /\ ota = "load" /\ off < NImage
  /\ log' = [log EXCEPT ![off] = IF @.kind \in {"blank", "img"} THEN Img ELSE Junk]
  /\ off' = off + 1
  /\ UNCHANGED <<nv, mem, pos, fresh, pc, ota, saved>>

OtaFails ==
  /\ pc = "run" /\ ota = "load"
  /\ UpdateFails(log)
  /\ UNCHANGED <<log, nv>>

\* OTA_EVT_COMPLETE with success: a valid image is started, and the log now
\* lives where the old firmware was.  The device runs on when the image is
\* invalid or the write of its boot flag is skipped; power lost between the
\* two flags, or the second one skipped, may start the old firmware (Restart).
OtaDone ==
  /\ pc = "run" /\ ota = "load" /\ off = NImage
  /\ ota' = "idle" /\ off' = 0
  /\ \/ /\ \A p \in 0 .. NImage - 1 : log[p] = Img
        /\ pc' = "off" /\ log' = [p \in Page |-> Img]
     \/ /\ Skippable \/ \E p \in 0 .. NImage - 1 : log[p] # Img
        /\ UNCHANGED <<pc, log>>
  /\ UNCHANGED <<nv, mem, pos, fresh, saved>>

(***************************************************************************)
(* Restarts and faults.                                                    *)
(***************************************************************************)
\* Battery change, button reset, or waking from deep sleep.
Restart ==
  /\ pc = "run"
  /\ pc' = "off" /\ fresh' = FALSE
  /\ ota' = "idle"
  /\ off' \in 0 .. off
  /\ UNCHANGED <<log, nv, mem, pos, saved>>

\* Five clicks: every NV module is erased, the user configuration included.
FactoryReset ==
  /\ "factory" \in Events
  /\ pc = "run"
  /\ nv' = Invalid
  /\ \/ pc' = "off" /\ ota' = "idle" /\ off' = 0
     \/ UNCHANGED <<pc, ota, off>>
  /\ UNCHANGED <<log, mem, pos, fresh, saved>>

\* Power fails while the sectors of P are erased one after the other: the
\* sector of page s is still untouched, or half erased.
CutErases(P) ==
  {[p \in Page |-> IF p \in P /\ p < s THEN Blank
                   ELSE IF p \in P /\ half /\ SameSector(p, s) THEN Junk
                   ELSE log[p]] : s \in SectorStarts, half \in BOOLEAN}

\* What the log may hold when power fails before, in or after the next flash
\* operation.
CutOutcomes ==
  CASE pc = "clear" -> CutErases(Page)
    [] pc = "image" -> UNION {CutErases(P) : P \in ImageErasures}
    [] pc = "nv"    -> {log}
    [] pc = "erase" -> CutErases({p \in Page : SameSector(p, pos)})
    [] pc = "write" -> {log} \cup {[log EXCEPT ![pos] = Program(@, c)] :
                          c \in {Rec(mem), Junk, Torn(mem.top), Torn(TopMask)}}

PowerCut ==
  /\ "cut" \in Events
  /\ pc \in {"clear", "image", "nv", "erase", "write"}
  /\ log' \in CutOutcomes
  /\ pc' = "off" /\ fresh' = FALSE
  /\ ota' = "idle"
  /\ off' \in 0 .. off
  /\ UNCHANGED <<nv, mem, pos, saved>>

Init ==
  /\ log = [p \in Page |-> Blank]
  /\ nv = Invalid
  /\ mem = Default /\ saved = Zero
  /\ pos = 0 /\ fresh = FALSE
  /\ pc = "off" /\ ota = "idle" /\ off = 0

Next ==
  \/ Boot
  \/ ClearLog \/ WriteNv \/ EraseSector \/ WritePage
  \/ \E v \in Reading : Save(v) \/ Preset(v)
  \/ OtaOffer \/ EraseImage \/ OtaAddress \/ OtaResume \/ OtaBlock \/ OtaFails \/ OtaDone
  \/ Restart \/ FactoryReset \/ PowerCut

Spec == Init /\ [][Next]_vars

(***************************************************************************)
(* Properties.                                                             *)
(***************************************************************************)
CellType == [kind : {"blank", "junk", "img", "rec", "torn"},
             top : 0 .. TopMask, val : Reading \cup {Garbage}]

\* Type correctness of the store's state (watermeter_config, the log pages,
\* the NV copy and the static flags of app_dev_config.c).
TypeOK ==
  /\ log \in [Page -> CellType]
  /\ nv \in [valid : BOOLEAN, top : 0 .. TopMask,
             val : Reading \cup {Garbage}, newOta : BOOLEAN]
  /\ mem \in [top : 0 .. TopMask, val : Reading \cup {Garbage}, newOta : BOOLEAN]
  /\ pos \in Page
  /\ fresh \in BOOLEAN
  /\ pc \in {"off", "run", "clear", "image", "nv", "erase", "write"}
  /\ ota \in {"idle", "addr", "load"}
  /\ off \in 0 .. NImage
  /\ saved \in Reading \cup {Garbage}

\* Between two saves, and while the device is off, a start of the firmware
\* would come up with the last saved reading: init_config undoes what any
\* sequence of write_config, updates and restarts did.  Not when the last
\* record sits on the last page of the log (see RingNeverLosesReading), and
\* not after a factory reset erased the NV copy.
ReadingSurvives ==
  (pc \in {"run", "off"} /\ nv.valid /\ (mem.newOta \/ pos # Last))
     => Recovered(log, nv) = saved

\* A record is only ever programmed into an erased page: write_config erases
\* a sector exactly when it enters it, wherever the last start resumed.
WritesOnlyErasedPages ==
  pc = "write" => log[pos].kind = "blank"

\* While an update is loading, no save programs or erases a page the image
\* already occupies: write_config keeps to the NV copy.
ImageUntouched ==
  [][ota = "load" /\ ota' = "load"
       => \A p \in 0 .. off - 1 : log'[p] = log[p]]_vars

\* No record is newer than the configuration in RAM.
NoNewerRecord ==
  \A p \in Page : log[p].kind = "rec" => log[p].top <= mem.top

\* While a save appends a record, a start would come up with the reading it
\* would have come up with before, or with the one being saved, after each
\* flash operation and after one that was cut or skipped; gaps that earlier
\* cuts or skipped operations left in the log included.  Not claimed: the save
\* of the first page (where the only copy is erased first, see
\* WrapKeepsReading), that of the last page (RingNeverLosesReading), a log
\* with newer records ahead, and the save that starts an update, for which
\* the log is already gone (OfferKeepsReading).
AppendKeepsOldOrNew ==
  [][(/\ pc \in {"erase", "write"} /\ ~fresh /\ pos \notin {0, Last}
      /\ ScanEnd(log) < pos /\ NoNewerRecord)
       => Recovered(log', nv') \in {Recovered(log, nv), mem.val}]_vars

\* During an update the NV copy alone carries the reading: whatever the
\* download made of the log, and whatever power cuts came before, a restart
\* comes up with the last saved reading.
UpdateKeepsReading ==
  (pc = "run" /\ nv.valid /\ mem.newOta) => Recovered(log, nv) = saved

(***************************************************************************)
(* The inductive invariant behind ReadingSurvives, for runs in which no    *)
(* flash operation fails and no update is refused.                         *)
(***************************************************************************)
\* Pages 0 .. k - 1 hold the consecutive records that lead up to page k.
LeadsTo(k) ==
  \A p \in 0 .. k - 1 : log[p].kind = "rec" /\ log[p].top = mem.top - (k - p)

\* The pages of the sector of k from page k on are erased.
BlankFrom(k) ==
  \A p \in Page : (p >= k /\ SameSector(p, pos)) => log[p].kind = "blank"

\* The log ends with the saved reading on page pos.
LogHolds ==
  /\ LeadsTo(pos)
  /\ log[pos] = [kind |-> "rec", top |-> mem.top, val |-> saved]
  /\ BlankFrom(pos + 1)

NvHolds == nv.valid => nv.newOta /\ nv.top = mem.top /\ nv.val = saved
NvOld   == nv.valid => ~nv.newOta

\* Between saves, and while off, the reading is in the NV copy during an
\* update and at the end of the log otherwise; in the middle of a save, the
\* pages it has still to write are ready for it.
StoreInv ==
  /\ mem.top <= MaxTop
  /\ ota # "addr" /\ (ota = "load" => mem.newOta) /\ (pc = "off" => ota = "idle")
  /\ pc # "clear" => NoNewerRecord
  /\ fresh => pc \in {"clear", "nv", "erase", "write"}
  /\ pc = "image" => ota = "idle"
  /\ pc \in {"run", "image", "off"} /\ mem.newOta => NvHolds
  /\ pc \in {"run", "image"} /\ ~mem.newOta => LogHolds /\ NvOld
  /\ pc = "off" /\ ~mem.newOta /\ nv.valid => LogHolds /\ NvOld
  /\ pc \in {"clear", "nv", "erase", "write"} => saved = mem.val
  /\ pc = "clear" => fresh /\ pos = 0 /\ ~mem.newOta
  /\ pc = "nv" => IF fresh THEN pos = 0 /\ ~mem.newOta ELSE mem.newOta
  /\ pc \in {"erase", "write"} => ~mem.newOta /\ NvOld /\ LeadsTo(pos)
  /\ pc = "erase" => pos \in SectorStarts
  /\ pc = "write" => BlankFrom(pos)

(***************************************************************************)
(* The store implements DurableReading: while a save is in progress the    *)
(* kept reading is the one that is being saved.                            *)
(***************************************************************************)
KeptReading ==
  IF pc \in {"run", "image", "off"} THEN Recovered(log, nv)
  ELSE IF mem.newOta \/ pos # Last THEN saved
  ELSE Zero

Durable == INSTANCE DurableReading WITH
  Room <- Last,
  live <- mem.val,
  kept <- KeptReading,
  room <- IF mem.newOta THEN Last ELSE Last - pos,
  up   <- pc # "off"

ImplementsDurableReading == Durable!SpecD

(***************************************************************************)
(* What the documentation promises and the code does not do.               *)
(***************************************************************************)
\* The saved reading survives a restart wherever the log stands (README.md:31,
\* 188): violated when the last record is on the last page.
RingNeverLosesReading ==
  (pc \in {"run", "off"} /\ nv.valid) => Recovered(log, nv) = saved

\* The same at the wrap (README.md:188): violated because the sector of the
\* first page is erased before the page is written, and a log without its first
\* page is not read at all.
WrapKeepsReading ==
  (/\ pc = "write" /\ ~fresh /\ pos = 0 /\ mem.val # Zero
   /\ \E p \in Page : log[p].kind = "rec" /\ log[p].val # Zero)
     => Recovered(log, nv) # Zero

\* An offered image leaves the saved reading alone until the NV copy has it
\* (README.md:31, 213): violated because the image area is erased first.
OfferKeepsReading ==
  [][(pc = "image" /\ pc' # "image" /\ nv.valid)
       => Recovered(log', nv') = Recovered(log, nv)]_vars

\* The NV copy carries the reading until the update has been completed
\* (README.md:213): violated while the first start after the update has
\* cleared the flag in the NV copy and not yet written the log.
HandoverKeepsReading ==
  (fresh /\ pc \in {"erase", "write"} /\ mem.val # Zero)
     => Recovered(log, nv) = saved

\* An update the device refuses changes nothing (README.md:305): violated
\* because the image area, that is the log, is erased before the battery is
\* checked.
RefusedUpdateKeepsReading ==
  (pc = "run" /\ nv.valid /\ ota = "idle" /\ pos # Last)
     => Recovered(log, nv) = saved

\* A factory reset leaves the network (README.md:38) and does not clean the
\* configuration, which is the TODO of another gesture (app_button.c:47):
\* violated because it erases the module of the NV store that init_config
\* looks for.
FactoryResetKeepsReading ==
  (pc \in {"run", "off"} /\ pos # Last /\ saved # Zero)
     => Recovered(log, nv) = saved

\* An update that was interrupted starts from the beginning (README.md:303):
\* violated because the download is resumed although the restart in between
\* has put a configuration record over its first pages.
DownloadIntact ==
  ota = "load" => \A p \in 0 .. off - 1 : log[p] = Img
=============================================================================
