------------------------------ MODULE NvStore ------------------------------
(***************************************************************************)
(* The item store of the SDK (src/tl_zigbee_sdk/proj/drivers/drv_nv.c),    *)
(* which keeps the configuration during an update, the switch actions,     *)
(* the reporting table, the state of a download and the network.           *)
(*                                                                         *)
(* A module is two sectors.  A sector has a flag, a list of index entries  *)
(* and the contents the entries point to.  A write appends an entry, and   *)
(* marks the one it replaces; when the sector is used up, the live items   *)
(* move to the other sector.  Every step below is one operation on flash,  *)
(* and power may fail between any two, or inside one; what a move copies   *)
(* and deletes is one step, because no reader looks into that sector yet.  *)
(* All items are written with the parameter single, as this firmware does. *)
(***************************************************************************)
EXTENDS Integers, SequencesExt

CONSTANTS
  Items, Values,
  None,          \* no value
  Size,          \* Size[i]: room the header and payload of item i take
  Slots,         \* MODULE_IDX_NUM: index entries of a sector
  Room,          \* room for contents in a sector
  FlagTears      \* whether the two bytes of a sector flag may be torn while
                 \* a ready sector is made the valid one

ASSUME NvAssumption ==
  /\ Slots \in Nat \ {0} /\ Room \in Nat
  /\ Size \in [Items -> 1 .. Room]
  /\ None \notin Items \cup Values
  /\ FlagTears \in BOOLEAN

VARIABLES
  sect,      \* the two sectors
  pc,        \* the operation on flash that comes next
  op,        \* the request being served
  at,        \* opSect: the sector the request works on
  moved,     \* sectorUpdate: the request has changed sectors
  resetting  \* CFG_FACTORY_RST_CNT: a factory reset has begun

vars == <<sect, pc, op, at, moved, resetting>>

(***************************************************************************)
(* Flash.                                                                  *)
(***************************************************************************)
Sectors == {0, 1}
Other(s) == 1 - s

\* "ready" and "valid" stand for the flag together with the module's name and
\* checksum; "junk" is every flag that no code recognises.
SectorFlags == {"erased", "ready", "valid", "invalid", "junk"}

\* The contents have not been written, or their header is torn.
Missing == "missing"
TornHeader == "torn header"
Contents == Values \cup {Missing, TornHeader}

Entry == [item : Items, flag : {"operation", "valid", "invalid", "torn"}, data : Contents]

Sector(flag, index) == [flag |-> flag, index |-> index]
ErasedSector        == Sector("erased", <<>>)

Erased(s)         == [sect EXCEPT ![s] = ErasedSector]
Flagged(s, flag)  == [sect EXCEPT ![s] = Sector(flag, sect[s].index)]
Indexed(s, index) == [sect EXCEPT ![s] = Sector(sect[s].flag, index)]

LastEntry(s)   == Last(sect[s].index)
WithLast(s, e) == Indexed(s, Append(Front(sect[s].index), e))
Appended(s, e) == Indexed(s, Append(sect[s].index, e))

\* What a sector or an entry holds that is marked invalid is never read again:
\* it is forgotten at once.
Spoilt(s, flag)     == [sect EXCEPT ![s] = Sector(flag, <<>>)]
MarkedInvalid(s, k) ==
  Indexed(s, [sect[s].index EXCEPT ![k] = [@ EXCEPT !.flag = "invalid", !.data = Missing]])

\* The room that the first n entries take.
Sums(index) ==
  LET sum[n \in 0 .. Len(index)] ==
        IF n = 0 THEN 0 ELSE sum[n - 1] + Size[index[n].item]
  IN  sum
Used(index) == Sums(index)[Len(index)]

(***************************************************************************)
(* Finding sectors and items.                                              *)
(***************************************************************************)
\* Mutant: a sector that is only being prepared is not looked at.
UsableValidOnly(s) == sect[s].flag = "valid"
Usable(s) == sect[s].flag \in {"ready", "valid"}

NoSector == 2
\* nv_sector_read: the first sector that is usable.
Chosen == IF Usable(0) THEN 0 ELSE IF Usable(1) THEN 1 ELSE NoSector

\* The positions of the valid entries of item i.
ValidAt(index, i) ==
  {k \in DOMAIN index : index[k].item = i /\ index[k].flag = "valid"}

\* Mutant: the search runs from the front.
OldestOf(index, i) == CHOOSE k \in ValidAt(index, i) : \A l \in ValidAt(index, i) : k <= l
\* nv_index_read searches from the end.
NewestOf(index, i) == CHOOSE k \in ValidAt(index, i) : \A l \in ValidAt(index, i) : l <= k

\* nv_flashReadNew: what a reader gets for item i.
Read(i) ==
  IF Chosen = NoSector \/ ValidAt(sect[Chosen].index, i) = {} THEN None
  ELSE sect[Chosen].index[NewestOf(sect[Chosen].index, i)].data

(***************************************************************************)
(* The search for the sector, with which every request begins.             *)
(***************************************************************************)
NoOp == [item |-> None, value |-> None, force |-> FALSE]
Writing == op.item # None

Finish == pc' = "idle" /\ op' = NoOp

Write(i, v) ==
  /\ pc = "idle"
  /\ op' = [item |-> i, value |-> v, force |-> FALSE]
  /\ pc' = "search"
  /\ UNCHANGED <<sect, at, moved, resetting>>

\* A read changes flash only when it finds a ready sector.
ReadRepairs ==
  /\ pc = "idle"
  /\ Chosen # NoSector /\ sect[Chosen].flag = "ready"
  /\ pc' = "search"
  /\ UNCHANGED <<sect, op, at, moved, resetting>>

Search ==
  /\ pc = "search"
  /\ \/ /\ Chosen = NoSector
        /\ at' = 0 /\ sect' = Erased(0)
        /\ pc' = "place"
     \/ /\ Chosen # NoSector /\ sect[Chosen].flag = "valid"
        /\ at' = Chosen /\ UNCHANGED sect
        /\ pc' = "place"
     \/ /\ Chosen # NoSector /\ sect[Chosen].flag = "ready"
        /\ at' = Chosen /\ sect' = Spoilt(Other(Chosen), "invalid")
        /\ pc' = "adopt"
  /\ UNCHANGED <<op, moved, resetting>>

Adopt ==
  /\ pc = "adopt"
  /\ sect' = Flagged(at, "valid")
  /\ pc' = IF Writing THEN "place" ELSE "idle"
  /\ UNCHANGED <<op, at, moved, resetting>>

(***************************************************************************)
(* nv_flashWriteNewHandler.                                                *)
(***************************************************************************)
\* Mutant: only the index is looked at.
UsedUpBySlots(index) ==
  index # <<>> /\ (Len(index) = Slots \/ Last(index).flag = "torn")
UsedUp(index) ==
  /\ index # <<>>
  /\ \/ Len(index) = Slots
     \/ Used(index) + Size[op.item] > Room
     \/ Last(index).flag = "torn"

\* A place behind the last entry, or in the other sector, which is erased.
Place ==
  /\ pc = "place"
  /\ IF op.force \/ UsedUp(sect[at].index)
     THEN /\ at' = Other(at)
          /\ sect' = Erased(Other(at))
          /\ moved' = TRUE
          /\ pc' = "copy"
     ELSE /\ moved' = FALSE
          /\ pc' = "index"
          /\ UNCHANGED <<sect, at>>
  /\ UNCHANGED <<op, resetting>>

\* Mutant: what was valid once moves too.
MovedWithItself(index, i) == SelectSeq(index, LAMBDA e : e.flag = "valid")
\* The entries that move: the valid ones, of one that is there twice the newer
\* (nv_exceptionDataHandler, whose buffer is taken to be there), and not the one
\* that is about to be replaced.
Moved(index, i) ==
  LET keep == {k \in DOMAIN index : /\ index[k].item # i
                                   /\ index[k].flag = "valid"
                                   /\ k = NewestOf(index, index[k].item)}
      kept == CHOOSE s \in [1 .. Cardinality(keep) -> keep] :
                 \A m, n \in DOMAIN s : m < n => s[m] < s[n]
  IN  [n \in DOMAIN kept |-> index[kept[n]]]

Copy ==
  /\ pc = "copy"
  /\ LET old  == sect[Other(at)]
         live == IF old.flag = "valid" THEN Moved(old.index, op.item) ELSE <<>>
     IN  IF Len(live) = Slots \/ Used(live) + Size[op.item] > Room
         THEN Finish /\ UNCHANGED sect
         ELSE /\ sect' = Indexed(at, live)
              /\ pc' = "index" /\ UNCHANGED op
  /\ UNCHANGED <<at, moved, resetting>>

\* nv_write_item refuses to append behind an entry it cannot trust, and the
\* write is tried once more in the other sector.
Untrusted(index) ==
  index # <<>> /\ (Last(index).flag = "torn" \/ Last(index).data = TornHeader)

Index ==
  /\ pc = "index"
  /\ IF ~Untrusted(sect[at].index)
     THEN /\ sect' = Appended(at, [item |-> op.item, flag |-> "operation", data |-> Missing])
          /\ pc' = "content" /\ UNCHANGED op
     ELSE /\ IF op.force THEN Finish
             ELSE op' = [op EXCEPT !.force = TRUE] /\ pc' = "search"
          /\ UNCHANGED sect
  /\ UNCHANGED <<at, moved, resetting>>

Content ==
  /\ pc = "content"
  /\ sect' = WithLast(at, [LastEntry(at) EXCEPT !.data = op.value])
  /\ pc' = "flag"
  /\ UNCHANGED <<op, at, moved, resetting>>

\* What the handler does once the entry is valid and alone.
Closing ==
  IF moved THEN pc' = "announce" /\ UNCHANGED op
  ELSE IF Len(sect[at].index) = 1 THEN pc' = "name" /\ UNCHANGED op
  ELSE Finish

Flag ==
  /\ pc = "flag"
  /\ sect' = WithLast(at, [LastEntry(at) EXCEPT !.flag = "valid"])
  /\ IF ValidAt(sect[at].index, op.item) # {}
     THEN pc' = "drop" /\ UNCHANGED op
     ELSE Closing
  /\ UNCHANGED <<at, moved, resetting>>

\* The entry that was the newest when the request began.
Replaced(s) ==
  NewestOf(Front(sect[s].index), op.item)

Drop ==
  /\ pc = "drop"
  /\ sect' = MarkedInvalid(at, Replaced(at))
  /\ Closing
  /\ UNCHANGED <<at, moved, resetting>>

\* Mutant: the old sector goes first.
AnnounceLate ==
  /\ pc = "announce"
  /\ sect' = Spoilt(Other(at), "invalid")
  /\ pc' = "retire"
  /\ UNCHANGED <<op, at, moved, resetting>>
Announce ==
  /\ pc = "announce"
  /\ sect' = Flagged(at, "ready")
  /\ pc' = "retire"
  /\ UNCHANGED <<op, at, moved, resetting>>

Retire ==
  /\ pc = "retire"
  /\ sect' = Spoilt(Other(at), "invalid")
  /\ pc' = "confirm"
  /\ UNCHANGED <<op, at, moved, resetting>>

\* The last step of a write: the flag of a sector that was moved to, or of the
\* first sector of an empty module.
Confirm ==
  /\ pc \in {"confirm", "name"}
  /\ sect' = Flagged(at, "valid")
  /\ Finish
  /\ UNCHANGED <<at, moved, resetting>>

(***************************************************************************)
(* nv_resetToFactoryNew.                                                   *)
(***************************************************************************)
FactoryReset ==
  /\ pc = "idle"
  /\ resetting' = TRUE
  /\ pc' = "erase0"
  /\ UNCHANGED <<sect, op, at, moved>>

ResetModule ==
  /\ \/ pc = "erase0" /\ sect' = Erased(0) /\ pc' = "erase1"
     \/ pc = "erase1" /\ sect' = Erased(1) /\ pc' = "clear"
  /\ UNCHANGED <<op, at, moved, resetting>>

ResetDone ==
  /\ pc = "clear"
  /\ resetting' = FALSE
  /\ pc' = "idle"
  /\ UNCHANGED <<sect, op, at, moved>>

(***************************************************************************)
(* Power.                                                                  *)
(***************************************************************************)
HalfErased(s)  == {Spoilt(s, f) : f \in {sect[s].flag, "junk"}}
HalfFlagged(s) == {sect, Spoilt(s, "junk")}
\* Programming a flag to what it is tears nothing.
HalfNamed(s)   == IF sect[s].flag = "valid" THEN {sect} ELSE HalfFlagged(s)

\* What a step that is cut short leaves in flash.  An index entry is written
\* with its flag last; a byte of an entry's flag is torn or not, and torn it
\* is none of the known ones.
Torn ==
  CASE pc = "search" /\ Chosen = NoSector -> HalfErased(0)
    [] pc = "search" /\ Chosen # NoSector -> HalfFlagged(Other(Chosen))
    [] pc = "place"    -> IF op.force \/ UsedUp(sect[at].index)
                          THEN HalfErased(Other(at)) ELSE {sect}
    [] pc = "index"    -> {sect} \cup
         IF Untrusted(sect[at].index) THEN {}
         ELSE {Appended(at, [item |-> op.item, flag |-> "torn", data |-> Missing])}
    [] pc = "content"  -> {sect, WithLast(at, [LastEntry(at) EXCEPT !.data = TornHeader])}
    [] pc = "flag"     -> {sect, WithLast(at, [LastEntry(at) EXCEPT !.flag = "torn"])}
    [] pc = "drop"     -> {sect, MarkedInvalid(at, Replaced(at))}
    [] pc = "announce" -> HalfFlagged(at)
    [] pc = "name"     -> HalfNamed(at)
    [] pc = "retire"   -> HalfFlagged(Other(at))
    [] pc \in {"adopt", "confirm"}  -> IF FlagTears THEN HalfFlagged(at) ELSE {sect}
    [] pc = "erase0"   -> HalfErased(0)
    [] pc = "erase1"   -> HalfErased(1)
    [] OTHER           -> {sect}

PowerCut ==
  /\ pc # "off"
  /\ sect' \in Torn
  /\ pc' = "off" /\ op' = NoOp
  /\ at' = 0 /\ moved' = FALSE
  /\ IF pc = "clear" THEN resetting' \in BOOLEAN ELSE UNCHANGED resetting

\* A start finishes the factory reset first (drv_nv.h says so; the code that
\* looks at the flag is in the libraries).
Boot ==
  /\ pc = "off"
  /\ pc' = IF resetting THEN "erase0" ELSE "idle"
  /\ UNCHANGED <<sect, op, at, moved, resetting>>

Init ==
  /\ sect = [s \in Sectors |-> ErasedSector]
  /\ pc = "idle" /\ op = NoOp
  /\ at = 0 /\ moved = FALSE
  /\ resetting = FALSE

Step ==
  \/ Search \/ Adopt \/ Place \/ Copy \/ Index \/ Content \/ Flag \/ Drop
  \/ Announce \/ Retire \/ Confirm
  \/ ResetModule \/ ResetDone

Next ==
  \/ \E i \in Items, v \in Values : Write(i, v)
  \/ ReadRepairs \/ Step
  \/ FactoryReset
  \/ PowerCut \/ Boot

Spec == Init /\ [][Next]_vars

(***************************************************************************)
(* Properties.                                                             *)
(***************************************************************************)
TypeOK ==
  /\ sect \in [Sectors -> [flag : SectorFlags, index : Seq(Entry)]]
  /\ \A s \in Sectors : Len(sect[s].index) <= Slots /\ Used(sect[s].index) <= Room
  /\ pc \in {"idle", "search", "adopt", "place", "copy", "index", "content", "flag", "drop",
             "announce", "retire", "confirm", "name", "erase0", "erase1", "clear", "off"}
  /\ op \in [item : Items \cup {None}, value : Values \cup {None}, force : BOOLEAN]
  /\ at \in Sectors /\ moved \in BOOLEAN /\ resetting \in BOOLEAN

\* The sectors as the map of NvItems: during a factory reset it is already
\* empty.
Map == INSTANCE NvItems WITH
  store <- [i \in Items |-> IF resetting THEN None ELSE Read(i)],
  asked <- IF Writing THEN <<op.item, op.value>> ELSE <<>>,
  clearing <- resetting

\* The write of item i ends with success: it was not refused.
Acknowledged(i) ==
  op.item = i /\ pc \in {"flag", "drop", "confirm", "name"} /\ pc' = "idle"

\* The store is an atomic map of items, whatever is cut where, that only a
\* factory reset empties, and a write that ends with success has its value in it.
WritesAreAtomic ==
  /\ Map!SpecN
  /\ [][\A i \in Items : Acknowledged(i) => Read(i)' = op.value]_vars

\* Once a sector can be found, one always can, a factory reset apart: at no
\* moment are both sectors without a flag that the search recognises.
AlwaysASector ==
  [][Chosen # NoSector => Chosen' # NoSector \/ resetting']_vars

OtherItems(i) == {j \in Items \ {i} : Read(j) # None}

\* A write is refused only if the live items leave no room for it: garbage,
\* torn entries and doubled ones never use up a module, and the second try
\* never stops at an entry it cannot trust.
RefusedOnlyWhenFull ==
  [][(pc \in {"copy", "index"} /\ pc' = "idle") =>
       \/ MapThenSumSet(LAMBDA j : Size[j], OtherItems(op.item)) + Size[op.item] > Room
       \/ Cardinality(OtherItems(op.item)) = Slots]_vars
=============================================================================
