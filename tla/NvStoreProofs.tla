--------------------------- MODULE NvStoreProofs ---------------------------
(***************************************************************************)
(* For any items, sizes, slots and power cuts, and as long as a flag of    *)
(* two bytes is not torn: the two sectors of an NV module hand over to     *)
(* each other without a gap, so that one can always be found, and they are *)
(* a map that is written one item at a time, all or nothing.  That what is *)
(* put into a sector fits it holds with torn flags too.                    *)
(***************************************************************************)
EXTENDS NvStore, FiniteSetTheorems, SequenceTheorems, TLAPS

\* The shape of the two sectors, whatever is in their indexes.
Shape ==
  /\ sect = [s \in Sectors |-> sect[s]]
  /\ \A s \in Sectors : sect[s] = [flag |-> sect[s].flag, index |-> sect[s].index]
  /\ at \in Sectors

Filling == {"index", "content", "flag", "drop"}

\* Whose flag a request relies on while it works: its own sector until it has
\* moved, the other one until its own is announced, its own from then on.
HandOver ==
  /\ pc = "adopt" => sect[at].flag = "ready"
  /\ pc = "place" /\ Chosen # NoSector => sect[at].flag = "valid"
  /\ pc \in Filling /\ ~moved /\ Chosen # NoSector => sect[at].flag = "valid"
  /\ pc = "copy" => moved /\ (Chosen # NoSector => Usable(Other(at)))
  /\ pc \in Filling /\ moved /\ Chosen # NoSector => Usable(Other(at))
  /\ pc = "announce" /\ Chosen # NoSector => Usable(Other(at))
  /\ pc \in {"retire", "confirm"} => sect[at].flag = "ready"
  /\ pc = "name" /\ Chosen # NoSector => sect[at].flag = "valid"
  /\ pc \in {"erase0", "erase1", "clear"} => resetting

NvInv == Shape /\ HandOver

\* A sector is found exactly if one of the two is usable.
LEMMA ChosenIsUsable ==
  /\ Chosen # NoSector <=> Usable(0) \/ Usable(1)
  /\ Chosen # NoSector => Chosen \in Sectors /\ Usable(Chosen)
BY DEF Chosen, NoSector, Sectors

LEMMA InvInitially == Init => NvInv
BY DEF Init, NvInv, Shape, HandOver, ErasedSector, Sector, Sectors, Filling

(***************************************************************************)
(* What the operations on flash do to the flags.                           *)
(***************************************************************************)
ShapeOf(S) ==
  /\ S = [s \in Sectors |-> S[s]]
  /\ \A s \in Sectors : S[s] = [flag |-> S[s].flag, index |-> S[s].index]

\* S is sect with another flag for sector s.
Reflagged(S, s, f) ==
  ShapeOf(S) /\ S[s].flag = f /\ S[Other(s)].flag = sect[Other(s)].flag

SameFlags(S) ==
  ShapeOf(S) /\ \A s \in Sectors : S[s].flag = sect[s].flag

LEMMA SectorUpdates ==
  ASSUME Shape, NEW s \in Sectors
  PROVE  \A f, x : Reflagged([sect EXCEPT ![s] = Sector(f, x)], s, f)
<1> SUFFICES ASSUME NEW f, NEW x
             PROVE  Reflagged([sect EXCEPT ![s] = Sector(f, x)], s, f)
  OBVIOUS
<1> DEFINE S == [sect EXCEPT ![s] = Sector(f, x)]
<1>1. S = [t \in Sectors |-> IF t = s THEN Sector(f, x) ELSE sect[t]]
  BY DEF Shape
<1>2. /\ Other(s) \in Sectors /\ Other(s) # s
      /\ \A t \in Sectors : t = s \/ t = Other(s)
  BY DEF Sectors, Other
<1>3. S[s] = Sector(f, x) /\ S[Other(s)] = sect[Other(s)]
  BY <1>1, <1>2
<1>4. S = [t \in Sectors |-> S[t]]
  BY <1>1
<1> HIDE DEF S
<1>5. \A t \in Sectors : S[t] = [flag |-> S[t].flag, index |-> S[t].index]
  BY <1>2, <1>3 DEF Shape, Sector
<1>6. S[s].flag = f
  BY <1>3 DEF Sector
<1> QED
  BY <1>3, <1>4, <1>5, <1>6 DEF Reflagged, ShapeOf, S

LEMMA FlagUpdates ==
  ASSUME Shape, NEW s \in Sectors, NEW f
  PROVE  /\ Reflagged(Flagged(s, f), s, f)
         /\ Reflagged(Spoilt(s, f), s, f)
         /\ Reflagged(Erased(s), s, "erased")
BY SectorUpdates DEF Flagged, Spoilt, Erased, ErasedSector

LEMMA IndexUpdates ==
  ASSUME Shape
  PROVE  /\ SameFlags(sect)
         /\ \A X : SameFlags(Indexed(at, X))
         /\ \A e : SameFlags(Appended(at, e)) /\ SameFlags(WithLast(at, e))
         /\ \A k : SameFlags(MarkedInvalid(at, k))
BY DEF Shape, ShapeOf, SameFlags, Indexed, Sector, Appended, WithLast, MarkedInvalid, Sectors

(***************************************************************************)
(* One step of each kind keeps the invariant, and keeps a sector to find.  *)
(***************************************************************************)
Kept == Chosen # NoSector => Chosen' # NoSector \/ resetting'

UsableFlags == {"ready", "valid"}

LEMMA FoundByFlags ==
  /\ Chosen # NoSector <=> \E s \in Sectors : sect[s].flag \in UsableFlags
  /\ Chosen' # NoSector <=> \E s \in Sectors : sect'[s].flag \in UsableFlags
BY DEF Chosen, NoSector, Usable, UsableFlags, Sectors

LEMMA TwoSectors ==
  \A s \in Sectors : /\ Other(s) \in Sectors /\ Other(s) # s /\ Other(Other(s)) = s
                     /\ \A t \in Sectors : t = s \/ t = Other(s)
BY DEF Sectors, Other

LEMMA RequestSteps ==
  ASSUME NvInv, (\E i \in Items, v \in Values : Write(i, v)) \/ ReadRepairs
  PROVE  NvInv' /\ Kept
<1>1. sect' = sect /\ at' = at /\ resetting' = resetting /\ pc' = "search"
  BY DEF Write, ReadRepairs
<1>2. Kept
  BY <1>1, FoundByFlags DEF Kept
<1> QED
  BY <1>1, <1>2 DEF NvInv, Shape, HandOver, Filling

LEMMA SearchStep ==
  ASSUME NvInv, Search
  PROVE  NvInv' /\ Kept
<1> USE DEF NvInv
<1>1. CASE Chosen = NoSector
  <2>1. Reflagged(sect', 0, "erased") /\ at' = 0 /\ pc' = "place"
    BY <1>1, FlagUpdates DEF Search, Sectors
  <2>2. \A s \in Sectors : sect'[s].flag \notin UsableFlags
    BY <2>1, <1>1, FoundByFlags DEF Reflagged, Sectors, Other, UsableFlags
  <2> QED
    BY <2>1, <2>2, <1>1, FoundByFlags
       DEF Reflagged, ShapeOf, Shape, HandOver, Kept, Filling, Sectors
<1>2. CASE Chosen # NoSector /\ sect[Chosen].flag = "valid"
  <2>1. Chosen \in Sectors
    BY <1>2, ChosenIsUsable
  <2>2. sect' = sect /\ at' = Chosen /\ pc' = "place"
    BY <1>2 DEF Search
  <2> QED
    BY <2>1, <2>2, <1>2, FoundByFlags DEF Shape, HandOver, Kept, Filling
<1>3. CASE Chosen # NoSector /\ sect[Chosen].flag = "ready"
  <2>1. Chosen \in Sectors
    BY <1>3, ChosenIsUsable
  <2>2. Reflagged(sect', Other(Chosen), "invalid") /\ at' = Chosen /\ pc' = "adopt"
    BY <1>3, <2>1, FlagUpdates, TwoSectors DEF Search, Spoilt
  <2>3. sect'[Chosen].flag = "ready"
    BY <2>1, <2>2, <1>3, TwoSectors DEF Reflagged
  <2> QED
    BY <2>1, <2>2, <2>3, FoundByFlags
       DEF Reflagged, ShapeOf, Shape, HandOver, Kept, Filling, UsableFlags
<1> QED
  BY <1>1, <1>2, <1>3 DEF Search

\* A step that writes the flag of the sector it works on, and makes it usable.
LEMMA FlagSteps ==
  ASSUME NvInv, Adopt \/ Announce \/ Confirm
  PROVE  NvInv' /\ Kept
<1> USE DEF NvInv
<1>1. PICK f \in UsableFlags : Reflagged(sect', at, f)
  BY FlagUpdates DEF Adopt, Announce, Confirm, UsableFlags, Shape
<1>2. at' = at /\ at \in Sectors /\ sect'[at].flag \in UsableFlags
  BY <1>1 DEF Adopt, Announce, Confirm, Shape, Reflagged
<1>3. Shape'
  BY <1>1, <1>2 DEF Reflagged, ShapeOf, Shape
<1>4. Kept
  BY <1>2, FoundByFlags DEF Kept
<1>5. CASE Adopt
  <2>1. Reflagged(sect', at, "valid") /\ pc' \in {"place", "idle"}
    BY <1>5, FlagUpdates DEF Adopt, Shape
  <2> QED
    BY <2>1, <1>2, <1>3, <1>4 DEF HandOver, Filling, Reflagged
<1>6. CASE Announce
  <2>1. Reflagged(sect', at, "ready") /\ pc' = "retire"
    BY <1>6, FlagUpdates DEF Announce, Shape
  <2> QED
    BY <2>1, <1>2, <1>3, <1>4 DEF HandOver, Filling, Reflagged
<1>7. CASE Confirm
  <2>1. pc' = "idle"
    BY <1>7 DEF Confirm, Finish
  <2> QED
    BY <2>1, <1>3, <1>4 DEF HandOver, Filling
<1> QED
  BY <1>5, <1>6, <1>7

LEMMA PlaceStep ==
  ASSUME NvInv, Place
  PROVE  NvInv' /\ Kept
<1> USE DEF NvInv
<1>1. CASE pc' = "copy"
  <2>1. Reflagged(sect', Other(at), "erased") /\ at' = Other(at)
    BY <1>1, FlagUpdates, TwoSectors DEF Place, Shape
  <2>2. /\ at \in Sectors /\ at' \in Sectors
        /\ Other(at') = at /\ sect'[at].flag = sect[at].flag
        /\ sect'[at'].flag \notin UsableFlags
    BY <2>1, TwoSectors DEF Reflagged, Shape, UsableFlags
  <2>3. Shape'
    BY <2>1, <2>2 DEF Reflagged, ShapeOf, Shape
  <2>4. Chosen # NoSector => sect'[at].flag = "valid"
    BY <2>2 DEF HandOver, Place
  <2>5. Chosen' # NoSector => sect'[at].flag \in UsableFlags
    BY <2>2, FoundByFlags, TwoSectors
  <2>6. Kept
    BY <2>2, <2>4, FoundByFlags DEF Kept, UsableFlags
  <2>7. moved'
    BY <1>1 DEF Place
  <2>8. HandOver'
    BY <1>1, <2>2, <2>5, <2>7 DEF HandOver, Filling, Usable, UsableFlags, Other
  <2> QED
    BY <2>3, <2>6, <2>8
<1>2. CASE pc' # "copy"
  <2>1. sect' = sect /\ at' = at /\ pc' = "index" /\ moved' = FALSE
    BY <1>2 DEF Place
  <2>2. Chosen' # NoSector <=> Chosen # NoSector
    BY <2>1, FoundByFlags
  <2> QED
    BY <2>1, <2>2 DEF Place, Shape, HandOver, Kept, Filling
<1> QED
  BY <1>1, <1>2

\* A step that changes the index of the sector it works on, and no flag.
LEMMA IndexSteps ==
  ASSUME NvInv, Copy \/ Index \/ Content \/ Flag \/ Drop
  PROVE  NvInv' /\ Kept
<1> USE DEF NvInv
<1>1. SameFlags(sect')
  <2>1. ASSUME NEW X, sect' = Indexed(at, X) PROVE SameFlags(sect')
    BY <2>1, IndexUpdates
  <2>2. CASE Copy
    BY <2>1, <2>2, IndexUpdates DEF Copy
  <2>3. CASE Index
    BY <2>3, IndexUpdates DEF Index
  <2>4. CASE Content \/ Flag \/ Drop
    BY <2>4, IndexUpdates DEF Content, Flag, Drop
  <2> QED
    BY <2>2, <2>3, <2>4
<1>2. at' = at /\ moved' = moved /\ resetting' = resetting
  BY DEF Copy, Index, Content, Flag, Drop
<1>3. Shape'
  BY <1>1, <1>2 DEF SameFlags, ShapeOf, Shape
<1>4. \A s \in Sectors : sect'[s].flag = sect[s].flag
  BY <1>1 DEF SameFlags
<1>5. Chosen' # NoSector <=> Chosen # NoSector
  BY <1>4, FoundByFlags
<1>6. Usable(Other(at))' <=> Usable(Other(at))
  BY <1>2, <1>4, TwoSectors DEF Usable, Shape, Other
<1>7. \/ pc = "copy" /\ moved /\ pc' \in {"idle", "index"}
      \/ pc \in Filling /\ pc' \in {"idle", "search"}
      \/ pc \in Filling /\ pc' \in Filling
      \/ pc \in Filling /\ moved /\ pc' = "announce"
      \/ pc \in Filling /\ ~moved /\ pc' = "name"
  BY DEF HandOver, Copy, Index, Content, Flag, Drop, Closing, Finish, Filling
<1> QED
  BY <1>2, <1>3, <1>4, <1>5, <1>6, <1>7 DEF HandOver, Kept, Filling, Shape

LEMMA RetireStep ==
  ASSUME NvInv, Retire
  PROVE  NvInv' /\ Kept
<1> USE DEF NvInv
<1>1. Reflagged(sect', Other(at), "invalid") /\ at' = at /\ pc' = "confirm"
  BY FlagUpdates, TwoSectors DEF Retire, Shape
<1>2. sect'[at].flag = "ready" /\ at \in Sectors
  BY <1>1, TwoSectors DEF Reflagged, Shape, HandOver, Retire
<1> QED
  BY <1>1, <1>2, FoundByFlags
     DEF Reflagged, ShapeOf, Shape, HandOver, Kept, Filling, UsableFlags

LEMMA ResetSteps ==
  ASSUME NvInv, FactoryReset \/ ResetModule \/ ResetDone \/ Boot
  PROVE  NvInv' /\ Kept
<1> USE DEF NvInv
<1>1. CASE FactoryReset \/ ResetDone \/ Boot
  <2>1. sect' = sect /\ at' = at
    BY <1>1 DEF FactoryReset, ResetDone, Boot
  <2>2. \/ pc' = "idle"
        \/ pc' = "erase0" /\ resetting'
    BY <1>1 DEF FactoryReset, ResetDone, Boot
  <2> QED
    BY <2>1, <2>2, FoundByFlags DEF Shape, HandOver, Kept, Filling
<1>2. CASE ResetModule
  <2>1. PICK s \in Sectors : Reflagged(sect', s, "erased")
    BY <1>2, FlagUpdates DEF ResetModule, Sectors
  <2>2. at' = at /\ resetting' /\ pc' \in {"erase1", "clear"}
    BY <1>2 DEF ResetModule, HandOver
  <2>3. Shape'
    BY <2>1, <2>2 DEF Reflagged, ShapeOf, Shape
  <2>4. HandOver'
    BY <2>2 DEF HandOver, Filling
  <2> QED
    BY <2>2, <2>3, <2>4 DEF Kept
<1> QED
  BY <1>1, <1>2

(***************************************************************************)
(* Power fails.                                                            *)
(***************************************************************************)
\* What is torn of one flag leaves the other sector alone.
LEMMA HalfSteps ==
  ASSUME Shape, NEW s \in Sectors
  PROVE  /\ \A S \in HalfErased(s) : \E f : Reflagged(S, s, f)
         /\ \A S \in HalfFlagged(s) : \E f : Reflagged(S, s, f)
         /\ \A S \in HalfNamed(s) :
              S = sect \/ (sect[s].flag # "valid" /\ \E f : Reflagged(S, s, f))
<1>1. Reflagged(sect, s, sect[s].flag)
  BY DEF Shape, ShapeOf, Reflagged
<1> QED
  BY <1>1, FlagUpdates DEF HalfErased, HalfFlagged, HalfNamed

\* Torn flash has the flags it had, or one other flag in a sector that the
\* search does not need.
LEMMA TornFlags ==
  ASSUME NvInv, ~FlagTears, NEW S \in Torn
  PROVE  \/ SameFlags(S)
         \/ \E s \in Sectors : \E f :
              /\ Reflagged(S, s, f)
              /\ Chosen # NoSector => Usable(Other(s)) \/ resetting
<1> USE DEF NvInv
<1>1. at \in Sectors /\ Other(at) \in Sectors /\ Other(Other(at)) = at
  BY TwoSectors DEF Shape
<1>2. SameFlags(sect)
  BY IndexUpdates
<1>3. CASE pc = "search"
  <2>1. CASE Chosen = NoSector
    BY <1>3, <2>1, HalfSteps DEF Torn, Sectors
  <2>2. CASE Chosen # NoSector
    <3>1. Chosen \in Sectors /\ Usable(Chosen)
      BY <2>2, ChosenIsUsable
    <3> QED
      BY <1>3, <2>2, <3>1, HalfSteps, TwoSectors DEF Torn
  <2> QED
    BY <2>1, <2>2
<1>4. CASE pc = "place"
  <2>1. S = sect \/ S \in HalfErased(Other(at))
    BY <1>4 DEF Torn
  <2>2. Chosen # NoSector => Usable(at)
    BY <1>4 DEF HandOver, Usable
  <2> QED
    BY <1>1, <1>2, <2>1, <2>2, HalfSteps
<1>5. CASE pc \in Filling
  BY <1>5, <1>2, IndexUpdates DEF Torn, Filling
<1>6. CASE pc = "announce"
  BY <1>6, <1>1, HalfSteps DEF Torn, HandOver
<1>7. CASE pc = "name"
  BY <1>7, <1>1, <1>2, HalfSteps DEF Torn, HandOver
<1>8. CASE pc = "retire"
  BY <1>8, <1>1, HalfSteps DEF Torn, HandOver, Usable
<1>9. CASE pc \in {"erase0", "erase1"}
  <2>1. resetting
    BY <1>9 DEF HandOver
  <2> QED
    BY <1>9, <2>1, HalfSteps DEF Torn, Sectors
<1>10. CASE pc \notin Filling \cup
              {"search", "place", "announce", "name", "retire", "erase0", "erase1"}
  BY <1>10, <1>2 DEF Torn, Filling
<1> QED
  BY <1>3, <1>4, <1>5, <1>6, <1>7, <1>8, <1>9, <1>10

LEMMA PowerCutStep ==
  ASSUME NvInv, ~FlagTears, PowerCut
  PROVE  NvInv' /\ Kept
<1>1. sect' \in Torn /\ pc' = "off" /\ at' = 0
  BY DEF PowerCut
<1>2. HandOver'
  BY <1>1 DEF HandOver, Filling
<1>3. CASE SameFlags(sect')
  BY <1>1, <1>2, <1>3, FoundByFlags
     DEF SameFlags, ShapeOf, Shape, Sectors, NvInv, Kept
<1>4. ASSUME NEW s \in Sectors, NEW f,
             Reflagged(sect', s, f),
             Chosen # NoSector => Usable(Other(s)) \/ resetting
      PROVE  NvInv' /\ Kept
  <2>1. Shape'
    BY <1>1, <1>4 DEF Reflagged, ShapeOf, Shape, Sectors
  <2>2. ASSUME ~resetting PROVE Kept
    <3>1. Chosen # NoSector => sect'[Other(s)].flag \in UsableFlags
      BY <2>2, <1>4 DEF Reflagged, Usable, UsableFlags
    <3> QED
      BY <3>1, TwoSectors, FoundByFlags DEF Kept
  <2>3. ASSUME pc = "clear" PROVE Kept
    BY <2>3, <1>1, FoundByFlags DEF Kept, Torn
  <2>4. ASSUME resetting, pc # "clear" PROVE Kept
    BY <2>4 DEF Kept, PowerCut
  <2> QED
    BY <2>1, <2>2, <2>3, <2>4, <1>2 DEF NvInv
<1> QED
  BY <1>1, <1>3, <1>4, TornFlags

(***************************************************************************)
(* Every behaviour.                                                        *)
(***************************************************************************)
LEMMA Steps ==
  ASSUME NvInv, ~FlagTears, [Next]_vars
  PROVE  NvInv' /\ Kept
<1>1. CASE UNCHANGED vars
  BY <1>1, FoundByFlags
     DEF vars, NvInv, Shape, HandOver, Kept, Filling, Usable, Other
<1>2. CASE Next
  BY <1>2, RequestSteps, SearchStep, FlagSteps, PlaceStep, IndexSteps, RetireStep,
     ResetSteps, PowerCutStep DEF Next, Step
<1> QED
  BY <1>1, <1>2

\* Whatever is written, moved, reset and cut, the start after it finds a
\* sector: retiring the old one and making the new one valid leave no gap, for
\* any items, sizes and number of slots (nv_sector_read, drv_nv.c:204, and the
\* end of nv_flashWriteNewHandler, drv_nv.c:745).  A flag of two bytes must
\* not be torn while it becomes valid.
THEOREM SectorAlwaysFound ==
  ASSUME ~FlagTears
  PROVE  Spec => AlwaysASector
<1>1. Init => NvInv
  BY InvInitially
<1>2. NvInv /\ [Next]_vars => NvInv'
  BY Steps
<1>3. NvInv /\ [Next]_vars => [Chosen # NoSector => Chosen' # NoSector \/ resetting']_vars
  BY Steps DEF Kept
<1> QED
  BY <1>1, <1>2, <1>3, PTL DEF Spec, AlwaysASector

(***************************************************************************)
(* Numbers up to N.                                                        *)
(***************************************************************************)
Less == {p \in Nat \X Nat : p[1] < p[2]}

\* What holds of 0 and is passed on holds up to N: there is no first number it
\* does not hold of.
LEMMA UpTo ==
  ASSUME NEW N \in Nat, NEW G, 0 \in G, \A n \in 1 .. N : n - 1 \in G => n \in G
  PROVE  \A n \in 0 .. N : n \in G
<1> DEFINE T == {n \in 0 .. N : n \notin G}
<1> SUFFICES ASSUME T # {} PROVE FALSE
  OBVIOUS
<1>1. IsWellFoundedOn(Less, Nat)
  BY NatLessThanWellFounded DEF OpToRel, Less
<1>2. T \subseteq Nat
  OBVIOUS
<1>3. PICK m \in T : \A n \in T : ~(<<n, m>> \in Less)
  <2> HIDE DEF T
  <2> QED
    BY <1>1, <1>2, WFMin, Zenon
<1>4. m # 0 /\ m - 1 \in 0 .. N /\ m - 1 \in Nat /\ m \in Nat /\ m - 1 < m
  BY <1>3
<1>5. <<m - 1, m>> \in Less
  BY <1>4 DEF Less
<1>6. m - 1 \notin T
  BY <1>3, <1>5
<1>7. QED
  BY <1>3, <1>4, <1>6

\* s adds up the numbers a[1] to a[N].
SumsUp(s, a, N) == s[0] = 0 /\ \A n \in 1 .. N : s[n] = s[n - 1] + a[n]

LEMMA SumsExist ==
  ASSUME NEW N \in Nat, NEW a \in [1 .. N -> Nat]
  PROVE  \E s \in [0 .. N -> Nat] : SumsUp(s, a, N)
<1> DEFINE Good(m) == \E s \in [0 .. m -> Nat] : SumsUp(s, a, m)
           G == {m \in 0 .. N : Good(m)}
<1>1. Good(0)
  <2> DEFINE z == [n \in 0 .. 0 |-> 0]
  <2>1. z \in [0 .. 0 -> Nat] /\ SumsUp(z, a, 0)
    BY DEF SumsUp
  <2> HIDE DEF z
  <2>2. QED
    BY <2>1
<1>2. ASSUME NEW m \in 1 .. N, Good(m - 1) PROVE Good(m)
  <2>1. PICK s \in [0 .. m - 1 -> Nat] : SumsUp(s, a, m - 1)
    BY <1>2
  <2> DEFINE w == [n \in 0 .. m |-> IF n = m THEN s[m - 1] + a[m] ELSE s[n]]
  <2>2. w \in [0 .. m -> Nat] /\ w[0] = 0
    BY <2>1 DEF SumsUp
  <2>3. \A n \in 1 .. m : w[n] = w[n - 1] + a[n]
    BY <2>1 DEF SumsUp
  <2>4. QED
    BY <2>2, <2>3 DEF SumsUp
<1> HIDE DEF Good
<1>3. 0 \in G /\ \A n \in 1 .. N : n - 1 \in G => n \in G
  BY <1>1, <1>2
<1>4. \A n \in 0 .. N : n \in G
  <2> HIDE DEF G
  <2> QED
    BY <1>3, UpTo, Zenon
<1>5. Good(N)
  BY <1>4
<1>6. QED
  BY <1>5 DEF Good

LEMMA SumsUnique ==
  ASSUME NEW N \in Nat, NEW a, NEW s, NEW t, SumsUp(s, a, N), SumsUp(t, a, N)
  PROVE  \A n \in 0 .. N : s[n] = t[n]
<1> DEFINE G == {n \in 0 .. N : s[n] = t[n]}
<1>1. 0 \in G /\ \A n \in 1 .. N : n - 1 \in G => n \in G
  BY DEF SumsUp
<1>2. \A n \in 0 .. N : n \in G
  <2> HIDE DEF G
  <2> QED
    BY <1>1, UpTo, Zenon
<1>3. QED
  BY <1>2

\* The sizes of the entries, which Sums adds up.
Sizes(x) == [n \in 1 .. Len(x) |-> Size[x[n].item]]

LEMMA SizesType ==
  ASSUME NEW x \in Seq(Entry)
  PROVE  Len(x) \in Nat /\ Sizes(x) \in [1 .. Len(x) -> Nat]
<1>1. \A n \in 1 .. Len(x) : x[n] \in Entry
  OBVIOUS
<1>2. \A e \in Entry : e.item \in Items
  BY DEF Entry
<1>3. \A i \in Items : Size[i] \in Nat
  BY NvAssumption
<1>4. QED
  BY <1>1, <1>2, <1>3 DEF Sizes

LEMMA SumsDefined ==
  ASSUME NEW x \in Seq(Entry)
  PROVE  Sums(x) \in [0 .. Len(x) -> Nat] /\ SumsUp(Sums(x), Sizes(x), Len(x))
<1> DEFINE N == Len(x)
           Fits(f) == f = [n \in 0 .. N |-> IF n = 0 THEN 0 ELSE f[n - 1] + Size[x[n].item]]
           s == Sums(x)
<1>1. N \in Nat /\ Sizes(x) \in [1 .. N -> Nat]
  BY SizesType
<1>2. PICK u \in [0 .. N -> Nat] : SumsUp(u, Sizes(x), N)
  <2> HIDE DEF N
  <2> QED
    BY <1>1, SumsExist
<1>3. Fits(u)
  BY <1>2 DEF SumsUp, Sizes
<1>4. s = CHOOSE f : Fits(f)
  BY DEF Sums
<1>5. Fits(s)
  <2> HIDE DEF Fits, s
  <2> QED
    BY <1>3, <1>4
<1> HIDE DEF s
<1>6. SumsUp(s, Sizes(x), N)
  BY <1>1, <1>5 DEF SumsUp, Sizes
<1>7. \A n \in 0 .. N : s[n] = u[n]
  <2> HIDE DEF N
  <2> QED
    BY <1>1, <1>2, <1>6, SumsUnique
<1>8. s \in [0 .. N -> Nat]
  BY <1>5, <1>7
<1>9. QED
  BY <1>6, <1>8 DEF s

LEMMA UsedIs ==
  ASSUME NEW x \in Seq(Entry), NEW y \in Seq(Entry), Len(x) = Len(y),
         \A k \in 1 .. Len(x) : x[k].item = y[k].item
  PROVE  Used(x) = Used(y)
<1>1. Sizes(x) = Sizes(y)
  BY DEF Sizes
<1>2. \A n \in 0 .. Len(x) : Sums(x)[n] = Sums(y)[n]
  BY <1>1, SizesType, SumsDefined, SumsUnique
<1>3. Len(x) \in 0 .. Len(x)
  OBVIOUS
<1>4. QED
  BY <1>2, <1>3 DEF Used

LEMMA UsedTypes ==
  /\ Used(<<>>) = 0
  /\ \A x \in Seq(Entry) : Used(x) \in Nat
<1>1. <<>> \in Seq(Entry) /\ Len(<<>>) = 0
  OBVIOUS
<1>2. ASSUME NEW x \in Seq(Entry) PROVE Used(x) \in Nat
  <2>1. Len(x) \in 0 .. Len(x)
    OBVIOUS
  <2>2. QED
    BY <2>1, SumsDefined DEF Used
<1>3. QED
  BY <1>1, <1>2, SumsDefined DEF Used, SumsUp

LEMMA UsedAppend ==
  ASSUME NEW x \in Seq(Entry), NEW e \in Entry
  PROVE  Used(Append(x, e)) = Used(x) + Size[e.item]
<1> DEFINE y == Append(x, e)
           N == Len(x)
<1>1. y \in Seq(Entry) /\ Len(y) = N + 1 /\ y[N + 1] = e /\ \A k \in 1 .. N : y[k] = x[k]
  OBVIOUS
<1> HIDE DEF y
<1>2. N \in Nat /\ SumsUp(Sums(x), Sizes(x), N)
  BY SizesType, SumsDefined
<1>3. SumsUp(Sums(y), Sizes(y), N + 1)
  BY <1>1, SumsDefined
<1>4. SumsUp(Sums(y), Sizes(x), N)
  BY <1>1, <1>2, <1>3 DEF SumsUp, Sizes
<1>5. Sums(x)[N] = Sums(y)[N]
  <2>1. N \in 0 .. N
    BY <1>2
  <2> HIDE DEF N
  <2>2. QED
    BY <1>2, <1>4, <2>1, SumsUnique
<1>6. Sums(y)[N + 1] = Sums(y)[N] + Size[e.item]
  BY <1>1, <1>2, <1>3 DEF SumsUp, Sizes
<1>7. QED
  BY <1>1, <1>5, <1>6 DEF Used, y

(***************************************************************************)
(* Indexes.                                                                *)
(***************************************************************************)
LEMMA FrontIs ==
  ASSUME NEW x \in Seq(Entry), x # <<>>
  PROVE  /\ Front(x) \in Seq(Entry) /\ Len(Front(x)) = Len(x) - 1
         /\ \A k \in 1 .. Len(x) - 1 : Front(x)[k] = x[k]
<1> DEFINE m == Len(x) - 1
           f == SubSeq(x, 1, m)
<1>1. m \in Nat /\ \A k \in 1 .. m : x[k] \in Entry
  OBVIOUS
<1>2. /\ f \in Seq(Entry)
      /\ Len(f) = IF 1 <= m THEN m - 1 + 1 ELSE 0
      /\ \A k \in 1 .. m - 1 + 1 : f[k] = x[1 + k - 1]
  <2> HIDE DEF m
  <2> QED
    BY <1>1, SubSeqProperties
<1>3. Front(x) = f
  BY DEF Front
<1> HIDE DEF f, m
<1>4. Len(f) = m /\ \A k \in 1 .. m : f[k] = x[k]
  BY <1>1, <1>2
<1>5. QED
  BY <1>2, <1>3, <1>4 DEF m

LEMMA LastReplaced ==
  ASSUME NEW x \in Seq(Entry), x # <<>>, NEW e \in Entry
  PROVE  LET y == Append(Front(x), e)
         IN  /\ y \in Seq(Entry) /\ Len(y) = Len(x)
             /\ y[Len(x)] = e /\ \A k \in 1 .. Len(x) : k # Len(x) => y[k] = x[k]
<1>1. Len(x) \in Nat \ {0}
  OBVIOUS
<1>2. Front(x) \in Seq(Entry) /\ Len(Front(x)) = Len(x) - 1
      /\ \A k \in 1 .. Len(x) - 1 : Front(x)[k] = x[k]
  BY FrontIs
<1> HIDE DEF Front
<1>3. QED
  BY <1>1, <1>2

\* MarkedInvalid on an index.
Marking(x, k) == [x EXCEPT ![k] = [@ EXCEPT !.flag = "invalid", !.data = Missing]]

LEMMA EntryChanged ==
  ASSUME NEW x \in Seq(Entry), NEW k
  PROVE  /\ Marking(x, k) \in Seq(Entry) /\ Len(Marking(x, k)) = Len(x)
         /\ \A n \in 1 .. Len(x) : Marking(x, k)[n].item = x[n].item
         /\ \A n \in 1 .. Len(x) : n # k => Marking(x, k)[n] = x[n]
         /\ k \in 1 .. Len(x) => Marking(x, k)[k].flag = "invalid"
<1> DEFINE d == [x[k] EXCEPT !.flag = "invalid", !.data = Missing]
           y == [x EXCEPT ![k] = d]
<1>1. k \in 1 .. Len(x) => d \in Entry /\ d.item = x[k].item /\ d.flag = "invalid"
  <2> SUFFICES ASSUME k \in 1 .. Len(x)
               PROVE  d \in Entry /\ d.item = x[k].item /\ d.flag = "invalid"
    OBVIOUS
  <2>1. x[k] \in Entry
    OBVIOUS
  <2>2. QED
    BY <2>1 DEF Entry, Contents
<1> HIDE DEF d
<1>2. y \in Seq(Entry) /\ Len(y) = Len(x)
      /\ (\A n \in 1 .. Len(x) : n # k => y[n] = x[n])
      /\ (k \in 1 .. Len(x) => y[k] = d)
  <2>1. CASE k \in 1 .. Len(x)
    BY <1>1, <2>1, ExceptSeq
  <2>2. CASE k \notin 1 .. Len(x)
    <3>1. y = x
      BY <2>2, LenProperties
    <3>2. QED
      BY <2>2, <3>1
  <2>3. QED
    BY <2>1, <2>2
<1> HIDE DEF y
<1>3. QED
  BY <1>1, <1>2 DEF y, d, Marking

LEMMA EntrySpoilt ==
  ASSUME NEW x \in Seq(Entry), NEW k \in 1 .. Len(x)
  PROVE  Marking(x, k)[k].flag = "invalid"
BY EntryChanged, Zenon

\* The members of a set of numbers up to N can be put in order.
Increasing(s, c) == \A m, n \in 1 .. c : m < n => s[m] < s[n]

LEMMA InOrder ==
  ASSUME NEW N \in Nat, NEW S \in SUBSET (1 .. N)
  PROVE  /\ IsFiniteSet(S) /\ Cardinality(S) \in Nat
         /\ \E s \in [1 .. Cardinality(S) -> S] : Increasing(s, Cardinality(S))
<1> DEFINE Ordered(T) == \E s \in [1 .. Cardinality(T) -> T] : Increasing(s, Cardinality(T))
           Good(m) == \A T \in SUBSET (1 .. m) : Ordered(T)
           G == {m \in 0 .. N : Good(m)}
<1>1. \A m \in 0 .. N : IsFiniteSet(1 .. m)
  BY FS_Interval
<1>2. \A m \in 0 .. N : \A T \in SUBSET (1 .. m) : IsFiniteSet(T) /\ Cardinality(T) \in Nat
  BY <1>1, FS_Subset, FS_CardinalityType
<1>3. Good(0)
  <2>1. \A T \in SUBSET (1 .. 0) : T = {}
    OBVIOUS
  <2> DEFINE z == [n \in 1 .. 0 |-> 0]
  <2>2. z \in [1 .. 0 -> {}] /\ Increasing(z, 0)
    BY DEF Increasing
  <2> HIDE DEF z
  <2>3. Ordered({})
    BY <2>2, FS_EmptySet
  <2> HIDE DEF Ordered
  <2>4. QED
    BY <2>1, <2>3
<1>4. ASSUME NEW m \in 1 .. N, Good(m - 1) PROVE Good(m)
  <2> SUFFICES ASSUME NEW T \in SUBSET (1 .. m) PROVE Ordered(T)
    OBVIOUS
  <2>1. CASE m \notin T
    <3>1. T \in SUBSET (1 .. m - 1)
      BY <2>1
    <3>2. QED
      BY <3>1, <1>4
  <2>2. CASE m \in T
    <3> DEFINE U == T \ {m}
               c == Cardinality(U)
    <3>1. U \in SUBSET (1 .. m - 1)
      OBVIOUS
    <3>2. c \in Nat /\ Cardinality(T) = c + 1
      <4>1. IsFiniteSet(T) /\ Cardinality(T) \in Nat
        BY <1>2
      <4>2. c = Cardinality(T) - 1
        BY <4>1, <2>2, FS_RemoveElement
      <4>3. m - 1 \in 0 .. N
        OBVIOUS
      <4>4. c \in Nat
        BY <3>1, <4>3, <1>2
      <4> HIDE DEF c
      <4>5. QED
        BY <4>1, <4>2, <4>4
    <3>3. PICK s \in [1 .. c -> U] : Increasing(s, c)
      BY <3>1, <1>4
    <3> DEFINE w == [n \in 1 .. c + 1 |-> IF n = c + 1 THEN m ELSE s[n]]
    <3> HIDE DEF c
    <3>4. w \in [1 .. c + 1 -> T]
      BY <3>2, <3>3, <2>2
    <3>5. \A n \in 1 .. c : s[n] \in 1 .. m - 1
      BY <3>1, <3>3
    <3>6. Increasing(w, c + 1)
      BY <3>2, <3>3, <3>5 DEF Increasing
    <3> HIDE DEF w
    <3>7. QED
      BY <3>2, <3>4, <3>6
  <2>3. QED
    BY <2>1, <2>2
<1> HIDE DEF Good
<1>5. 0 \in G /\ \A n \in 1 .. N : n - 1 \in G => n \in G
  BY <1>3, <1>4
<1>6. \A n \in 0 .. N : n \in G
  <2> HIDE DEF G
  <2> QED
    BY <1>5, UpTo, Zenon
<1>7. Good(N)
  BY <1>6
<1>8. Ordered(S)
  BY <1>7 DEF Good
<1>9. QED
  BY <1>2, <1>8

(***************************************************************************)
(* The newest entry.                                                       *)
(***************************************************************************)
\* What a reader of the index gets for an item.
Held(index, i) ==
  IF ValidAt(index, i) = {} THEN None ELSE index[NewestOf(index, i)].data

LEMMA Greatest ==
  ASSUME NEW N \in Nat, NEW S \in SUBSET (1 .. N), S # {}
  PROVE  \E k \in S : \A l \in S : l <= k
<1> DEFINE Good(m) == \A T \in SUBSET (1 .. m) : T # {} => \E k \in T : \A l \in T : l <= k
           G == {m \in 0 .. N : Good(m)}
<1>1. Good(0)
  <2>1. \A T \in SUBSET (1 .. 0) : T = {}
    OBVIOUS
  <2>2. QED
    BY <2>1
<1>2. ASSUME NEW m \in 1 .. N, Good(m - 1) PROVE Good(m)
  <2> SUFFICES ASSUME NEW T \in SUBSET (1 .. m), T # {}
               PROVE  \E k \in T : \A l \in T : l <= k
    OBVIOUS
  <2>1. CASE m \in T
    BY <2>1
  <2>2. CASE m \notin T
    <3>1. T \in SUBSET (1 .. m - 1)
      BY <2>2
    <3>2. QED
      BY <3>1, <1>2
  <2>3. QED
    BY <2>1, <2>2
<1> HIDE DEF Good
<1>3. 0 \in G /\ \A n \in 1 .. N : n - 1 \in G => n \in G
  BY <1>1, <1>2
<1>4. \A n \in 0 .. N : n \in G
  <2> HIDE DEF G
  <2> QED
    BY <1>3, UpTo, Zenon
<1>5. Good(N)
  BY <1>4
<1>6. QED
  BY <1>5 DEF Good

LEMMA ValidPlaces ==
  ASSUME NEW x \in Seq(Entry), NEW i
  PROVE  /\ Len(x) \in Nat /\ DOMAIN x = 1 .. Len(x)
         /\ ValidAt(x, i) \in SUBSET (1 .. Len(x))
         /\ \A k : k \in ValidAt(x, i) <=>
              k \in 1 .. Len(x) /\ x[k].item = i /\ x[k].flag = "valid"
<1>1. Len(x) \in Nat /\ DOMAIN x = 1 .. Len(x)
  BY LenProperties
<1>2. QED
  BY <1>1 DEF ValidAt

\* The newest entry is the last valid one.
LEMMA NewestIs ==
  ASSUME NEW x \in Seq(Entry), NEW i
  PROVE  /\ ValidAt(x, i) # {} =>
              /\ NewestOf(x, i) \in ValidAt(x, i)
              /\ \A l \in ValidAt(x, i) : l <= NewestOf(x, i)
         /\ \A k \in ValidAt(x, i) :
              (\A l \in ValidAt(x, i) : l <= k) => NewestOf(x, i) = k
<1> DEFINE V == ValidAt(x, i)
           IsNewest(k) == \A l \in V : l <= k
           c == CHOOSE k \in V : IsNewest(k)
<1>1. Len(x) \in Nat /\ V \in SUBSET (1 .. Len(x))
  BY ValidPlaces
<1>2. ASSUME V # {} PROVE c \in V /\ IsNewest(c)
  <2> HIDE DEF V
  <2>1. \E k \in V : \A l \in V : l <= k
    BY <1>1, <1>2, Greatest
  <2>2. QED
    BY <2>1
<1>3. c = NewestOf(x, i)
  BY DEF NewestOf
<1>4. ASSUME NEW k \in V, IsNewest(k) PROVE c = k
  <2>1. c \in V /\ IsNewest(c)
    BY <1>2, <1>4
  <2> HIDE DEF V, c
  <2>2. c <= k /\ k <= c /\ c \in Nat /\ k \in Nat
    BY <1>1, <1>4, <2>1
  <2>3. QED
    BY <2>2
<1> HIDE DEF c
<1>5. QED
  BY <1>2, <1>3, <1>4

LEMMA HeldIs ==
  ASSUME NEW x \in Seq(Entry), NEW i
  PROVE  /\ ValidAt(x, i) = {} => Held(x, i) = None
         /\ \A k \in ValidAt(x, i) :
              (\A l \in ValidAt(x, i) : l <= k) => Held(x, i) = x[k].data
         /\ ValidAt(x, i) # {} =>
              \E k \in ValidAt(x, i) :
                (\A l \in ValidAt(x, i) : l <= k) /\ Held(x, i) = x[k].data
BY NewestIs DEF Held

LEMMA HeldSame ==
  ASSUME NEW x \in Seq(Entry), NEW y \in Seq(Entry), NEW i,
         ValidAt(x, i) = ValidAt(y, i),
         \A k \in ValidAt(x, i) : x[k].data = y[k].data
  PROVE  Held(x, i) = Held(y, i)
<1>1. CASE ValidAt(x, i) = {}
  BY <1>1, HeldIs
<1>2. CASE ValidAt(x, i) # {}
  <2>1. PICK k \in ValidAt(x, i) :
          (\A l \in ValidAt(x, i) : l <= k) /\ Held(x, i) = x[k].data
    BY <1>2, HeldIs
  <2>2. Held(y, i) = y[k].data
    BY <2>1, HeldIs
  <2>3. QED
    BY <2>1, <2>2
<1>3. QED
  BY <1>1, <1>2

\* Two indexes with the same valid entries of an item hold the same of it.
LEMMA ValidSame ==
  ASSUME NEW x \in Seq(Entry), NEW y \in Seq(Entry), NEW i,
         \A k \in 1 .. Len(x) :
           x[k].item = i /\ x[k].flag = "valid" => k \in 1 .. Len(y) /\ y[k] = x[k],
         \A k \in 1 .. Len(y) :
           y[k].item = i /\ y[k].flag = "valid" => k \in 1 .. Len(x) /\ x[k] = y[k]
  PROVE  ValidAt(y, i) = ValidAt(x, i) /\ Held(y, i) = Held(x, i)
<1>1. \A k : k \in ValidAt(x, i) => k \in ValidAt(y, i) /\ x[k] = y[k]
  BY ValidPlaces
<1>2. \A k : k \in ValidAt(y, i) => k \in ValidAt(x, i)
  BY ValidPlaces
<1>3. ValidAt(y, i) = ValidAt(x, i)
  <2> HIDE DEF ValidAt
  <2> QED
    BY <1>1, <1>2
<1>4. QED
  BY <1>1, <1>3, HeldSame

(***************************************************************************)
(* What moves to the other sector.                                         *)
(***************************************************************************)
LEMMA MovedIs ==
  ASSUME NEW x \in Seq(Entry), NEW i
  PROVE  LET y == Moved(x, i)
         IN  /\ y \in Seq(Entry) /\ Len(y) <= Len(x)
             /\ \A k \in 1 .. Len(y) : \E m \in 1 .. Len(x) : y[k] = x[m] /\ y[k].flag = "valid"
             /\ ValidAt(y, i) = {}
             /\ \A j : j # i => Held(y, j) = Held(x, j)
<1> DEFINE keep == {k \in DOMAIN x : /\ x[k].item # i
                                     /\ x[k].flag = "valid"
                                     /\ k = NewestOf(x, x[k].item)}
           c == Cardinality(keep)
           Ordered(s) == \A m, n \in DOMAIN s : m < n => s[m] < s[n]
           kept == CHOOSE s \in [1 .. c -> keep] : Ordered(s)
           y == [n \in 1 .. c |-> x[kept[n]]]
<1>1. Len(x) \in Nat /\ DOMAIN x = 1 .. Len(x) /\ \A k \in 1 .. Len(x) : x[k] \in Entry
  BY LenProperties
<1>2. keep \in SUBSET (1 .. Len(x))
  BY <1>1
<1>3. c \in Nat /\ IsFiniteSet(keep) /\ c <= Len(x)
  <2>1. IsFiniteSet(keep) /\ c \in Nat
    BY <1>1, <1>2, InOrder
  <2>2. IsFiniteSet(1 .. Len(x)) /\ Cardinality(1 .. Len(x)) = Len(x)
    <3>1. ASSUME NEW n \in Nat PROVE IsFiniteSet(1 .. n) /\ Cardinality(1 .. n) = n
      BY FS_Interval
    <3>2. QED
      BY <1>1, <3>1
  <2>3. c <= Len(x)
    BY <1>2, <2>2, FS_Subset
  <2>4. QED
    BY <2>1, <2>3
<1>4. kept \in [1 .. c -> keep] /\ \A m, n \in 1 .. c : m < n => kept[m] < kept[n]
  <2>1. PICK s \in [1 .. c -> keep] : Increasing(s, c)
    BY <1>1, <1>2, InOrder
  <2>2. Ordered(s)
    BY <2>1 DEF Increasing
  <2>3. kept \in [1 .. c -> keep] /\ Ordered(kept)
    BY <2>2
  <2>4. QED
    BY <2>3
<1>5. Moved(x, i) = y
  BY <1>4 DEF Moved
<1> HIDE DEF kept, c
<1>6. \A m, n \in 1 .. c : m # n => kept[m] # kept[n]
  BY <1>1, <1>2, <1>3, <1>4
<1>7. \A k \in keep : \E n \in 1 .. c : kept[n] = k
  <2>1. kept \in Injection(1 .. c, keep)
    BY <1>4, <1>6 DEF Injection, IsInjective
  <2>2. Cardinality(1 .. c) = c
    BY <1>3, FS_Interval
  <2>3. kept \in Surjection(1 .. c, keep)
    BY <1>3, <2>1, <2>2, FS_Injection DEF c
  <2>4. QED
    BY <2>3 DEF Surjection
<1>8. y \in Seq(Entry) /\ Len(y) = c /\ DOMAIN y = 1 .. c
  <2>1. y \in [1 .. c -> Entry]
    BY <1>1, <1>2, <1>4
  <2> HIDE DEF y
  <2>2. y \in Seq(Entry)
    BY <1>3, <2>1, SeqDef
  <2>3. QED
    BY <1>3, <2>1, <2>2
<1>9. \A n \in 1 .. c : /\ kept[n] \in 1 .. Len(x) /\ y[n] = x[kept[n]]
                        /\ y[n].item # i /\ y[n].flag = "valid"
                        /\ kept[n] = NewestOf(x, y[n].item)
  BY <1>1, <1>2, <1>4
<1> HIDE DEF y
<1>10. ValidAt(y, i) = {}
  BY <1>8, <1>9 DEF ValidAt
<1>11. ASSUME NEW j, j # i PROVE Held(y, j) = Held(x, j)
  <2>1. CASE ValidAt(x, j) = {}
    <3>1. ASSUME NEW n \in ValidAt(y, j) PROVE kept[n] \in ValidAt(x, j)
      <4>1. n \in 1 .. c /\ y[n].item = j /\ y[n].flag = "valid"
        BY <1>8, ValidPlaces
      <4>2. kept[n] \in 1 .. Len(x) /\ y[n] = x[kept[n]]
        BY <1>9, <4>1
      <4>3. QED
        BY <4>1, <4>2, ValidPlaces
    <3>2. QED
      BY <1>8, <2>1, <3>1, HeldIs
  <2>2. CASE ValidAt(x, j) # {}
    <3> DEFINE k == NewestOf(x, j)
    <3>1. k \in ValidAt(x, j) /\ \A l \in ValidAt(x, j) : l <= k
      BY <2>2, NewestIs
    <3>2. Held(x, j) = x[k].data
      BY <3>1, HeldIs
    <3>3. k \in keep
      <4>1. k \in 1 .. Len(x) /\ x[k].item = j /\ x[k].flag = "valid"
        <5> HIDE DEF k
        <5> QED
          BY <3>1, ValidPlaces
      <4>2. k = NewestOf(x, x[k].item)
        BY <4>1
      <4> HIDE DEF k
      <4>3. QED
        BY <1>1, <1>11, <4>1, <4>2
    <3>4. PICK n \in 1 .. c : kept[n] = k
      BY <1>7, <3>3
    <3>5. n \in ValidAt(y, j)
      <4>1. k \in ValidAt(x, j) => x[k].item = j
        <5> HIDE DEF k
        <5> QED
          BY ValidPlaces
      <4>2. y[n].item = j /\ y[n].flag = "valid"
        BY <1>9, <3>1, <3>4, <4>1
      <4>3. QED
        BY <1>8, <4>2, ValidPlaces
    <3>6. \A l \in ValidAt(y, j) : l = n
      BY <1>6, <1>8, <1>9, <3>4, ValidPlaces
    <3>7. Held(y, j) = y[n].data
      BY <1>8, <3>5, <3>6, HeldIs
    <3>8. QED
      BY <1>9, <3>2, <3>4, <3>7
  <2>3. QED
    BY <2>1, <2>2
<1>12. QED
  BY <1>3, <1>5, <1>8, <1>9, <1>10, <1>11

(***************************************************************************)
(* Types.                                                                  *)
(***************************************************************************)
SectorsType == [Sectors -> [flag : SectorFlags, index : Seq(Entry)]]

\* S is sect but for sector s, which has the flag f and the index x.
Becomes(S, s, f, x) ==
  /\ S \in SectorsType
  /\ S[s].flag = f /\ S[s].index = x /\ S[Other(s)] = sect[Other(s)]

LEMMA OneBecomes ==
  ASSUME sect \in SectorsType, NEW s \in Sectors, NEW f \in SectorFlags, NEW x \in Seq(Entry)
  PROVE  Becomes([sect EXCEPT ![s] = Sector(f, x)], s, f, x)
<1> DEFINE r == Sector(f, x)
           S == [sect EXCEPT ![s] = r]
<1>1. r \in [flag : SectorFlags, index : Seq(Entry)] /\ r.flag = f /\ r.index = x
  BY DEF Sector
<1> HIDE DEF r
<1>2. Other(s) \in Sectors /\ Other(s) # s
  BY DEF Sectors, Other
<1>3. S \in SectorsType /\ S[s] = r /\ S[Other(s)] = sect[Other(s)]
  BY <1>1, <1>2 DEF SectorsType
<1> HIDE DEF S
<1>4. Becomes(S, s, f, x)
  BY <1>1, <1>3 DEF Becomes
<1>5. QED
  BY <1>4 DEF S, r

\* The requests in the middle of a write.
Requested == {"place", "copy", "index", "content", "flag", "drop", "announce", "retire",
              "confirm", "name"}

\* An entry is added where there is room for it, and changed where it is.
RoomInv ==
  /\ TypeOK
  /\ pc \in Requested => Writing
  /\ Writing => op.value \in Values
  /\ pc = "search" /\ ~Writing => Chosen # NoSector /\ sect[Chosen].flag = "ready"
  /\ pc = "index" => /\ Len(sect[at].index) < Slots
                     /\ Used(sect[at].index) + Size[op.item] <= Room
  /\ pc \in {"content", "flag", "drop"} => sect[at].index # <<>>

SectorsFit(S) ==
  /\ S \in SectorsType
  /\ \A s \in Sectors : Len(S[s].index) <= Slots /\ Used(S[s].index) <= Room

LEMMA OneFits ==
  ASSUME SectorsFit(sect), NEW s \in Sectors, NEW f \in SectorFlags,
         NEW x \in Seq(Entry), Len(x) <= Slots, Used(x) <= Room
  PROVE  LET S == [sect EXCEPT ![s] = Sector(f, x)]
         IN  Becomes(S, s, f, x) /\ SectorsFit(S)
<1> DEFINE S == [sect EXCEPT ![s] = Sector(f, x)]
<1>1. Becomes(S, s, f, x)
  BY OneBecomes DEF SectorsFit
<1>2. Other(s) \in Sectors /\ \A t \in Sectors : t = s \/ t = Other(s)
  BY DEF Sectors, Other
<1> HIDE DEF S
<1>3. SectorsFit(S)
  BY <1>1, <1>2 DEF SectorsFit, Becomes
<1>4. QED
  BY <1>1, <1>3 DEF S

\* What the flag operations make of the sectors.
LEMMA FlagOperations ==
  ASSUME SectorsFit(sect), NEW s \in Sectors
  PROVE  /\ Becomes(Erased(s), s, "erased", <<>>) /\ SectorsFit(Erased(s))
         /\ \A f \in SectorFlags :
              /\ Becomes(Flagged(s, f), s, f, sect[s].index) /\ SectorsFit(Flagged(s, f))
              /\ Becomes(Spoilt(s, f), s, f, <<>>) /\ SectorsFit(Spoilt(s, f))
<1>1. <<>> \in Seq(Entry) /\ Len(<<>>) <= Slots /\ Used(<<>>) <= Room /\ "erased" \in SectorFlags
  BY UsedTypes, NvAssumption DEF SectorFlags
<1>2. /\ sect[s].index \in Seq(Entry)
      /\ Len(sect[s].index) <= Slots /\ Used(sect[s].index) <= Room
  BY DEF SectorsFit, SectorsType
<1>3. QED
  BY <1>1, <1>2, OneFits DEF Erased, ErasedSector, Flagged, Spoilt

\* What the operations on the index of a sector make of it.
LEMMA IndexOperations ==
  ASSUME SectorsFit(sect), NEW s \in Sectors
  PROVE  LET x == sect[s].index
             f == sect[s].flag
         IN  /\ f \in SectorFlags /\ x \in Seq(Entry)
             /\ \A e \in Entry :
                  Len(x) < Slots /\ Used(x) + Size[e.item] <= Room
                    => /\ Becomes(Appended(s, e), s, f, Append(x, e))
                       /\ SectorsFit(Appended(s, e))
             /\ \A e \in Entry :
                  x # <<>> /\ e.item = Last(x).item
                    => /\ Becomes(WithLast(s, e), s, f, Append(Front(x), e))
                       /\ SectorsFit(WithLast(s, e))
             /\ \A k : /\ Becomes(MarkedInvalid(s, k), s, f,
                            Marking(x, k))
                       /\ SectorsFit(MarkedInvalid(s, k))
<1> DEFINE x == sect[s].index
           f == sect[s].flag
<1>1. f \in SectorFlags /\ x \in Seq(Entry) /\ Len(x) <= Slots /\ Used(x) <= Room
  BY DEF SectorsFit, SectorsType
<1>2. ASSUME NEW y \in Seq(Entry), Len(y) <= Slots, Used(y) <= Room
      PROVE  Becomes(Indexed(s, y), s, f, y) /\ SectorsFit(Indexed(s, y))
  BY <1>1, <1>2, OneFits DEF Indexed
<1>3. ASSUME NEW e \in Entry, Len(x) < Slots, Used(x) + Size[e.item] <= Room
      PROVE  Becomes(Appended(s, e), s, f, Append(x, e)) /\ SectorsFit(Appended(s, e))
  <2> HIDE DEF x
  <2>1. Append(x, e) \in Seq(Entry) /\ Len(Append(x, e)) = Len(x) + 1 /\ Len(x) \in Nat
    BY <1>1
  <2>2. Len(Append(x, e)) <= Slots /\ Used(Append(x, e)) <= Room
    BY <1>1, <1>3, <2>1, UsedAppend, NvAssumption
  <2>3. QED
    BY <1>2, <2>1, <2>2 DEF Appended, x
<1>4. ASSUME NEW e \in Entry, x # <<>>, e.item = Last(x).item
      PROVE  Becomes(WithLast(s, e), s, f, Append(Front(x), e)) /\ SectorsFit(WithLast(s, e))
  <2> DEFINE y == Append(Front(x), e)
  <2> HIDE DEF x
  <2>1. /\ y \in Seq(Entry) /\ Len(y) = Len(x)
        /\ y[Len(x)] = e /\ \A k \in 1 .. Len(x) : k # Len(x) => y[k] = x[k]
    BY <1>1, <1>4, LastReplaced
  <2> HIDE DEF y
  <2>2. \A k \in 1 .. Len(x) : y[k].item = x[k].item
    BY <1>4, <2>1 DEF Last
  <2>3. Used(y) = Used(x)
    BY <1>1, <2>1, <2>2, UsedIs
  <2>4. QED
    BY <1>1, <1>2, <2>1, <2>3 DEF WithLast, x, y
<1>5. ASSUME NEW k
      PROVE  LET y == Marking(x, k)
             IN  Becomes(MarkedInvalid(s, k), s, f, y) /\ SectorsFit(MarkedInvalid(s, k))
  <2> DEFINE y == Marking(x, k)
  <2> HIDE DEF x
  <2>1. /\ y \in Seq(Entry) /\ Len(y) = Len(x)
        /\ \A n \in 1 .. Len(x) : y[n].item = x[n].item
    BY <1>1, EntryChanged
  <2>2. MarkedInvalid(s, k) = Indexed(s, y)
    BY DEF MarkedInvalid, Marking, x
  <2> HIDE DEF y
  <2>3. Used(y) = Used(x)
    BY <1>1, <2>1, UsedIs
  <2>4. Becomes(Indexed(s, y), s, f, y) /\ SectorsFit(Indexed(s, y))
    BY <1>1, <1>2, <2>1, <2>3
  <2>5. QED
    BY <2>2, <2>4 DEF y
<1> HIDE DEF x, f
<1>6. QED
  BY <1>1, <1>3, <1>4, <1>5 DEF x, f

\* TypeOK in two parts.
Request == [item : Items \cup {None}, value : Values \cup {None}, force : BOOLEAN]
Points ==
  {"idle", "search", "adopt", "place", "copy", "index", "content", "flag", "drop",
   "announce", "retire", "confirm", "name", "erase0", "erase1", "clear", "off"}

LEMMA TypesAre ==
  /\ TypeOK <=> /\ SectorsFit(sect)
                /\ pc \in Points /\ op \in Request
                /\ at \in Sectors /\ moved \in BOOLEAN /\ resetting \in BOOLEAN
  /\ TypeOK' <=> /\ SectorsFit(sect')
                 /\ pc' \in Points /\ op' \in Request
                 /\ at' \in Sectors /\ moved' \in BOOLEAN /\ resetting' \in BOOLEAN
BY Zenon DEF TypeOK, SectorsFit, SectorsType, Points, Request

LEMMA RoomInitially == Init => RoomInv
<1> SUFFICES ASSUME Init PROVE RoomInv
  OBVIOUS
<1>1. <<>> \in Seq(Entry) /\ Len(<<>>) = 0 /\ Used(<<>>) = 0
  BY UsedTypes
<1>2. \A s \in Sectors : sect[s].index = <<>> /\ sect[s].flag = "erased"
  BY DEF Init, ErasedSector, Sector
<1>3. sect \in SectorsType
  BY <1>1 DEF Init, ErasedSector, Sector, SectorsType, SectorFlags
<1>4. op \in [item : Items \cup {None}, value : Values \cup {None}, force : BOOLEAN]
      /\ op.item = None
  BY DEF Init, NoOp
<1>5. TypeOK
  <2>1. SectorsFit(sect)
    BY <1>1, <1>2, <1>3, NvAssumption DEF SectorsFit
  <2>2. QED
    BY <1>4, <2>1, TypesAre DEF Init, Request, Points, Sectors
<1>6. QED
  BY <1>4, <1>5 DEF Init, RoomInv, Requested, Writing

LEMMA RequestRoom ==
  ASSUME RoomInv, (\E i \in Items, v \in Values : Write(i, v)) \/ ReadRepairs
  PROVE  RoomInv'
<1>1. /\ sect' = sect /\ at' = at /\ moved' = moved /\ resetting' = resetting
      /\ pc' = "search"
  BY DEF Write, ReadRepairs
<1>2. op' \in Request /\ (Writing' => op'.value \in Values)
  <2>1. CASE ReadRepairs
    BY <2>1, TypesAre DEF ReadRepairs, RoomInv, Writing
  <2>2. ASSUME NEW i \in Items, NEW v \in Values, Write(i, v)
        PROVE  op' \in Request /\ op'.value \in Values
    BY <2>2 DEF Write, Request
  <2>3. QED
    BY <2>1, <2>2
<1>3. ~Writing' => Chosen' # NoSector /\ sect'[Chosen'].flag = "ready"
  <2>1. CASE ReadRepairs
    BY <2>1, <1>1 DEF ReadRepairs, Chosen, Usable
  <2>2. CASE \E i \in Items, v \in Values : Write(i, v)
    BY <2>2, NvAssumption DEF Write, Writing
  <2>3. QED
    BY <2>1, <2>2
<1>4. TypeOK'
  BY <1>1, <1>2, TypesAre DEF RoomInv, Points
<1>5. QED
  BY <1>1, <1>2, <1>3, <1>4 DEF RoomInv, Requested

LEMMA NothingChosen ==
  Chosen = NoSector \/ (Chosen \in Sectors /\ sect[Chosen].flag \in {"ready", "valid"})
BY DEF Chosen, NoSector, Sectors, Usable

LEMMA SearchRoom ==
  ASSUME RoomInv, Search
  PROVE  RoomInv'
<1>1. op' = op /\ moved' = moved /\ resetting' = resetting
  BY DEF Search
<1>2. SectorsFit(sect)
  BY TypesAre DEF RoomInv
<1>3. at' \in Sectors /\ SectorsFit(sect') /\ pc' \in {"place", "adopt"}
  <2>1. CASE Chosen = NoSector
    <3>1. 0 \in Sectors
      BY DEF Sectors
    <3>2. QED
      BY <2>1, <3>1, <1>2, FlagOperations DEF Search
  <2>2. CASE Chosen # NoSector
    <3>1. Chosen \in Sectors /\ Other(Chosen) \in Sectors /\ "invalid" \in SectorFlags
      BY <2>2, NothingChosen, TwoSectors DEF SectorFlags
    <3>2. QED
      BY <2>2, <3>1, <1>2, FlagOperations DEF Search
  <2>3. QED
    BY <2>1, <2>2
<1>4. pc' = "place" => Writing
  BY DEF Search, RoomInv
<1>5. TypeOK'
  BY <1>1, <1>3, TypesAre DEF RoomInv, Points
<1>6. QED
  BY <1>1, <1>3, <1>4, <1>5 DEF RoomInv, Requested, Writing

LEMMA FlagRoom ==
  ASSUME RoomInv, Adopt \/ Announce \/ Retire \/ Confirm
  PROVE  RoomInv'
<1>1. at' = at /\ moved' = moved /\ resetting' = resetting
  BY DEF Adopt, Announce, Retire, Confirm
<1>2. SectorsFit(sect) /\ at \in Sectors /\ Other(at) \in Sectors /\ op \in Request
  BY TypesAre, TwoSectors DEF RoomInv
<1>3. {"valid", "ready", "invalid"} \subseteq SectorFlags
  BY DEF SectorFlags
<1>4. SectorsFit(sect')
  BY <1>2, <1>3, FlagOperations DEF Adopt, Announce, Retire, Confirm
<1>5. NoOp \in Request /\ NoOp.item = None
  BY DEF NoOp, Request
<1>6. \/ op' = NoOp /\ pc' = "idle"
      \/ op' = op /\ pc' = "idle"
      \/ op' = op /\ pc' \in {"place", "retire", "confirm"} /\ Writing
  BY DEF Adopt, Announce, Retire, Confirm, Finish, RoomInv, Requested
<1>7. TypeOK'
  BY <1>1, <1>2, <1>4, <1>5, <1>6, TypesAre DEF RoomInv, Points
<1>8. QED
  BY <1>5, <1>6, <1>7 DEF RoomInv, Requested, Writing

LEMMA PlaceRoom ==
  ASSUME RoomInv, Place
  PROVE  RoomInv'
<1>1. op' = op /\ resetting' = resetting /\ pc' \in {"copy", "index"} /\ moved' \in BOOLEAN
  BY DEF Place
<1>2. SectorsFit(sect) /\ at \in Sectors /\ Other(at) \in Sectors /\ op \in Request /\ Writing
  BY TypesAre, TwoSectors DEF RoomInv, Place, Requested
<1>3. SectorsFit(sect') /\ at' \in Sectors
  BY <1>2, FlagOperations DEF Place
<1>4. TypeOK'
  BY <1>1, <1>2, <1>3, TypesAre DEF RoomInv, Points
<1>5. pc' = "index" => /\ Len(sect'[at'].index) < Slots
                       /\ Used(sect'[at'].index) + Size[op'.item] <= Room
  <2> SUFFICES ASSUME pc' = "index" PROVE /\ Len(sect[at].index) < Slots
                                          /\ Used(sect[at].index) + Size[op.item] <= Room
    BY <1>1 DEF Place
  <2> DEFINE x == sect[at].index
  <2>1. ~UsedUp(x)
    BY DEF Place
  <2>2. Len(x) <= Slots /\ Len(x) \in Nat /\ Used(x) \in Nat
    BY <1>2, UsedTypes DEF SectorsFit, SectorsType
  <2>3. op.item \in Items /\ Size[op.item] \in 1 .. Room
    BY <1>2, NvAssumption DEF Request, Writing
  <2> HIDE DEF x
  <2>4. CASE x = <<>>
    BY <2>3, <2>4, UsedTypes, NvAssumption DEF x
  <2>5. CASE x # <<>>
    BY <2>1, <2>2, <2>3, <2>5, NvAssumption DEF UsedUp, x
  <2>6. QED
    BY <2>4, <2>5
<1>6. QED
  BY <1>1, <1>2, <1>4, <1>5 DEF RoomInv, Requested, Writing

LEMMA CopyRoom ==
  ASSUME RoomInv, Copy
  PROVE  RoomInv'
<1>1. at' = at /\ moved' = moved /\ resetting' = resetting
  BY DEF Copy
<1>2. SectorsFit(sect) /\ at \in Sectors /\ Other(at) \in Sectors /\ op \in Request /\ Writing
  BY TypesAre, TwoSectors DEF RoomInv, Copy, Requested
<1> DEFINE old  == sect[Other(at)]
           live == IF old.flag = "valid" THEN Moved(old.index, op.item) ELSE <<>>
<1>3. live \in Seq(Entry) /\ Len(live) <= Slots /\ Len(live) \in Nat /\ Used(live) \in Nat
  <2>1. old.index \in Seq(Entry) /\ Len(old.index) <= Slots /\ Len(old.index) \in Nat
    BY <1>2 DEF SectorsFit, SectorsType
  <2>2. /\ Moved(old.index, op.item) \in Seq(Entry)
        /\ Len(Moved(old.index, op.item)) <= Len(old.index)
    BY <2>1, MovedIs
  <2>3. <<>> \in Seq(Entry) /\ Len(<<>>) = 0
    OBVIOUS
  <2>4. live \in Seq(Entry) /\ Len(live) <= Slots
    <3>1. CASE old.flag = "valid"
      <4>1. live = Moved(old.index, op.item)
        BY <3>1
      <4> HIDE DEF live, old
      <4>2. Len(live) \in Nat
        BY <2>2, <4>1
      <4>3. QED
        BY <2>1, <2>2, <4>1, <4>2, NvAssumption
    <3>2. CASE old.flag # "valid"
      BY <2>3, <3>2, NvAssumption
    <3>3. QED
      BY <3>1, <3>2
  <2> HIDE DEF live
  <2>5. QED
    BY <2>4, UsedTypes
<1>4. op.item \in Items /\ Size[op.item] \in Nat
  BY <1>2, NvAssumption DEF Request, Writing
<1>5. \/ sect' = sect /\ Finish
      \/ /\ Len(live) < Slots /\ Used(live) + Size[op.item] <= Room
         /\ sect' = Indexed(at, live) /\ pc' = "index" /\ op' = op
  <2>1. IF Len(live) = Slots \/ Used(live) + Size[op.item] > Room
        THEN Finish /\ UNCHANGED sect
        ELSE sect' = Indexed(at, live) /\ pc' = "index" /\ UNCHANGED op
    BY DEF Copy
  <2> HIDE DEF live
  <2>2. QED
    BY <1>3, <1>4, <2>1, NvAssumption
<1> HIDE DEF live, old
<1>6. CASE sect' = sect /\ Finish
  <2>1. NoOp \in Request /\ NoOp.item = None
    BY DEF NoOp, Request
  <2>2. TypeOK'
    BY <1>1, <1>2, <1>6, <2>1, TypesAre DEF RoomInv, Points, Finish
  <2>3. QED
    BY <1>6, <2>1, <2>2 DEF RoomInv, Requested, Writing, Finish
<1>7. CASE /\ Len(live) < Slots /\ Used(live) + Size[op.item] <= Room
           /\ sect' = Indexed(at, live) /\ pc' = "index" /\ op' = op
  <2>1. Used(live) <= Room
    BY <1>3, <1>4, <1>7, NvAssumption
  <2>2. sect[at].flag \in SectorFlags
    BY <1>2 DEF SectorsFit, SectorsType
  <2> DEFINE S == [sect EXCEPT ![at] = Sector(sect[at].flag, live)]
  <2>3. Becomes(S, at, sect[at].flag, live) /\ SectorsFit(S)
    BY <1>2, <1>3, <2>1, <2>2, OneFits
  <2>4. S = sect'
    BY <1>7 DEF Indexed
  <2> HIDE DEF S
  <2>5. SectorsFit(sect') /\ sect'[at].index = live
    BY <2>3, <2>4 DEF Becomes
  <2>6. TypeOK'
    BY <1>1, <1>2, <1>7, <2>5, TypesAre DEF RoomInv, Points
  <2>7. QED
    BY <1>1, <1>2, <1>7, <2>5, <2>6 DEF RoomInv, Requested, Writing
<1>8. QED
  BY <1>5, <1>6, <1>7

LEMMA NoOpType == NoOp \in Request /\ NoOp.item = None
BY DEF NoOp, Request

\* What stands in the sector a request works on.
LEMMA AtWork ==
  ASSUME RoomInv
  PROVE  /\ SectorsFit(sect) /\ at \in Sectors /\ op \in Request
         /\ sect[at].index \in Seq(Entry) /\ Len(sect[at].index) \in Nat
         /\ \A k \in 1 .. Len(sect[at].index) : sect[at].index[k] \in Entry
         /\ Writing => op.item \in Items /\ op.value \in Values
<1>1. SectorsFit(sect) /\ at \in Sectors /\ op \in Request
  BY TypesAre DEF RoomInv
<1>2. sect[at].index \in Seq(Entry)
  BY <1>1 DEF SectorsFit, SectorsType
<1>3. Writing => op.item \in Items /\ op.value \in Values
  BY <1>1 DEF RoomInv, Request, Writing
<1>4. QED
  BY <1>1, <1>2, <1>3

LEMMA NewEntries ==
  ASSUME NEW i \in Items
  PROVE  /\ [item |-> i, flag |-> "operation", data |-> Missing] \in Entry
         /\ [item |-> i, flag |-> "torn", data |-> Missing] \in Entry
BY DEF Entry, Contents

LEMMA ChangedEntries ==
  ASSUME NEW e \in Entry
  PROVE  /\ \A d \in Contents :
              [e EXCEPT !.data = d] \in Entry /\ [e EXCEPT !.data = d].item = e.item
         /\ \A f \in {"operation", "valid", "invalid", "torn"} :
              [e EXCEPT !.flag = f] \in Entry /\ [e EXCEPT !.flag = f].item = e.item
BY DEF Entry

LEMMA IndexRoom ==
  ASSUME RoomInv, Index
  PROVE  RoomInv'
<1>1. at' = at /\ moved' = moved /\ resetting' = resetting
  BY DEF Index
<1>2. Writing
  BY DEF RoomInv, Index, Requested
<1> DEFINE x == sect[at].index
           e == [item |-> op.item, flag |-> "operation", data |-> Missing]
<1>3. /\ SectorsFit(sect) /\ at \in Sectors /\ op \in Request /\ x \in Seq(Entry)
      /\ op.item \in Items /\ op.value \in Values
  BY <1>2, AtWork
<1>4. CASE Untrusted(x)
  <2>1. sect' = sect
    BY <1>4 DEF Index
  <2>2. \/ op' = NoOp /\ pc' = "idle"
        \/ op' = [op EXCEPT !.force = TRUE] /\ pc' = "search"
    BY <1>4 DEF Index, Finish
  <2>3. \/ op' \in Request /\ op'.item = None /\ pc' = "idle"
        \/ op' \in Request /\ op'.item = op.item /\ op'.value = op.value
    <3>1. CASE op' = NoOp /\ pc' = "idle"
      BY <3>1, NoOpType
    <3>2. CASE op' = [op EXCEPT !.force = TRUE]
      BY <1>3, <3>2 DEF Request
    <3>3. QED
      BY <2>2, <3>1, <3>2
  <2>4. TypeOK'
    BY <1>1, <1>3, <2>1, <2>2, <2>3, TypesAre DEF RoomInv, Points
  <2>5. QED
    BY <1>2, <1>3, <2>2, <2>3, <2>4 DEF RoomInv, Requested, Writing
<1>5. CASE ~Untrusted(x)
  <2>1. sect' = Appended(at, e) /\ pc' = "content" /\ op' = op
    BY <1>5 DEF Index
  <2>2. e \in Entry /\ e.item = op.item
    BY <1>3, NewEntries
  <2> HIDE DEF e
  <2>3. Len(x) < Slots /\ Used(x) + Size[e.item] <= Room
    BY <2>2 DEF RoomInv, Index
  <2>4. Becomes(sect', at, sect[at].flag, Append(x, e)) /\ SectorsFit(sect')
    BY <1>3, <2>1, <2>2, <2>3, IndexOperations
  <2>5. Append(x, e) # <<>>
    BY <1>3, <2>2, AppendProperties
  <2>6. sect'[at'].index # <<>>
    BY <1>1, <2>4, <2>5 DEF Becomes
  <2>7. TypeOK'
    BY <1>1, <1>3, <2>1, <2>4, TypesAre DEF RoomInv, Points
  <2>8. QED
    BY <1>2, <2>1, <2>6, <2>7 DEF RoomInv, Requested, Writing
<1>6. QED
  BY <1>4, <1>5

\* The last entry is changed, or an older one marked.
LEMMA LastChanges ==
  ASSUME RoomInv, pc \in {"content", "flag", "drop"}
  PROVE  /\ Writing /\ sect[at].index # <<>> /\ LastEntry(at) \in Entry
         /\ \A d \in Contents : SectorsFit(WithLast(at, [LastEntry(at) EXCEPT !.data = d]))
         /\ \A f \in {"operation", "valid", "invalid", "torn"} :
              SectorsFit(WithLast(at, [LastEntry(at) EXCEPT !.flag = f]))
         /\ \A k : SectorsFit(MarkedInvalid(at, k))
<1> DEFINE x == sect[at].index
<1>1. Writing /\ x # <<>>
  BY DEF RoomInv, Requested
<1>2. /\ SectorsFit(sect) /\ at \in Sectors /\ x \in Seq(Entry) /\ Len(x) \in Nat
      /\ \A k \in 1 .. Len(x) : x[k] \in Entry
  BY AtWork
<1>3. LastEntry(at) = Last(x)
  BY DEF LastEntry
<1> HIDE DEF x
<1>4. Last(x) \in Entry
  BY <1>1, <1>2 DEF Last
<1>5. \A d \in Contents : SectorsFit(WithLast(at, [LastEntry(at) EXCEPT !.data = d]))
  BY <1>1, <1>2, <1>3, <1>4, ChangedEntries, IndexOperations DEF x
<1>6. \A f \in {"operation", "valid", "invalid", "torn"} :
        SectorsFit(WithLast(at, [LastEntry(at) EXCEPT !.flag = f]))
  BY <1>1, <1>2, <1>3, <1>4, ChangedEntries, IndexOperations DEF x
<1>7. \A k : SectorsFit(MarkedInvalid(at, k))
  BY <1>2, IndexOperations
<1>8. QED
  BY <1>1, <1>3, <1>4, <1>5, <1>6, <1>7 DEF x

LEMMA EntryRoom ==
  ASSUME RoomInv, Content \/ Flag \/ Drop
  PROVE  RoomInv'
<1>1. at' = at /\ moved' = moved /\ resetting' = resetting
  BY DEF Content, Flag, Drop
<1>2. pc \in {"content", "flag", "drop"}
  BY DEF Content, Flag, Drop
<1>3. /\ SectorsFit(sect) /\ at \in Sectors /\ op \in Request /\ Writing
      /\ op.item \in Items /\ op.value \in Values
  BY <1>2, AtWork, LastChanges
<1>4. SectorsFit(sect')
  <2>1. CASE Content
    BY <1>2, <1>3, <2>1, LastChanges DEF Content, Contents
  <2>2. CASE Flag
    BY <1>2, <2>2, LastChanges DEF Flag
  <2>3. CASE Drop
    BY <1>2, <2>3, LastChanges DEF Drop
  <2>4. QED
    BY <2>1, <2>2, <2>3
<1>5. \/ op' = NoOp /\ pc' = "idle"
      \/ op' = op /\ pc' \in {"announce", "name"}
      \/ op' = op /\ pc' \in {"flag", "drop"}
  BY DEF Content, Flag, Drop, Closing, Finish
<1>6. pc' \in {"flag", "drop"} => sect'[at].index # <<>>
  <2> SUFFICES ASSUME pc' \in {"flag", "drop"} PROVE sect'[at].index # <<>>
    OBVIOUS
  <2>1. PICK e \in Entry : sect' = WithLast(at, e) /\ e.item = LastEntry(at).item
    <3>1. CASE Content
      BY <1>2, <1>3, <3>1, LastChanges, ChangedEntries DEF Content, Contents
    <3>2. CASE Flag
      BY <1>2, <3>2, LastChanges, ChangedEntries DEF Flag
    <3>3. CASE Drop
      BY <3>3 DEF Drop, Closing, Finish
    <3>4. QED
      BY <3>1, <3>2, <3>3
  <2> DEFINE x == sect[at].index
             y == Append(Front(x), e)
  <2>2. Becomes(sect', at, sect[at].flag, y)
    BY <1>2, <1>3, <2>1, LastChanges, IndexOperations DEF LastEntry
  <2>3. x \in Seq(Entry) /\ x # <<>>
    BY <1>2, AtWork, LastChanges
  <2>4. y \in Seq(Entry) /\ Len(y) = Len(x)
    <3> HIDE DEF x
    <3> QED
      BY <2>3, LastReplaced
  <2>5. y # <<>>
    <3> HIDE DEF x, y
    <3> QED
      BY <2>3, <2>4
  <2>6. QED
    BY <2>2, <2>5 DEF Becomes
<1>7. TypeOK'
  BY <1>1, <1>3, <1>4, <1>5, NoOpType, TypesAre DEF RoomInv, Points
<1>8. QED
  BY <1>1, <1>3, <1>5, <1>6, <1>7, NoOpType DEF RoomInv, Requested, Writing

LEMMA ResetRoom ==
  ASSUME RoomInv, FactoryReset \/ ResetModule \/ ResetDone \/ Boot
  PROVE  RoomInv'
<1>1. /\ op' = op /\ at' = at /\ moved' = moved /\ resetting' \in BOOLEAN
      /\ pc' \in {"idle", "erase0", "erase1", "clear"}
  BY TypesAre DEF FactoryReset, ResetModule, ResetDone, Boot, RoomInv
<1>2. SectorsFit(sect)
  BY TypesAre DEF RoomInv
<1>3. SectorsFit(sect')
  <2>1. CASE FactoryReset \/ ResetDone \/ Boot
    BY <1>2, <2>1 DEF FactoryReset, ResetDone, Boot
  <2>2. CASE ResetModule
    BY <1>2, <2>2, FlagOperations DEF ResetModule, Sectors
  <2>3. QED
    BY <2>1, <2>2
<1>4. TypeOK'
  BY <1>1, <1>3, TypesAre DEF RoomInv, Points
<1>5. QED
  BY <1>1, <1>4 DEF RoomInv, Requested, Writing

\* What is torn of a flag.
LEMMA HalvesFit ==
  ASSUME SectorsFit(sect), NEW s \in Sectors
  PROVE  \A S \in HalfErased(s) \cup HalfFlagged(s) \cup HalfNamed(s) : SectorsFit(S)
<1>1. sect[s].flag \in SectorFlags /\ "junk" \in SectorFlags
  BY DEF SectorsFit, SectorsType, SectorFlags
<1>2. QED
  BY <1>1, FlagOperations DEF HalfErased, HalfFlagged, HalfNamed

LEMMA TornFits ==
  ASSUME RoomInv, NEW S \in Torn
  PROVE  SectorsFit(S)
<1>1. SectorsFit(sect) /\ at \in Sectors /\ Other(at) \in Sectors /\ {0, 1} \subseteq Sectors
  BY AtWork, TwoSectors DEF Sectors
<1>2. CASE pc = "search"
  <2>1. Chosen # NoSector => Other(Chosen) \in Sectors
    BY NothingChosen, TwoSectors
  <2>2. QED
    BY <1>1, <1>2, <2>1, HalvesFit DEF Torn
<1>3. CASE pc \in {"place", "announce", "name", "retire", "adopt", "confirm", "erase0", "erase1"}
  BY <1>1, <1>3, HalvesFit DEF Torn
<1>4. CASE pc = "index"
  <2> DEFINE e == [item |-> op.item, flag |-> "torn", data |-> Missing]
  <2>1. S = sect \/ S = Appended(at, e)
    BY <1>4 DEF Torn
  <2>2. Writing
    BY <1>4 DEF RoomInv, Requested
  <2>3. e \in Entry /\ e.item = op.item
    BY <2>2, AtWork, NewEntries
  <2> HIDE DEF e
  <2>4. Len(sect[at].index) < Slots /\ Used(sect[at].index) + Size[e.item] <= Room
    BY <1>4, <2>3 DEF RoomInv
  <2>5. QED
    BY <1>1, <2>1, <2>3, <2>4, IndexOperations
<1>5. CASE pc \in {"content", "flag", "drop"}
  <2>1. \/ S = sect
        \/ S = WithLast(at, [LastEntry(at) EXCEPT !.data = TornHeader])
        \/ S = WithLast(at, [LastEntry(at) EXCEPT !.flag = "torn"])
        \/ S = MarkedInvalid(at, Replaced(at))
    BY <1>5 DEF Torn
  <2>2. QED
    BY <1>1, <1>5, <2>1, LastChanges DEF Contents
<1>6. CASE pc \notin {"search", "place", "announce", "name", "retire", "adopt", "confirm",
                      "erase0", "erase1", "index", "content", "flag", "drop"}
  BY <1>1, <1>6 DEF Torn
<1>7. QED
  BY <1>2, <1>3, <1>4, <1>5, <1>6

LEMMA PowerCutRoom ==
  ASSUME RoomInv, PowerCut
  PROVE  RoomInv'
<1>1. /\ sect' \in Torn /\ pc' = "off" /\ op' = NoOp /\ at' = 0 /\ moved' = FALSE
      /\ resetting' \in BOOLEAN
  BY TypesAre DEF PowerCut, RoomInv
<1>2. SectorsFit(sect')
  BY <1>1, TornFits
<1>3. TypeOK'
  BY <1>1, <1>2, NoOpType, TypesAre DEF Points, Sectors
<1>4. QED
  BY <1>1, <1>3, NoOpType DEF RoomInv, Requested, Writing

LEMMA RoomStep ==
  ASSUME RoomInv, [Next]_vars
  PROVE  RoomInv'
<1>1. CASE UNCHANGED vars
  BY <1>1 DEF vars, RoomInv, TypeOK, Requested, Writing, Chosen, Usable
<1>2. CASE Next
  BY <1>2, RequestRoom, SearchRoom, FlagRoom, PlaceRoom, CopyRoom, IndexRoom, EntryRoom,
     ResetRoom, PowerCutRoom DEF Next, Step
<1>3. QED
  BY <1>1, <1>2

\* Index and contents of a sector fit it, whatever is written, moved and cut and
\* whatever flags are torn: nv_flashWriteNewHandler looks before every entry
\* that there is a slot and room for it (drv_nv.c:603 to 642), and the items
\* that move take no more than they took before.
THEOREM NvTypes == Spec => []TypeOK
<1>1. RoomInv => TypeOK
  BY DEF RoomInv
<1>2. QED
  BY <1>1, RoomInitially, RoomStep, PTL DEF Spec

(***************************************************************************)
(* The sectors as a map.                                                   *)
(***************************************************************************)
Work == sect[at].index
Rest == sect[Other(at)].index

\* Valid entries have been written whole.
Whole(x) == \A k \in 1 .. Len(x) : x[k].flag = "valid" => x[k].data \in Values

\* Two indexes hold the same but for the item that is being written.
Agree(x, y) == \A j \in Items \ {op.item} : Held(x, j) = Held(y, j)

Between == {"idle", "off", "erase0", "erase1", "clear"}

\* Which sector a reader looks into while a request works, and what it finds.
Where ==
  /\ op.force => Chosen # NoSector
  /\ pc = "erase1" => ~Usable(0)
  /\ pc = "clear" => Chosen = NoSector
  /\ pc = "adopt" => Chosen = at /\ sect[at].flag = "ready" /\ ~Usable(Other(at))
  /\ pc = "place" => \/ Chosen = at /\ sect[at].flag = "valid"
                     \/ Chosen = NoSector /\ at = 0 /\ Work = <<>>
  /\ pc \in Filling \cup {"name"} /\ ~moved =>
       \/ Chosen = at /\ sect[at].flag = "valid"
       \/ /\ Chosen = NoSector /\ at = 0 /\ pc # "drop"
          /\ IF pc = "index" THEN Work = <<>> ELSE Len(Work) = 1
  /\ pc = "copy" => Chosen = Other(at) /\ sect[Other(at)].flag = "valid" /\ moved
  /\ pc \in Filling \cup {"announce"} /\ moved => Chosen = Other(at)
  /\ pc \in Filling \cup {"copy", "announce"} /\ moved => ~Usable(at)
  /\ pc \in {"retire", "confirm"} => sect[at].flag = "ready"
  /\ pc = "retire" => Usable(Other(at))
  /\ pc = "confirm" => ~Usable(Other(at))
  /\ pc = "announce" => moved
  /\ pc \in {"drop", "name"} => ~moved

What ==
  /\ \A s \in Sectors : Whole(sect[s].index)
  /\ pc \in Filling \cup {"announce"} /\ moved => Agree(Work, Rest)
  /\ pc = "retire" => Agree(Work, Rest)
  /\ pc \in {"index", "content", "flag"} /\ moved => ValidAt(Work, op.item) = {}
  /\ pc \in {"content", "flag"} =>
       LastEntry(at).item = op.item /\ LastEntry(at).flag = "operation"
  /\ pc = "flag" => LastEntry(at).data = op.value
  /\ pc = "drop" => /\ LastEntry(at).item = op.item /\ LastEntry(at).flag = "valid"
                    /\ LastEntry(at).data = op.value
                    /\ ValidAt(Front(Work), op.item) # {}
  /\ pc \in {"announce", "retire", "confirm", "name"} => Held(Work, op.item) = op.value

When ==
  /\ pc \in Between \/ ~Writing => op = NoOp
  /\ resetting => pc \in Between \ {"idle"}
  /\ pc \in {"erase0", "erase1", "clear"} => resetting

MapInv == Where /\ What /\ When

\* An entry that is not valid adds nothing to what an index holds.
LEMMA AppendHolds ==
  ASSUME NEW x \in Seq(Entry), NEW e \in Entry, e.flag # "valid"
  PROVE  LET y == Append(x, e)
         IN  /\ y \in Seq(Entry) /\ Len(y) = Len(x) + 1 /\ Last(y) = e
             /\ \A i : ValidAt(y, i) = ValidAt(x, i) /\ Held(y, i) = Held(x, i)
             /\ Whole(x) => Whole(y)
<1> DEFINE y == Append(x, e)
           N == Len(x)
<1>1. /\ y \in Seq(Entry) /\ Len(y) = N + 1 /\ y[N + 1] = e /\ N \in Nat
      /\ \A k \in 1 .. N : y[k] = x[k]
  BY AppendProperties, LenProperties
<1> HIDE DEF y
<1>2. ASSUME NEW i PROVE ValidAt(y, i) = ValidAt(x, i) /\ Held(y, i) = Held(x, i)
  <2>1. \A k \in 1 .. N : k \in 1 .. N + 1 /\ y[k] = x[k]
    BY <1>1
  <2>2. \A k \in 1 .. N + 1 : y[k].flag = "valid" => k \in 1 .. N
    BY <1>1
  <2>3. QED
    BY <1>1, <2>1, <2>2, ValidSame
<1>3. Whole(x) => Whole(y)
  BY <1>1 DEF Whole
<1>4. QED
  BY <1>1, <1>2, <1>3 DEF y, Last

\* The last entry, which was not valid, changes.
LEMMA LastHolds ==
  ASSUME NEW x \in Seq(Entry), x # <<>>, Last(x).flag # "valid", NEW e \in Entry
  PROVE  LET y == Append(Front(x), e)
         IN  /\ y \in Seq(Entry) /\ Len(y) = Len(x) /\ y # <<>> /\ Last(y) = e
             /\ e.flag # "valid" =>
                  /\ \A i : ValidAt(y, i) = ValidAt(x, i) /\ Held(y, i) = Held(x, i)
                  /\ Whole(x) => Whole(y)
             /\ e.flag = "valid" =>
                  /\ \A i : Held(y, i) = IF i = e.item THEN e.data ELSE Held(x, i)
                  /\ ValidAt(Front(y), e.item) = ValidAt(x, e.item)
                  /\ Whole(x) /\ e.data \in Values => Whole(y)
<1> DEFINE y == Append(Front(x), e)
           N == Len(x)
<1>1. /\ y \in Seq(Entry) /\ Len(y) = N /\ N \in Nat \ {0}
      /\ y[N] = e /\ \A k \in 1 .. N : k # N => y[k] = x[k]
  BY LastReplaced, LenProperties
<1>2. x[N].flag # "valid"
  BY DEF Last
<1> HIDE DEF y
<1>3. y # <<>> /\ Last(y) = e
  BY <1>1 DEF Last
<1>4. ASSUME e.flag # "valid"
      PROVE  /\ \A i : ValidAt(y, i) = ValidAt(x, i) /\ Held(y, i) = Held(x, i)
             /\ Whole(x) => Whole(y)
  <2>1. \A k \in 1 .. N : x[k].flag = "valid" => y[k] = x[k]
    BY <1>1, <1>2
  <2>2. \A k \in 1 .. N : y[k].flag = "valid" => y[k] = x[k]
    BY <1>1, <1>4
  <2>3. \A i : ValidAt(y, i) = ValidAt(x, i) /\ Held(y, i) = Held(x, i)
    BY <1>1, <2>1, <2>2, ValidSame
  <2>4. QED
    BY <1>1, <1>4, <2>3 DEF Whole
<1>5. ASSUME e.flag = "valid"
      PROVE  /\ \A i : Held(y, i) = IF i = e.item THEN e.data ELSE Held(x, i)
             /\ ValidAt(Front(y), e.item) = ValidAt(x, e.item)
             /\ Whole(x) /\ e.data \in Values => Whole(y)
  <2>1. Held(y, e.item) = e.data
    <3>1. N \in ValidAt(y, e.item) /\ \A l \in ValidAt(y, e.item) : l <= N
      BY <1>1, <1>5, ValidPlaces
    <3>2. QED
      BY <1>1, <3>1, HeldIs
  <2>2. ASSUME NEW i, i # e.item PROVE Held(y, i) = Held(x, i)
    <3>1. \A k \in 1 .. N : x[k].flag = "valid" => y[k] = x[k]
      BY <1>1, <1>2
    <3>2. \A k \in 1 .. N : y[k].item = i => y[k] = x[k]
      BY <1>1, <2>2
    <3>3. QED
      BY <1>1, <3>1, <3>2, ValidSame
  <2>3. ValidAt(Front(y), e.item) = ValidAt(x, e.item)
    <3> DEFINE z == Front(y)
    <3>1. z \in Seq(Entry) /\ Len(z) = N - 1 /\ \A k \in 1 .. N - 1 : z[k] = y[k]
      BY <1>1, <1>3, FrontIs
    <3> HIDE DEF z
    <3>2. \A k \in 1 .. N : x[k].flag = "valid" => k \in 1 .. N - 1 /\ z[k] = x[k]
      BY <1>1, <1>2, <3>1
    <3>3. \A k \in 1 .. N - 1 : k \in 1 .. N /\ z[k] = x[k]
      BY <1>1, <3>1
    <3>4. ValidAt(z, e.item) = ValidAt(x, e.item)
      BY <3>1, <3>2, <3>3, ValidSame
    <3>5. QED
      BY <3>4 DEF z
  <2>4. Whole(x) /\ e.data \in Values => Whole(y)
    BY <1>1 DEF Whole
  <2>5. QED
    BY <2>1, <2>2, <2>3, <2>4
<1>6. QED
  BY <1>1, <1>3, <1>4, <1>5 DEF y

\* An entry that a newer one replaces is marked.
LEMMA MarkHolds ==
  ASSUME NEW x \in Seq(Entry), NEW k \in 1 .. Len(x), NEW l \in 1 .. Len(x), k < l,
         x[k].item = x[l].item, x[l].flag = "valid"
  PROVE  LET y == Marking(x, k)
         IN  /\ y \in Seq(Entry) /\ Len(y) = Len(x)
             /\ \A i : Held(y, i) = Held(x, i)
             /\ Whole(x) => Whole(y)
<1> DEFINE y == Marking(x, k)
<1>1. y \in Seq(Entry)
  BY EntryChanged
<1>2. Len(y) = Len(x)
  BY EntryChanged
<1>3. \A n \in 1 .. Len(x) : n # k => y[n] = x[n]
  BY EntryChanged
<1>4. y[k].flag = "invalid"
  BY EntrySpoilt, Zenon
<1>5. Len(x) \in Nat
  BY LenProperties
<1> HIDE DEF y
<1>6. ASSUME NEW i PROVE Held(y, i) = Held(x, i)
  <2>1. ValidAt(y, i) = ValidAt(x, i) \ {k}
    BY <1>1, <1>2, <1>3, <1>4, ValidPlaces
  <2>2. CASE ValidAt(x, i) = {}
    BY <1>1, <1>2, <1>3, <1>4, <2>1, <2>2, HeldIs
  <2>3. CASE ValidAt(x, i) # {}
    <3>1. PICK m \in ValidAt(x, i) :
            (\A n \in ValidAt(x, i) : n <= m) /\ Held(x, i) = x[m].data
      BY <2>3, HeldIs
    <3>2. m # k
      <4> SUFFICES ASSUME m = k PROVE FALSE
        OBVIOUS
      <4>1. x[l].item = i
        BY <3>1, ValidPlaces
      <4>2. l \in ValidAt(x, i)
        BY <4>1, ValidPlaces
      <4>3. QED
        BY <3>1, <4>2
    <3>3. m \in ValidAt(y, i) /\ \A n \in ValidAt(y, i) : n <= m
      BY <2>1, <3>1, <3>2
    <3>4. Held(y, i) = y[m].data /\ m \in 1 .. Len(x)
      BY <1>1, <1>2, <1>3, <1>4, <3>1, <3>3, HeldIs, ValidPlaces
    <3>5. QED
      BY <1>1, <1>2, <1>3, <1>4, <3>1, <3>2, <3>4
  <2>4. QED
    BY <2>2, <2>3
<1>7. Whole(x) => Whole(y)
  BY <1>2, <1>3, <1>4 DEF Whole
<1>8. QED
  BY <1>1, <1>2, <1>6, <1>7 DEF y

(***************************************************************************)
(* What a reader finds after a step.                                       *)
(***************************************************************************)
\* The store that the sectors stand for.
Shows(i) == IF resetting THEN None ELSE Read(i)

Same    == \A i \in Items : Shows(i)' = Shows(i)
Written == \A i \in Items : Shows(i)' = IF i = op.item THEN op.value ELSE Shows(i)
SameOp  == op'.item = op.item /\ op'.value = op.value

\* What a step may do to the map.
Outcome ==
  \/ Same /\ (SameOp \/ op' = NoOp)
  \/ Writing /\ Written /\ (SameOp \/ op' = NoOp)
  \/ ~Writing /\ Same /\ op'.item \in Items /\ op'.value \in Values
  \/ op = NoOp /\ op' = NoOp /\ ~resetting /\ resetting'

\* A factory reset begins or ends between two writes, and what is in the store
\* when it ends is nothing.
Turns ==
  \/ resetting' = resetting
  \/ op = NoOp /\ op' = NoOp /\ ~resetting /\ resetting'
  \/ op = NoOp /\ op' = NoOp /\ resetting /\ ~resetting' /\ Same

\* What a write that ends with success leaves.
Answered == \A i \in Items : Acknowledged(i) => Read(i)' = op.value

LEMMA Reads ==
  /\ \A i : Read(i) = IF Chosen = NoSector THEN None ELSE Held(sect[Chosen].index, i)
  /\ \A i : Read(i)' = IF Chosen' = NoSector THEN None ELSE Held(sect'[Chosen'].index, i)
BY DEF Read, Held

LEMMA Picks ==
  /\ Chosen = IF sect[0].flag \in UsableFlags THEN 0
              ELSE IF sect[1].flag \in UsableFlags THEN 1 ELSE NoSector
  /\ Chosen' = IF sect'[0].flag \in UsableFlags THEN 0
               ELSE IF sect'[1].flag \in UsableFlags THEN 1 ELSE NoSector
BY DEF Chosen, Usable, UsableFlags

\* A sector keeps the kind of its flag.
LEMMA InPlace ==
  ASSUME NEW s \in Sectors, NEW f, NEW x, Becomes(sect', s, f, x),
         f \in UsableFlags <=> sect[s].flag \in UsableFlags
  PROVE  /\ Chosen' = Chosen
         /\ \A i : Read(i)' = IF Chosen = s THEN Held(x, i) ELSE Read(i)
<1>1. Chosen' = Chosen
  <2>1. \A t \in Sectors : sect'[t].flag \in UsableFlags <=> sect[t].flag \in UsableFlags
    BY TwoSectors DEF Becomes
  <2>2. QED
    BY <2>1, Picks DEF Sectors
<1>2. Chosen = s => sect'[Chosen].index = x /\ s # NoSector
  BY DEF Becomes, Sectors, NoSector
<1>3. Chosen # s /\ Chosen # NoSector => sect'[Chosen] = sect[Chosen]
  BY Picks DEF Becomes, Sectors, Other, NoSector
<1>4. ASSUME NEW i PROVE Read(i)' = IF Chosen = s THEN Held(x, i) ELSE Read(i)
  BY <1>1, <1>2, <1>3, Reads
<1>5. QED
  BY <1>1, <1>4

\* A sector that no reader looks into is spoilt.
LEMMA Unseen ==
  ASSUME NEW s \in Sectors, NEW f, NEW x, Becomes(sect', s, f, x),
         f \notin UsableFlags, Chosen # s
  PROVE  Chosen' = Chosen /\ \A i : Read(i)' = Read(i)
<1>1. Chosen' = Chosen
  BY Picks DEF Becomes, Sectors, Other, NoSector
<1>2. Chosen # NoSector => sect'[Chosen] = sect[Chosen]
  BY Picks DEF Becomes, Sectors, Other, NoSector
<1>3. QED
  BY <1>1, <1>2, Reads

\* Nothing of the map changes with the sectors and the factory reset.
LEMMA NothingChanges ==
  ASSUME sect' = sect, resetting' = resetting
  PROVE  Chosen' = Chosen /\ Same
<1>1. Chosen' = Chosen
  BY Picks
<1>2. QED
  BY <1>1, Reads DEF Same, Shows

LEMMA SameReads ==
  ASSUME resetting' = resetting, \A i \in Items : Read(i)' = Read(i)
  PROVE  Same
BY DEF Same, Shows

LEMMA WrittenReads ==
  ASSUME ~resetting, resetting' = resetting,
         \A i \in Items : Read(i)' = IF i = op.item THEN op.value ELSE Read(i)
  PROVE  Written
BY DEF Written, Shows

\* The valid entries of both sectors are whole after a step that changes one.
LEMMA StayWhole ==
  ASSUME What, NEW s \in Sectors, NEW f, NEW x, Becomes(sect', s, f, x),
         Whole(sect[s].index) => Whole(x)
  PROVE  \A t \in Sectors : Whole(sect'[t].index)
<1>1. Whole(x) /\ Whole(sect[Other(s)].index)
  BY TwoSectors DEF What
<1>2. \A t \in Sectors : t = s \/ t = Other(s)
  BY TwoSectors
<1>3. QED
  BY <1>1, <1>2 DEF Becomes

LEMMA EmptyWhole == Whole(<<>>)
BY DEF Whole

(***************************************************************************)
(* The steps of a request.                                                 *)
(***************************************************************************)
LEMMA RequestMap ==
  ASSUME RoomInv, MapInv, (\E i \in Items, v \in Values : Write(i, v)) \/ ReadRepairs
  PROVE  MapInv' /\ Outcome
<1>1. sect' = sect /\ at' = at /\ moved' = moved /\ resetting' = resetting
      /\ pc = "idle" /\ pc' = "search"
  BY DEF Write, ReadRepairs
<1>2. op = NoOp /\ ~resetting /\ ~Writing
  BY <1>1, NoOpType DEF MapInv, When, Between, Writing
<1>3. Same
  BY <1>1, NothingChanges
<1>4. \/ op' = op
      \/ op'.item \in Items /\ op'.value \in Values /\ op'.force = FALSE /\ op'.item # None
  <2>1. ASSUME NEW i \in Items, NEW v \in Values, Write(i, v)
        PROVE  op'.item \in Items /\ op'.value \in Values /\ op'.force = FALSE /\ op'.item # None
    BY <2>1, NvAssumption DEF Write
  <2>2. ReadRepairs => op' = op
    BY DEF ReadRepairs
  <2>3. QED
    BY <2>1, <2>2
<1>5. op'.force = FALSE
  BY <1>2, <1>4 DEF NoOp
<1>6. MapInv'
  <2>1. Where'
    BY <1>1, <1>5 DEF Where, Filling
  <2>2. What'
    BY <1>1 DEF What, MapInv, Filling
  <2>3. When'
    BY <1>1, <1>2, <1>4 DEF When, Between, Writing
  <2>4. QED
    BY <2>1, <2>2, <2>3 DEF MapInv
<1>7. QED
  BY <1>2, <1>3, <1>4, <1>6 DEF Outcome, SameOp

LEMMA SearchMap ==
  ASSUME RoomInv, MapInv, Search
  PROVE  MapInv' /\ Outcome
<1>1. pc = "search" /\ op' = op /\ moved' = moved /\ resetting' = resetting /\ ~resetting
  BY DEF Search, MapInv, When, Between
<1>2. SectorsFit(sect)
  BY AtWork
<1>3. CASE Chosen = NoSector
  <2>1. at' = 0 /\ sect' = Erased(0) /\ pc' = "place" /\ Writing /\ ~op.force
    BY <1>1, <1>3 DEF Search, RoomInv, MapInv, Where
  <2>2. Becomes(sect', 0, "erased", <<>>) /\ 0 \in Sectors
    BY <1>2, <2>1, FlagOperations DEF Sectors
  <2>3. Chosen' = Chosen /\ \A i : Read(i)' = Read(i)
    BY <1>3, <2>2, Unseen DEF UsableFlags, NoSector
  <2>4. Same
    BY <1>1, <2>3, SameReads
  <2>5. Where'
    BY <1>1, <1>3, <2>1, <2>2, <2>3 DEF Where, Filling, Becomes, Work
  <2>6. What'
    BY <1>1, <2>1, <2>2, StayWhole, EmptyWhole DEF What, MapInv, Filling
  <2>7. When'
    BY <1>1, <2>1 DEF When, MapInv, Between, Writing
  <2>8. QED
    BY <1>1, <2>4, <2>5, <2>6, <2>7 DEF MapInv, Outcome, SameOp
<1>4. CASE Chosen # NoSector /\ sect[Chosen].flag = "valid"
  <2>1. at' = Chosen /\ sect' = sect /\ pc' = "place" /\ Writing
    BY <1>1, <1>4 DEF Search, RoomInv
  <2>2. Chosen' = Chosen /\ Same
    BY <1>1, <2>1, NothingChanges
  <2>3. Where'
    BY <1>1, <1>4, <2>1, <2>2 DEF Where, Filling
  <2>4. What'
    BY <1>1, <2>1 DEF What, MapInv, Filling
  <2>5. When'
    BY <1>1, <2>1 DEF When, MapInv, Between, Writing
  <2>6. QED
    BY <1>1, <2>2, <2>3, <2>4, <2>5 DEF MapInv, Outcome, SameOp
<1>5. CASE Chosen # NoSector /\ sect[Chosen].flag = "ready"
  <2>1. at' = Chosen /\ sect' = Spoilt(Other(Chosen), "invalid") /\ pc' = "adopt"
    BY <1>1, <1>5 DEF Search
  <2>2. /\ Chosen \in Sectors /\ Other(Chosen) \in Sectors /\ "invalid" \in SectorFlags
        /\ Other(Other(Chosen)) = Chosen /\ Other(Chosen) # Chosen
    BY <1>5, NothingChosen, TwoSectors DEF SectorFlags
  <2>3. Becomes(sect', Other(Chosen), "invalid", <<>>)
    BY <1>2, <2>1, <2>2, FlagOperations
  <2>4. Chosen' = Chosen /\ \A i : Read(i)' = Read(i)
    BY <2>2, <2>3, Unseen DEF UsableFlags
  <2>5. Same
    BY <1>1, <2>4, SameReads
  <2>6. sect'[Chosen].flag = "ready" /\ sect'[Other(Chosen)].flag = "invalid"
    BY <1>5, <2>2, <2>3 DEF Becomes
  <2>7. Where'
    BY <1>1, <1>5, <2>1, <2>4, <2>6 DEF Where, MapInv, Filling, Usable
  <2>8. What'
    BY <1>1, <2>1, <2>2, <2>3, StayWhole, EmptyWhole DEF What, MapInv, Filling
  <2>9. When'
    BY <1>1, <2>1 DEF When, MapInv, Between, Writing
  <2>10. QED
    BY <1>1, <2>5, <2>7, <2>8, <2>9 DEF MapInv, Outcome, SameOp
<1>6. QED
  BY <1>1, <1>3, <1>4, <1>5 DEF Search

LEMMA AdoptMap ==
  ASSUME RoomInv, MapInv, Adopt
  PROVE  MapInv' /\ Outcome
<1>1. /\ pc = "adopt" /\ sect' = Flagged(at, "valid")
      /\ op' = op /\ at' = at /\ moved' = moved /\ resetting' = resetting /\ ~resetting
      /\ pc' = IF Writing THEN "place" ELSE "idle"
  BY DEF Adopt, MapInv, When, Between
<1>2. /\ Chosen = at /\ sect[at].flag = "ready" /\ ~Usable(Other(at))
      /\ op.force => Chosen # NoSector
  BY <1>1 DEF MapInv, Where
<1>3. SectorsFit(sect) /\ at \in Sectors /\ "valid" \in SectorFlags
  BY AtWork DEF SectorFlags
<1>4. Becomes(sect', at, "valid", Work)
  BY <1>1, <1>3, FlagOperations DEF Work
<1>5. Chosen' = Chosen /\ \A i : Read(i)' = Read(i)
  <2>1. \A i : Read(i) = Held(Work, i)
    BY <1>2, <1>3, Reads DEF Work, Sectors, NoSector
  <2>2. QED
    BY <1>2, <1>3, <1>4, <2>1, InPlace DEF UsableFlags
<1>6. Same
  BY <1>1, <1>5, SameReads
<1>7. Where'
  BY <1>1, <1>2, <1>4, <1>5 DEF Where, Filling, Becomes
<1>8. What'
  BY <1>1, <1>3, <1>4, StayWhole DEF What, MapInv, Filling, Work
<1>9. When'
  BY <1>1 DEF When, MapInv, Between, Writing
<1>10. QED
  BY <1>1, <1>6, <1>7, <1>8, <1>9 DEF MapInv, Outcome, SameOp

LEMMA PlaceMap ==
  ASSUME RoomInv, MapInv, Place
  PROVE  MapInv' /\ Outcome
<1>1. pc = "place" /\ op' = op /\ resetting' = resetting /\ ~resetting /\ Writing
  BY DEF Place, RoomInv, MapInv, When, Between, Requested
<1>2. /\ \/ Chosen = at /\ sect[at].flag = "valid"
         \/ Chosen = NoSector /\ at = 0 /\ Work = <<>>
      /\ op.force => Chosen # NoSector
  BY <1>1 DEF MapInv, Where
<1>3. /\ SectorsFit(sect) /\ at \in Sectors /\ Other(at) \in Sectors /\ Other(at) # at
      /\ Other(Other(at)) = at
  BY AtWork, TwoSectors
<1>4. When'
  <2>1. pc' \in {"copy", "index"}
    BY DEF Place
  <2>2. QED
    BY <1>1, <2>1 DEF When, MapInv, Between, Writing
<1>5. CASE op.force \/ UsedUp(Work)
  <2>1. at' = Other(at) /\ sect' = Erased(Other(at)) /\ moved' = TRUE /\ pc' = "copy"
    BY <1>5 DEF Place, Work
  <2>2. Chosen = at /\ sect[at].flag = "valid"
    BY <1>2, <1>5 DEF UsedUp
  <2>3. Becomes(sect', Other(at), "erased", <<>>)
    BY <1>3, <2>1, FlagOperations
  <2>4. Chosen' = Chosen /\ \A i : Read(i)' = Read(i)
    BY <1>3, <2>2, <2>3, Unseen DEF UsableFlags
  <2>5. Same
    BY <1>1, <2>4, SameReads
  <2>6. sect'[at].flag = "valid" /\ sect'[Other(at)].flag = "erased" /\ Other(at') = at
    BY <1>3, <2>1, <2>2, <2>3 DEF Becomes
  <2>7. Chosen # NoSector
    BY <1>3, <2>2 DEF Sectors, NoSector
  <2>8. Where'
    BY <1>1, <2>1, <2>2, <2>4, <2>6, <2>7 DEF Where, Filling, Usable
  <2>9. What'
    BY <1>3, <2>1, <2>3, StayWhole, EmptyWhole DEF What, MapInv, Filling
  <2>10. QED
    BY <1>1, <1>4, <2>5, <2>8, <2>9 DEF MapInv, Outcome, SameOp
<1>6. CASE ~(op.force \/ UsedUp(Work))
  <2>1. at' = at /\ sect' = sect /\ moved' = FALSE /\ pc' = "index"
    BY <1>6 DEF Place, Work
  <2>2. Chosen' = Chosen /\ Same
    BY <1>1, <2>1, NothingChanges
  <2>3. Where'
    BY <1>1, <1>2, <2>1, <2>2 DEF Where, Filling, Work
  <2>4. What'
    BY <2>1 DEF What, MapInv, Filling
  <2>5. QED
    BY <1>1, <1>4, <2>2, <2>3, <2>4 DEF MapInv, Outcome, SameOp
<1>7. QED
  BY <1>5, <1>6

LEMMA CopyMap ==
  ASSUME RoomInv, MapInv, Copy
  PROVE  MapInv' /\ Outcome
<1>1. /\ pc = "copy" /\ at' = at /\ moved' = moved /\ resetting' = resetting
      /\ ~resetting /\ Writing
  BY DEF Copy, RoomInv, MapInv, When, Between, Requested
<1>2. /\ Chosen = Other(at) /\ sect[Other(at)].flag = "valid" /\ moved /\ ~Usable(at)
  BY <1>1 DEF MapInv, Where
<1>3. /\ SectorsFit(sect) /\ at \in Sectors /\ Other(at) \in Sectors /\ Other(at) # at
      /\ sect[at].flag \in SectorFlags /\ Rest \in Seq(Entry)
  BY AtWork, TwoSectors DEF SectorsFit, SectorsType, Rest
<1> DEFINE live == Moved(Rest, op.item)
<1>4. \/ sect' = sect /\ Finish
      \/ sect' = Indexed(at, live) /\ pc' = "index" /\ op' = op
  BY <1>2 DEF Copy, Rest
<1>5. /\ live \in Seq(Entry)
      /\ \A k \in 1 .. Len(live) : \E m \in 1 .. Len(Rest) : live[k] = Rest[m]
      /\ ValidAt(live, op.item) = {}
      /\ \A j : j # op.item => Held(live, j) = Held(Rest, j)
  BY <1>3, MovedIs
<1> HIDE DEF live
<1>6. CASE sect' = sect /\ Finish
  <2>1. pc' = "idle" /\ op' = NoOp
    BY <1>6 DEF Finish
  <2>2. Chosen' = Chosen /\ Same
    BY <1>1, <1>6, NothingChanges
  <2>3. Where'
    BY <2>1 DEF Where, Filling, NoOp
  <2>4. What'
    BY <1>6, <2>1 DEF What, MapInv, Filling
  <2>5. When'
    BY <1>1, <2>1 DEF When
  <2>6. QED
    BY <2>1, <2>2, <2>3, <2>4, <2>5 DEF MapInv, Outcome
<1>7. CASE sect' = Indexed(at, live) /\ pc' = "index" /\ op' = op
  <2>1. Becomes(sect', at, sect[at].flag, live)
    BY <1>3, <1>5, <1>7, OneBecomes DEF Indexed, SectorsFit
  <2>2. Chosen' = Chosen /\ \A i : Read(i)' = Read(i)
    BY <1>2, <1>3, <2>1, InPlace
  <2>3. Same
    BY <1>1, <2>2, SameReads
  <2>4. Where'
    BY <1>1, <1>2, <1>3, <1>7, <2>1, <2>2 DEF Where, Filling, Becomes, Usable, Sectors, NoSector
  <2>5. Whole(live)
    <3>1. Whole(Rest)
      BY <1>3 DEF MapInv, What, Rest
    <3>2. QED
      BY <1>5, <3>1 DEF Whole
  <2>6. sect'[at].index = live /\ sect'[Other(at)].index = Rest
    BY <2>1 DEF Becomes, Rest
  <2>7. What'
    <3>1. \A t \in Sectors : Whole(sect'[t].index)
      BY <1>3, <2>1, <2>5, StayWhole DEF MapInv
    <3>2. QED
      BY <1>1, <1>5, <1>7, <2>6, <3>1 DEF What, Filling, Work, Rest, Agree
  <2>8. When'
    BY <1>1, <1>7 DEF When, MapInv, Between, Writing
  <2>9. QED
    BY <1>7, <2>3, <2>4, <2>7, <2>8 DEF MapInv, Outcome, SameOp
<1>8. QED
  BY <1>4, <1>6, <1>7

\* An index of the sector at work takes the place of another.
LEMMA WorkChanges ==
  ASSUME RoomInv, MapInv, NEW x, Becomes(sect', at, sect[at].flag, x)
  PROVE  /\ Chosen' = Chosen
         /\ at' = at => Work' = x /\ Rest' = Rest
         /\ \A s \in Sectors : sect'[s].flag = sect[s].flag
         /\ \A i : Read(i)' = IF Chosen = at THEN Held(x, i) ELSE Read(i)
         /\ Chosen = at => \A i : Read(i) = Held(Work, i)
         /\ (Whole(Work) => Whole(x)) => \A s \in Sectors : Whole(sect'[s].index)
<1>1. at \in Sectors /\ Other(at) \in Sectors /\ \A t \in Sectors : t = at \/ t = Other(at)
  BY AtWork, TwoSectors
<1>2. Chosen' = Chosen /\ \A i : Read(i)' = IF Chosen = at THEN Held(x, i) ELSE Read(i)
  BY <1>1, InPlace
<1>3. /\ at' = at => Work' = x /\ Rest' = Rest
      /\ \A s \in Sectors : sect'[s].flag = sect[s].flag
  BY <1>1 DEF Becomes, Work, Rest
<1>4. Chosen = at => \A i : Read(i) = Held(Work, i)
  BY <1>1, Reads DEF Work, Sectors, NoSector
<1>5. (Whole(Work) => Whole(x)) => \A s \in Sectors : Whole(sect'[s].index)
  BY <1>1, StayWhole DEF MapInv, Work
<1>6. QED
  BY <1>2, <1>3, <1>4, <1>5

LEMMA IndexMap ==
  ASSUME RoomInv, MapInv, Index
  PROVE  MapInv' /\ Outcome
<1>1. /\ pc = "index" /\ at' = at /\ moved' = moved /\ resetting' = resetting
      /\ ~resetting /\ Writing
  BY DEF Index, RoomInv, MapInv, When, Between, Requested
<1>2. /\ SectorsFit(sect) /\ at \in Sectors /\ Other(at) \in Sectors /\ Other(at) # at
      /\ Work \in Seq(Entry) /\ op.item \in Items
  BY <1>1, AtWork, TwoSectors DEF Work
<1>3. CASE Untrusted(Work)
  <2>1. sect' = sect
    BY <1>3 DEF Index, Work
  <2>2. \/ op' = NoOp /\ pc' = "idle"
        \/ op' = [op EXCEPT !.force = TRUE] /\ pc' = "search"
    BY <1>3 DEF Index, Finish, Work
  <2>3. Chosen' = Chosen /\ Same
    BY <1>1, <2>1, NothingChanges
  <2>4. Chosen # NoSector
    BY <1>1, <1>2, <1>3 DEF MapInv, Where, Filling, Untrusted, Sectors, NoSector
  <2>5. What'
    BY <2>1, <2>2 DEF What, MapInv, Filling
  <2>6. CASE op' = NoOp /\ pc' = "idle"
    <3>1. Where' /\ When'
      BY <1>1, <2>6 DEF Where, When, Filling, NoOp
    <3>2. QED
      BY <2>3, <2>5, <2>6, <3>1 DEF MapInv, Outcome
  <2>7. CASE op' = [op EXCEPT !.force = TRUE] /\ pc' = "search"
    <3>1. op'.item = op.item /\ op'.value = op.value
      BY <2>7, AtWork DEF Request
    <3>2. Where'
      BY <2>3, <2>4, <2>7 DEF Where, Filling
    <3>3. When'
      BY <1>1, <2>7, <3>1 DEF When, Between, Writing
    <3>4. QED
      BY <2>3, <2>5, <3>1, <3>2, <3>3 DEF MapInv, Outcome, SameOp
  <2>8. QED
    BY <2>2, <2>6, <2>7
<1>4. CASE ~Untrusted(Work)
  <2> DEFINE e == [item |-> op.item, flag |-> "operation", data |-> Missing]
             x == Append(Work, e)
  <2>1. sect' = Appended(at, e) /\ pc' = "content" /\ op' = op
    BY <1>4 DEF Index, Work
  <2>2. e \in Entry /\ e.item = op.item /\ e.flag = "operation"
    BY <1>2, NewEntries
  <2> HIDE DEF e
  <2>3. Len(Work) < Slots /\ Used(Work) + Size[e.item] <= Room
    BY <1>1, <2>2 DEF RoomInv, Work
  <2>4. Becomes(sect', at, sect[at].flag, x)
    BY <1>2, <2>1, <2>2, <2>3, IndexOperations DEF Work
  <2>5. /\ x \in Seq(Entry) /\ Len(x) = Len(Work) + 1 /\ Last(x) = e
        /\ \A i : ValidAt(x, i) = ValidAt(Work, i) /\ Held(x, i) = Held(Work, i)
        /\ Whole(Work) => Whole(x)
    BY <1>2, <2>2, AppendHolds
  <2> HIDE DEF x
  <2>6. /\ Chosen' = Chosen /\ Work' = x /\ Rest' = Rest
        /\ \A s \in Sectors : sect'[s].flag = sect[s].flag
        /\ \A s \in Sectors : Whole(sect'[s].index)
        /\ \A i : Read(i)' = Read(i)
    BY <1>1, <2>4, <2>5, WorkChanges
  <2>7. Same
    BY <1>1, <2>6, SameReads
  <2>8. Where'
    <3>1. Work = <<>> => Len(x) = 1
      BY <2>5
    <3>2. QED
      BY <1>1, <1>2, <2>1, <2>6, <3>1 DEF Where, MapInv, Filling, Usable
  <2>9. What'
    <3>1. LastEntry(at)' = e
      BY <1>1, <2>5, <2>6 DEF LastEntry, Work
    <3>2. QED
      BY <1>1, <2>1, <2>2, <2>5, <2>6, <3>1 DEF What, MapInv, Filling, Agree
  <2>10. When'
    BY <1>1, <2>1 DEF When, Between, Writing
  <2>11. QED
    BY <2>1, <2>7, <2>8, <2>9, <2>10 DEF MapInv, Outcome, SameOp
<1>5. QED
  BY <1>3, <1>4

LEMMA ChangedFields ==
  ASSUME NEW e \in Entry
  PROVE  /\ \A d : [e EXCEPT !.data = d].flag = e.flag /\ [e EXCEPT !.data = d].data = d
         /\ \A f : [e EXCEPT !.flag = f].flag = f /\ [e EXCEPT !.flag = f].data = e.data
BY DEF Entry

\* The entry that a request is writing is the last one, and not yet valid.
LEMMA AtLast ==
  ASSUME RoomInv, MapInv, pc \in {"content", "flag"}
  PROVE  /\ Work \in Seq(Entry) /\ Work # <<>> /\ LastEntry(at) = Last(Work)
         /\ LastEntry(at) \in Entry
         /\ LastEntry(at).item = op.item /\ LastEntry(at).flag = "operation"
         /\ pc = "flag" => LastEntry(at).data = op.value
         /\ op.item \in Items /\ op.value \in Values /\ Writing /\ ~resetting
         /\ SectorsFit(sect) /\ at \in Sectors
BY AtWork, LastChanges DEF MapInv, What, When, Between, Work, LastEntry

LEMMA ContentMap ==
  ASSUME RoomInv, MapInv, Content
  PROVE  MapInv' /\ Outcome
<1> DEFINE e == [LastEntry(at) EXCEPT !.data = op.value]
           x == Append(Front(Work), e)
<1>1. /\ pc = "content" /\ pc' = "flag" /\ sect' = WithLast(at, e)
      /\ op' = op /\ at' = at /\ moved' = moved /\ resetting' = resetting
  BY DEF Content
<1>2. /\ Work \in Seq(Entry) /\ Work # <<>> /\ LastEntry(at) = Last(Work)
      /\ LastEntry(at) \in Entry
      /\ LastEntry(at).item = op.item /\ LastEntry(at).flag = "operation"
      /\ op.item \in Items /\ op.value \in Values /\ Writing /\ ~resetting
      /\ SectorsFit(sect) /\ at \in Sectors
  BY <1>1, AtLast
<1>3. e \in Entry /\ e.item = op.item /\ e.flag = "operation" /\ e.data = op.value
  <2>1. op.value \in Contents
    BY <1>2 DEF Contents
  <2>2. e \in Entry /\ e.item = LastEntry(at).item
    BY <1>2, <2>1, ChangedEntries
  <2>3. e.flag = LastEntry(at).flag /\ e.data = op.value
    BY <1>2, ChangedFields
  <2>4. QED
    BY <1>2, <2>2, <2>3
<1> HIDE DEF e
<1>4. Becomes(sect', at, sect[at].flag, x)
  BY <1>1, <1>2, <1>3, IndexOperations DEF Work
<1>5. /\ x \in Seq(Entry) /\ Len(x) = Len(Work) /\ Last(x) = e
      /\ \A i : ValidAt(x, i) = ValidAt(Work, i) /\ Held(x, i) = Held(Work, i)
      /\ Whole(Work) => Whole(x)
  BY <1>2, <1>3, LastHolds
<1> HIDE DEF x
<1>6. /\ Chosen' = Chosen /\ Work' = x /\ Rest' = Rest
      /\ \A s \in Sectors : sect'[s].flag = sect[s].flag
      /\ \A s \in Sectors : Whole(sect'[s].index)
      /\ \A i : Read(i)' = Read(i)
  BY <1>1, <1>4, <1>5, WorkChanges
<1>7. Same
  BY <1>1, <1>6, SameReads
<1>8. Where'
  BY <1>1, <1>2, <1>5, <1>6, TwoSectors DEF Where, MapInv, Filling, Usable
<1>9. What'
  <2>1. LastEntry(at)' = e
    BY <1>1, <1>5, <1>6 DEF LastEntry, Work
  <2>2. QED
    BY <1>1, <1>3, <1>5, <1>6, <2>1 DEF What, MapInv, Filling, Agree
<1>10. When'
  BY <1>1, <1>2 DEF When, Between, Writing
<1>11. QED
  BY <1>1, <1>7, <1>8, <1>9, <1>10 DEF MapInv, Outcome, SameOp

LEMMA FlagMap ==
  ASSUME RoomInv, MapInv, Flag
  PROVE  MapInv' /\ Outcome /\ Answered
<1> DEFINE e == [LastEntry(at) EXCEPT !.flag = "valid"]
           x == Append(Front(Work), e)
<1>1. /\ pc = "flag" /\ sect' = WithLast(at, e)
      /\ at' = at /\ moved' = moved /\ resetting' = resetting
      /\ IF ValidAt(Work, op.item) # {} THEN pc' = "drop" /\ UNCHANGED op ELSE Closing
  BY DEF Flag, Work
<1>2. /\ Work \in Seq(Entry) /\ Work # <<>> /\ LastEntry(at) = Last(Work)
      /\ LastEntry(at) \in Entry
      /\ LastEntry(at).item = op.item /\ LastEntry(at).flag = "operation"
      /\ LastEntry(at).data = op.value
      /\ op.item \in Items /\ op.value \in Values /\ Writing /\ ~resetting
      /\ SectorsFit(sect) /\ at \in Sectors
  BY <1>1, AtLast
<1>3. e \in Entry /\ e.item = op.item /\ e.flag = "valid" /\ e.data = op.value
  <2>1. e \in Entry /\ e.item = LastEntry(at).item
    BY <1>2, ChangedEntries
  <2>2. e.flag = "valid" /\ e.data = LastEntry(at).data
    BY <1>2, ChangedFields
  <2>3. QED
    BY <1>2, <2>1, <2>2
<1> HIDE DEF e
<1>4. Becomes(sect', at, sect[at].flag, x)
  BY <1>1, <1>2, <1>3, IndexOperations DEF Work
<1>5. /\ x \in Seq(Entry) /\ Len(x) = Len(Work) /\ Last(x) = e
      /\ \A i : Held(x, i) = IF i = op.item THEN op.value ELSE Held(Work, i)
      /\ ValidAt(Front(x), op.item) = ValidAt(Work, op.item)
      /\ Whole(Work) => Whole(x)
  BY <1>2, <1>3, LastHolds
<1> HIDE DEF x
<1>6. /\ Chosen' = Chosen /\ Work' = x /\ Rest' = Rest
      /\ \A s \in Sectors : sect'[s].flag = sect[s].flag
      /\ \A s \in Sectors : Whole(sect'[s].index)
      /\ \A i : Read(i)' = IF Chosen = at THEN Held(x, i) ELSE Read(i)
      /\ Chosen = at => \A i : Read(i) = Held(Work, i)
  BY <1>1, <1>4, <1>5, WorkChanges
<1>7. IF Chosen = at THEN Written ELSE Same
  <2>1. CASE Chosen = at
    BY <1>1, <1>2, <1>5, <1>6, <2>1, WrittenReads
  <2>2. CASE Chosen # at
    BY <1>1, <1>6, <2>2, SameReads
  <2>3. QED
    BY <2>1, <2>2
\* Without a sector to be found the entry is the first one.
<1>8. Chosen = NoSector => Len(Work) = 1 /\ ValidAt(Work, op.item) = {} /\ ~moved
  <2> SUFFICES ASSUME Chosen = NoSector
               PROVE  Len(Work) = 1 /\ ValidAt(Work, op.item) = {} /\ ~moved
    OBVIOUS
  <2>1. Len(Work) = 1 /\ ~moved
    BY <1>1, <1>2, TwoSectors DEF MapInv, Where, Filling, Sectors, NoSector
  <2>2. Work[1].flag # "valid"
    BY <1>2, <2>1 DEF Last
  <2>3. ValidAt(Work, op.item) = {}
    BY <1>2, <2>1, <2>2, ValidPlaces
  <2>4. QED
    BY <2>1, <2>3
<1>9. \/ ValidAt(Work, op.item) # {} /\ pc' = "drop" /\ op' = op
      \/ moved /\ pc' = "announce" /\ op' = op
      \/ ~moved /\ Len(Work) = 1 /\ pc' = "name" /\ op' = op
      \/ ~moved /\ Len(Work) # 1 /\ pc' = "idle" /\ op' = NoOp
  BY <1>1 DEF Closing, Finish, Work
<1>10. /\ ValidAt(Work, op.item) # {} => ~moved
       /\ ~moved => \/ Chosen = at /\ sect[at].flag = "valid"
                    \/ Chosen = NoSector /\ at = 0
       /\ moved => Chosen = Other(at) /\ ~Usable(at) /\ Agree(Work, Rest)
       /\ op.force => Chosen # NoSector
  BY <1>1 DEF MapInv, Where, What, Filling
<1>11. Where'
  <2>1. \/ pc' = "drop" /\ ~moved /\ Chosen = at /\ sect[at].flag = "valid" /\ op' = op
        \/ pc' = "announce" /\ moved /\ op' = op
        \/ pc' = "name" /\ ~moved /\ Len(Work) = 1 /\ op' = op
        \/ pc' = "idle" /\ op' = NoOp
    BY <1>8, <1>9, <1>10
  <2>2. CASE op' = NoOp /\ pc' = "idle"
    BY <2>2 DEF Where, Filling, NoOp
  <2>3. op' = op => (op'.force => Chosen' # NoSector)
    BY <1>6, <1>10
  <2>4. CASE pc' = "drop" /\ ~moved /\ Chosen = at /\ sect[at].flag = "valid" /\ op' = op
    BY <1>1, <1>2, <1>6, <2>3, <2>4 DEF Where, Filling
  <2>5. CASE pc' = "announce" /\ moved /\ op' = op
    <3>1. /\ Chosen' = Other(at) /\ ~(sect'[at].flag \in {"ready", "valid"})
      BY <1>2, <1>6, <1>10, <2>5 DEF Usable
    <3>2. QED
      BY <1>1, <2>3, <2>5, <3>1 DEF Where, Filling, Usable
  <2>6. CASE pc' = "name" /\ ~moved /\ Len(Work) = 1 /\ op' = op
    <3>1. \/ Chosen' = at /\ sect'[at].flag = "valid"
          \/ Chosen' = NoSector /\ at = 0 /\ Len(Work') = 1
      BY <1>2, <1>5, <1>6, <1>10, <2>6
    <3>2. QED
      BY <1>1, <2>3, <2>6, <3>1 DEF Where, Filling
  <2>7. QED
    BY <2>1, <2>2, <2>4, <2>5, <2>6
<1>12. What'
  <2>1. LastEntry(at)' = e
    BY <1>1, <1>5, <1>6 DEF LastEntry, Work
  <2>2. Held(x, op.item) = op.value
    BY <1>5
  <2>3. moved => \A j \in Items \ {op.item} : Held(x, j) = Held(Rest, j)
    BY <1>5, <1>10 DEF Agree
  <2>4. QED
    BY <1>1, <1>3, <1>5, <1>6, <1>9, <1>10, <2>1, <2>2, <2>3 DEF What, Filling, Agree
<1>13. When'
  BY <1>1, <1>2, <1>9 DEF When, Between, Writing
<1>14. (pc' # "idle" /\ op' = op) \/ (op' = NoOp /\ Chosen = at)
  BY <1>8, <1>9, <1>10
<1>15. Outcome
  BY <1>2, <1>7, <1>14 DEF Outcome, SameOp
<1>16. Answered
  BY <1>5, <1>6, <1>14 DEF Answered, Acknowledged
<1>17. QED
  BY <1>11, <1>12, <1>13, <1>15, <1>16 DEF MapInv

\* The entry that Drop marks is an older one of the same item.
LEMMA MarkedIs ==
  ASSUME RoomInv, MapInv, pc = "drop"
  PROVE  /\ Len(Work) # 1 /\ Writing /\ ~resetting /\ ~moved
         /\ Chosen = at /\ Held(Work, op.item) = op.value
         /\ \E x \in Seq(Entry) :
              /\ Becomes(MarkedInvalid(at, Replaced(at)), at, sect[at].flag, x)
              /\ \A i : Held(x, i) = Held(Work, i)
              /\ Whole(Work) => Whole(x)
<1>1. /\ SectorsFit(sect) /\ at \in Sectors /\ Work \in Seq(Entry) /\ Work # <<>> /\ Writing
      /\ Len(Work) \in Nat
  BY AtWork, LastChanges DEF Work
<1>2. /\ Last(Work).item = op.item /\ Last(Work).flag = "valid"
      /\ Last(Work).data = op.value /\ Chosen = at
      /\ ValidAt(Front(Work), op.item) # {}
      /\ ~resetting /\ ~moved
  BY DEF MapInv, Where, What, When, Between, Filling, LastEntry, Work
<1> DEFINE k == NewestOf(Front(Work), op.item)
           l == Len(Work)
           x == Marking(Work, k)
<1>3. /\ Front(Work) \in Seq(Entry) /\ Len(Front(Work)) = l - 1
      /\ \A n \in 1 .. l - 1 : Front(Work)[n] = Work[n]
  BY <1>1, FrontIs
<1>4. k \in ValidAt(Front(Work), op.item)
  BY <1>2, <1>3, NewestIs
<1>5. k \in 1 .. l - 1 /\ Front(Work)[k].item = op.item
  BY <1>3, <1>4, ValidPlaces
<1>6. Replaced(at) = k
  BY DEF Replaced, Work
<1> HIDE DEF k
<1>7. Work[k].item = Work[l].item /\ Work[l].flag = "valid" /\ k \in 1 .. l /\ l \in 1 .. l /\ k < l
  BY <1>1, <1>2, <1>3, <1>5 DEF Last
<1>8. x \in Seq(Entry) /\ (\A i : Held(x, i) = Held(Work, i)) /\ (Whole(Work) => Whole(x))
  BY <1>1, <1>7, MarkHolds
<1>9. Becomes(MarkedInvalid(at, k), at, sect[at].flag, x)
  BY <1>1, IndexOperations DEF Work
<1> HIDE DEF x
<1>10. Held(Work, op.item) = op.value
  <2>1. Work[l].item = op.item /\ Work[l].flag = "valid" /\ Work[l].data = op.value
    BY <1>2 DEF Last
  <2>2. l \in ValidAt(Work, op.item) /\ \A n \in ValidAt(Work, op.item) : n <= l
    BY <1>1, <1>7, <2>1, ValidPlaces
  <2>3. QED
    BY <1>1, <2>1, <2>2, HeldIs
<1>11. QED
  BY <1>1, <1>2, <1>6, <1>7, <1>8, <1>9, <1>10

LEMMA DropMap ==
  ASSUME RoomInv, MapInv, Drop
  PROVE  MapInv' /\ Outcome /\ Answered
<1>1. /\ pc = "drop" /\ sect' = MarkedInvalid(at, Replaced(at)) /\ Closing
      /\ at' = at /\ moved' = moved /\ resetting' = resetting
  BY DEF Drop
<1>2. PICK x \in Seq(Entry) :
        /\ Becomes(sect', at, sect[at].flag, x)
        /\ \A i : Held(x, i) = Held(Work, i)
        /\ Whole(Work) => Whole(x)
  BY <1>1, MarkedIs
<1>3. pc' = "idle" /\ op' = NoOp /\ ~resetting
  <2>1. Len(Work) # 1 /\ ~resetting /\ ~moved
    BY <1>1, MarkedIs
  <2>2. QED
    BY <1>1, <2>1 DEF Closing, Finish, Work
<1>4. /\ \A s \in Sectors : Whole(sect'[s].index)
      /\ \A i : Read(i)' = Read(i)
      /\ Chosen = at => \A i : Read(i) = Held(Work, i)
  BY <1>2, WorkChanges
<1>5. Same /\ Answered
  <2>1. Chosen = at /\ Held(Work, op.item) = op.value
    BY <1>1, MarkedIs
  <2>2. QED
    BY <1>1, <1>4, <2>1, SameReads DEF Answered, Acknowledged
<1>6. Where'
  BY <1>3 DEF Where, Filling, NoOp
<1>7. What'
  BY <1>3, <1>4 DEF What, Filling
<1>8. When'
  BY <1>1, <1>3 DEF When
<1>9. QED
  BY <1>3, <1>5, <1>6, <1>7, <1>8 DEF MapInv, Outcome

\* A request that has moved, and its two sectors.
LEMMA TwoIndexes ==
  ASSUME RoomInv, MapInv, pc \in {"announce", "retire"}
  PROVE  /\ SectorsFit(sect) /\ at \in Sectors /\ Other(at) \in Sectors /\ Writing /\ ~resetting
         /\ Other(Other(at)) = at
         /\ Chosen = at => \A i : Read(i) = Held(Work, i)
         /\ Chosen = Other(at) => \A i : Read(i) = Held(Rest, i)
         /\ \A i \in Items : Held(Work, i) = IF i = op.item THEN op.value ELSE Held(Rest, i)
<1>1. /\ SectorsFit(sect) /\ at \in Sectors /\ Other(at) \in Sectors /\ Other(Other(at)) = at
      /\ Writing /\ ~resetting
  BY AtWork, TwoSectors DEF RoomInv, MapInv, When, Between, Requested
<1>2. at # NoSector /\ Other(at) # NoSector
  BY <1>1 DEF Sectors, NoSector
<1>3. /\ Chosen = at => \A i : Read(i) = Held(Work, i)
      /\ Chosen = Other(at) => \A i : Read(i) = Held(Rest, i)
  BY <1>2, Reads DEF Work, Rest
<1>4. Agree(Work, Rest) /\ Held(Work, op.item) = op.value
  BY DEF MapInv, Where, What, Filling
<1>5. \A i \in Items : Held(Work, i) = IF i = op.item THEN op.value ELSE Held(Rest, i)
  BY <1>4 DEF Agree
<1>6. QED
  BY <1>1, <1>3, <1>5

LEMMA AnnounceMap ==
  ASSUME RoomInv, MapInv, Announce
  PROVE  MapInv' /\ Outcome
<1>1. /\ pc = "announce" /\ pc' = "retire" /\ sect' = Flagged(at, "ready")
      /\ op' = op /\ at' = at /\ moved' = moved /\ resetting' = resetting
  BY DEF Announce
<1>2. /\ SectorsFit(sect) /\ at \in Sectors /\ Other(at) \in Sectors /\ Writing /\ ~resetting
      /\ \A i \in Items : Held(Work, i) = IF i = op.item THEN op.value ELSE Held(Rest, i)
      /\ Chosen = Other(at) => \A i : Read(i) = Held(Rest, i)
  BY <1>1, TwoIndexes
<1>3. Chosen = Other(at) /\ sect[Other(at)].flag \in UsableFlags
  BY <1>1, <1>2, NothingChosen DEF MapInv, Where, Filling, Usable, UsableFlags, Sectors, NoSector
<1>4. Becomes(sect', at, "ready", Work)
  BY <1>1, <1>2, FlagOperations DEF Work, SectorFlags
<1>5. /\ sect'[at].flag = "ready" /\ sect'[at].index = Work
      /\ sect'[Other(at)] = sect[Other(at)]
  BY <1>4 DEF Becomes
<1>6. Chosen' = 0
  BY <1>2, <1>3, <1>5, Picks DEF Sectors, Other, UsableFlags
<1>7. IF at = 0 THEN Written ELSE Same
  <2>1. CASE at = 0
    <3>1. \A i : Read(i)' = Held(Work, i)
      BY <1>5, <1>6, <2>1, Reads DEF NoSector
    <3>2. QED
      BY <1>1, <1>2, <1>3, <2>1, <3>1, WrittenReads
  <2>2. CASE at # 0
    <3>1. Other(at) = 0
      BY <1>2, <2>2 DEF Sectors, Other
    <3>2. \A i : Read(i)' = Held(Rest, i)
      BY <1>5, <1>6, <3>1, Reads DEF NoSector, Rest
    <3>3. QED
      BY <1>1, <1>2, <1>3, <2>2, <3>2, SameReads
  <2>3. QED
    BY <2>1, <2>2
<1>8. Where'
  BY <1>1, <1>3, <1>5, <1>6 DEF Where, Filling, Usable, UsableFlags, NoSector
<1>9. What'
  <2>1. \A s \in Sectors : Whole(sect'[s].index)
    BY <1>2, <1>4, StayWhole DEF MapInv, Work
  <2>2. Work' = Work /\ Rest' = Rest
    BY <1>1, <1>5 DEF Work, Rest
  <2>3. QED
    BY <1>1, <2>1, <2>2 DEF What, MapInv, Where, Filling, Agree
<1>10. When'
  BY <1>1, <1>2 DEF When, Between, Writing
<1>11. QED
  BY <1>1, <1>2, <1>7, <1>8, <1>9, <1>10 DEF MapInv, Outcome, SameOp

\* From the moment the old sector is not usable any more the new one is read.
LEMMA Retired ==
  ASSUME RoomInv, MapInv, pc = "retire", resetting' = resetting,
         NEW f, f \notin UsableFlags, Becomes(sect', Other(at), f, <<>>)
  PROVE  /\ Chosen' = at /\ (Same \/ Written) /\ Writing /\ ~resetting /\ at \in Sectors
         /\ sect'[at] = sect[at] /\ sect'[Other(at)].flag = f
         /\ \A s \in Sectors : Whole(sect'[s].index)
<1>1. /\ SectorsFit(sect) /\ at \in Sectors /\ Other(at) \in Sectors /\ Other(Other(at)) = at
      /\ Writing /\ ~resetting
      /\ \A i \in Items : Held(Work, i) = IF i = op.item THEN op.value ELSE Held(Rest, i)
      /\ Chosen = at => \A i : Read(i) = Held(Work, i)
      /\ Chosen = Other(at) => \A i : Read(i) = Held(Rest, i)
  BY TwoIndexes
<1>2. sect[at].flag = "ready" /\ sect[Other(at)].flag \in UsableFlags
  BY DEF MapInv, Where, Usable, UsableFlags
<1>3. sect'[at] = sect[at] /\ sect'[Other(at)].flag = f
  BY <1>1 DEF Becomes
<1>4. Chosen' = at /\ (Chosen = at \/ Chosen = Other(at))
  BY <1>1, <1>2, <1>3, Picks DEF Sectors, Other, UsableFlags
<1>5. \A i : Read(i)' = Held(Work, i)
  BY <1>1, <1>3, <1>4, Reads DEF Sectors, NoSector, Work
<1>6. Same \/ Written
  BY <1>1, <1>4, <1>5, SameReads, WrittenReads
<1>7. \A s \in Sectors : Whole(sect'[s].index)
  BY <1>1, StayWhole, EmptyWhole DEF MapInv
<1>8. QED
  BY <1>1, <1>3, <1>4, <1>6, <1>7

LEMMA RetireMap ==
  ASSUME RoomInv, MapInv, Retire
  PROVE  MapInv' /\ Outcome
<1>1. /\ pc = "retire" /\ pc' = "confirm" /\ sect' = Spoilt(Other(at), "invalid")
      /\ op' = op /\ at' = at /\ moved' = moved /\ resetting' = resetting
  BY DEF Retire
<1>2. Becomes(sect', Other(at), "invalid", <<>>)
  BY <1>1, AtWork, TwoSectors, FlagOperations DEF SectorFlags
<1>3. /\ Chosen' = at /\ (Same \/ Written) /\ Writing /\ ~resetting /\ at \in Sectors
      /\ sect'[at] = sect[at] /\ sect'[Other(at)].flag = "invalid"
      /\ \A s \in Sectors : Whole(sect'[s].index)
  BY <1>1, <1>2, Retired DEF UsableFlags
<1>4. sect[at].flag = "ready" /\ Held(Work, op.item) = op.value
  BY <1>1 DEF MapInv, Where, What
<1>5. Where'
  BY <1>1, <1>3, <1>4 DEF Where, Filling, Usable, Sectors, NoSector
<1>6. What'
  <2>1. Work' = Work
    BY <1>1, <1>3 DEF Work
  <2>2. QED
    BY <1>1, <1>3, <1>4, <2>1 DEF What, Filling
<1>7. When'
  BY <1>1, <1>3 DEF When, Between, Writing
<1>8. QED
  BY <1>1, <1>3, <1>5, <1>6, <1>7 DEF MapInv, Outcome, SameOp

\* An index of one entry holds one item.
LEMMA OneHeld ==
  ASSUME NEW x \in Seq(Entry), Len(x) = 1, NEW i, Held(x, i) # None
  PROVE  \A j : j # i => Held(x, j) = None
<1>1. ValidAt(x, i) # {}
  BY HeldIs
<1>2. x[1].item = i
  BY <1>1, ValidPlaces
<1>3. ASSUME NEW j, j # i PROVE ValidAt(x, j) = {}
  BY <1>2, <1>3, ValidPlaces
<1>4. QED
  BY <1>3, HeldIs

LEMMA ConfirmMap ==
  ASSUME RoomInv, MapInv, Confirm
  PROVE  MapInv' /\ Outcome /\ Answered
<1>1. /\ pc \in {"confirm", "name"} /\ pc' = "idle" /\ sect' = Flagged(at, "valid")
      /\ op' = NoOp /\ at' = at /\ moved' = moved /\ resetting' = resetting
  BY DEF Confirm, Finish
<1>2. /\ SectorsFit(sect) /\ at \in Sectors /\ Other(at) \in Sectors /\ Work \in Seq(Entry)
      /\ Writing /\ ~resetting /\ op.item \in Items /\ op.value \in Values
  BY <1>1, AtWork, TwoSectors DEF RoomInv, MapInv, When, Between, Requested, Work
<1>3. Becomes(sect', at, "valid", Work)
  BY <1>1, <1>2, FlagOperations DEF Work, SectorFlags
<1>4. Held(Work, op.item) = op.value
  BY <1>1 DEF MapInv, What
<1>5. (Same \/ Written) /\ \A i : Read(i)' = Held(Work, i)
  <2>1. CASE sect[at].flag \in UsableFlags
    <3>1. Chosen = at
      BY <1>1, <1>2, <2>1, Picks
         DEF MapInv, Where, Filling, Usable, UsableFlags, Sectors, Other, NoSector
    <3>2. \A i : Read(i)' = Held(Work, i)
      BY <1>2, <1>3, <2>1, <3>1, InPlace DEF UsableFlags
    <3>3. \A i : Read(i) = Held(Work, i)
      BY <1>2, <3>1, Reads DEF Work, Sectors, NoSector
    <3>4. QED
      BY <1>1, <3>2, <3>3, SameReads
  <2>2. CASE sect[at].flag \notin UsableFlags
    <3>1. Chosen = NoSector /\ at = 0 /\ Len(Work) = 1
      BY <1>1, <2>2 DEF MapInv, Where, Filling, UsableFlags
    <3>2. Chosen' = 0 /\ sect'[0].index = Work
      BY <1>3, <3>1, Picks DEF Becomes, UsableFlags
    <3>3. \A i : Read(i)' = Held(Work, i) /\ Read(i) = None
      BY <3>1, <3>2, Reads DEF NoSector
    <3>4. \A j : j # op.item => Held(Work, j) = None
      BY <1>2, <1>4, <3>1, OneHeld, NvAssumption
    <3>5. Written
      BY <1>1, <1>2, <1>4, <3>3, <3>4, WrittenReads
    <3>6. QED
      BY <3>3, <3>5
  <2>3. QED
    BY <2>1, <2>2
<1>6. Where'
  BY <1>1 DEF Where, Filling, NoOp
<1>7. What'
  <2>1. \A s \in Sectors : Whole(sect'[s].index)
    BY <1>2, <1>3, StayWhole DEF MapInv, Work
  <2>2. QED
    BY <1>1, <2>1 DEF What, Filling
<1>8. When'
  BY <1>1, <1>2 DEF When
<1>9. QED
  BY <1>1, <1>2, <1>4, <1>5, <1>6, <1>7, <1>8 DEF MapInv, Outcome, Answered, Acknowledged

(***************************************************************************)
(* The factory reset and power.                                            *)
(***************************************************************************)
LEMMA ResetMap ==
  ASSUME RoomInv, MapInv, FactoryReset \/ ResetModule \/ ResetDone \/ Boot
  PROVE  MapInv' /\ Outcome
<1>1. op' = op /\ at' = at /\ moved' = moved /\ op = NoOp /\ ~op.force
  BY DEF FactoryReset, ResetModule, ResetDone, Boot, MapInv, When, Between, NoOp
<1>2. SectorsFit(sect) /\ {0, 1} \subseteq Sectors
  BY AtWork DEF Sectors
<1>3. CASE FactoryReset \/ ResetDone \/ Boot
  <2>1. /\ sect' = sect
        /\ \/ pc = "idle" /\ pc' = "erase0" /\ resetting'
           \/ pc = "clear" /\ pc' = "idle" /\ ~resetting'
           \/ /\ pc = "off" /\ resetting' = resetting
              /\ pc' = IF resetting THEN "erase0" ELSE "idle"
    BY <1>3 DEF FactoryReset, ResetDone, Boot
  <2>2. Same \/ (~resetting /\ resetting')
    <3>1. CASE pc = "idle"
      BY <2>1, <3>1 DEF MapInv, When, Between
    <3>2. CASE pc = "clear"
      <4>1. Chosen = NoSector /\ Chosen' = NoSector
        BY <2>1, <3>2, Picks DEF MapInv, Where
      <4>2. QED
        BY <4>1, Reads DEF Same, Shows
    <3>3. CASE resetting' = resetting
      BY <2>1, <3>3, NothingChanges
    <3>4. QED
      BY <2>1, <3>1, <3>2, <3>3
  <2>3. Where'
    BY <1>1, <2>1 DEF Where, Filling, NoOp
  <2>4. What'
    BY <2>1 DEF What, MapInv, Filling
  <2>5. When'
    BY <1>1, <2>1 DEF When, MapInv, Between
  <2>6. QED
    BY <1>1, <2>2, <2>3, <2>4, <2>5 DEF MapInv, Outcome
<1>4. CASE ResetModule
  <2>1. resetting' = resetting /\ resetting
    BY <1>4 DEF ResetModule, MapInv, When
  <2>2. Same
    BY <2>1 DEF Same, Shows
  <2>3. \/ pc = "erase0" /\ pc' = "erase1" /\ Becomes(sect', 0, "erased", <<>>)
        \/ pc = "erase1" /\ pc' = "clear" /\ Becomes(sect', 1, "erased", <<>>)
    BY <1>2, <1>4, FlagOperations DEF ResetModule
  <2>4. \A s \in Sectors : Whole(sect'[s].index)
    BY <1>2, <2>3, StayWhole, EmptyWhole DEF MapInv
  <2>5. pc' = "erase1" => ~(sect'[0].flag \in UsableFlags)
    BY <2>3 DEF Becomes, UsableFlags
  <2>6. pc' = "clear" => Chosen' = NoSector
    <3> SUFFICES ASSUME pc' = "clear" PROVE Chosen' = NoSector
      OBVIOUS
    <3>1. sect[0].flag \notin UsableFlags /\ Becomes(sect', 1, "erased", <<>>)
      BY <2>3 DEF MapInv, Where, Usable, UsableFlags
    <3>2. sect'[0].flag \notin UsableFlags /\ sect'[1].flag \notin UsableFlags
      BY <3>1 DEF Becomes, Other, UsableFlags
    <3>3. QED
      BY <3>2, Picks
  <2>7. Where'
    BY <1>1, <2>3, <2>5, <2>6 DEF Where, Filling, NoOp, Usable, UsableFlags
  <2>8. What'
    BY <2>3, <2>4 DEF What, Filling
  <2>9. When'
    BY <1>1, <2>1, <2>3 DEF When, Between
  <2>10. QED
    BY <1>1, <2>2, <2>7, <2>8, <2>9 DEF MapInv, Outcome
<1>5. QED
  BY <1>3, <1>4

\* What power leaves of a sector that is being erased or flagged.
LEMMA HalvesAre ==
  ASSUME SectorsFit(sect), NEW s \in Sectors
  PROVE  \A S \in HalfErased(s) \cup HalfFlagged(s) \cup HalfNamed(s) :
           \/ S = sect
           \/ Becomes(S, s, "junk", <<>>)
           \/ S \in HalfErased(s) /\ Becomes(S, s, sect[s].flag, <<>>)
<1>1. sect[s].flag \in SectorFlags /\ "junk" \in SectorFlags
  BY DEF SectorsFit, SectorsType, SectorFlags
<1>2. QED
  BY <1>1, FlagOperations DEF HalfErased, HalfFlagged, HalfNamed

\* The map after a step that power cuts short.
Cut == (Same \/ (Writing /\ Written)) /\ \A s \in Sectors : Whole(sect'[s].index)

LEMMA CutAway ==
  ASSUME RoomInv, MapInv, resetting' = resetting, NEW s \in Sectors, Chosen # s \/ resetting,
         NEW f, f \in UsableFlags => f = sect[s].flag,
         Becomes(sect', s, f, <<>>)
  PROVE  Cut
<1>1. \A t \in Sectors : Whole(sect'[t].index)
  BY StayWhole, EmptyWhole DEF MapInv
<1>2. CASE resetting
  BY <1>1, <1>2 DEF Cut, Same, Shows
<1>3. CASE ~resetting /\ f \notin UsableFlags
  <2>1. \A i : Read(i)' = Read(i)
    BY <1>3, Unseen
  <2>2. QED
    BY <1>1, <2>1, SameReads DEF Cut
<1>4. CASE ~resetting /\ f \in UsableFlags
  <2>1. \A i : Read(i)' = Read(i)
    BY <1>4, InPlace
  <2>2. QED
    BY <1>1, <2>1, SameReads DEF Cut
<1>5. QED
  BY <1>2, <1>3, <1>4

LEMMA CutEntry ==
  ASSUME RoomInv, MapInv, resetting' = resetting, NEW x,
         Becomes(sect', at, sect[at].flag, x),
         \A i : Held(x, i) = Held(Work, i), Whole(Work) => Whole(x)
  PROVE  Cut
<1>1. /\ \A s \in Sectors : Whole(sect'[s].index)
      /\ \A i : Read(i)' = Read(i)
  BY WorkChanges
<1>2. QED
  BY <1>1, SameReads DEF Cut

LEMMA CutShort ==
  ASSUME ~FlagTears, RoomInv, MapInv, resetting' = resetting, sect' \in Torn
  PROVE  Cut
<1>1. /\ SectorsFit(sect) /\ at \in Sectors /\ Other(at) \in Sectors /\ {0, 1} \subseteq Sectors
      /\ Other(at) # at
  BY AtWork, TwoSectors DEF Sectors
<1>2. "junk" \notin UsableFlags
  BY DEF UsableFlags
<1>3. CASE sect' = sect
  <2>1. \A s \in Sectors : Whole(sect'[s].index)
    BY <1>3 DEF MapInv, What
  <2>2. QED
    BY <1>3, <2>1, NothingChanges DEF Cut
<1>4. ASSUME NEW s \in Sectors, sect' \in HalfErased(s) \cup HalfFlagged(s) \cup HalfNamed(s),
             Chosen # s \/ resetting
      PROVE  Cut
  <2>1. \/ sect' = sect
        \/ Becomes(sect', s, "junk", <<>>)
        \/ Becomes(sect', s, sect[s].flag, <<>>)
    BY <1>1, <1>4, HalvesAre
  <2>2. QED
    BY <1>2, <1>3, <1>4, <2>1, CutAway
<1>5. CASE pc = "search"
  <2>1. CASE Chosen = NoSector
    BY <1>1, <1>4, <1>5, <2>1 DEF Torn, NoSector
  <2>2. CASE Chosen # NoSector
    <3>1. Chosen \in Sectors /\ Other(Chosen) \in Sectors /\ Other(Chosen) # Chosen
      BY <2>2, NothingChosen, TwoSectors
    <3>2. QED
      BY <1>4, <1>5, <2>2, <3>1 DEF Torn
  <2>3. QED
    BY <2>1, <2>2
<1>6. CASE pc = "place"
  <2>1. sect' = sect \/ (sect' \in HalfErased(Other(at)) /\ (op.force \/ UsedUp(Work)))
    BY <1>6 DEF Torn, Work
  <2>2. op.force \/ UsedUp(Work) => Chosen = at
    BY <1>6 DEF MapInv, Where, UsedUp
  <2>3. QED
    BY <1>1, <1>3, <1>4, <2>1, <2>2
<1>7. CASE pc = "index"
  <2> DEFINE e == [item |-> op.item, flag |-> "torn", data |-> Missing]
             x == Append(Work, e)
  <2>1. sect' = sect \/ sect' = Appended(at, e)
    BY <1>7 DEF Torn
  <2>2. op.item \in Items /\ Work \in Seq(Entry)
    BY <1>7, AtWork DEF RoomInv, Requested, Work
  <2>3. e \in Entry /\ e.item = op.item /\ e.flag = "torn"
    BY <2>2, NewEntries
  <2> HIDE DEF e
  <2>4. Len(Work) < Slots /\ Used(Work) + Size[e.item] <= Room
    BY <1>7, <2>3 DEF RoomInv, Work
  <2>5. (\A i : Held(x, i) = Held(Work, i)) /\ (Whole(Work) => Whole(x))
    BY <2>2, <2>3, AppendHolds
  <2>6. sect' = Appended(at, e) => Becomes(sect', at, sect[at].flag, x)
    BY <1>1, <2>3, <2>4, IndexOperations DEF Work
  <2> HIDE DEF x
  <2>7. QED
    BY <1>3, <2>1, <2>5, <2>6, CutEntry
<1>8. CASE pc \in {"content", "flag"}
  <2>1. /\ Work \in Seq(Entry) /\ Work # <<>> /\ LastEntry(at) = Last(Work)
        /\ LastEntry(at) \in Entry /\ LastEntry(at).flag = "operation"
    BY <1>8, AtLast
  <2>2. sect' = sect \/ \E e \in Entry : /\ sect' = WithLast(at, e)
                                         /\ e.item = LastEntry(at).item /\ e.flag # "valid"
    <3>1. \/ sect' = sect
          \/ sect' = WithLast(at, [LastEntry(at) EXCEPT !.data = TornHeader])
          \/ sect' = WithLast(at, [LastEntry(at) EXCEPT !.flag = "torn"])
      BY <1>8 DEF Torn
    <3>2. CASE sect' = WithLast(at, [LastEntry(at) EXCEPT !.data = TornHeader])
      <4> DEFINE e == [LastEntry(at) EXCEPT !.data = TornHeader]
      <4>1. TornHeader \in Contents
        BY DEF Contents
      <4>2. e \in Entry /\ e.item = LastEntry(at).item
        BY <2>1, <4>1, ChangedEntries
      <4>3. e.flag = LastEntry(at).flag
        BY <2>1, ChangedFields
      <4> HIDE DEF e
      <4>4. QED
        BY <2>1, <3>2, <4>2, <4>3 DEF e
    <3>3. CASE sect' = WithLast(at, [LastEntry(at) EXCEPT !.flag = "torn"])
      <4> DEFINE e == [LastEntry(at) EXCEPT !.flag = "torn"]
      <4>1. e \in Entry /\ e.item = LastEntry(at).item
        BY <2>1, ChangedEntries
      <4>2. e.flag = "torn"
        BY <2>1, ChangedFields
      <4> HIDE DEF e
      <4>3. QED
        BY <3>3, <4>1, <4>2 DEF e
    <3>4. QED
      BY <3>1, <3>2, <3>3
  <2>3. ASSUME NEW e \in Entry, sect' = WithLast(at, e),
               e.item = LastEntry(at).item, e.flag # "valid"
        PROVE  Cut
    <3> DEFINE x == Append(Front(Work), e)
    <3>1. (\A i : Held(x, i) = Held(Work, i)) /\ (Whole(Work) => Whole(x))
      BY <2>1, <2>3, LastHolds
    <3>2. Becomes(sect', at, sect[at].flag, x)
      BY <1>1, <2>1, <2>3, IndexOperations DEF Work
    <3> HIDE DEF x
    <3>3. QED
      BY <3>1, <3>2, CutEntry
  <2>4. QED
    BY <1>3, <2>2, <2>3
<1>9. CASE pc = "drop"
  <2>1. sect' = sect \/ sect' = MarkedInvalid(at, Replaced(at))
    BY <1>9 DEF Torn
  <2>2. QED
    BY <1>3, <1>9, <2>1, MarkedIs, CutEntry
<1>10. CASE pc = "announce"
  <2>1. Chosen # at
    BY <1>1, <1>10 DEF MapInv, Where, Filling
  <2>2. QED
    BY <1>1, <1>4, <1>10, <2>1 DEF Torn
<1>11. CASE pc = "name"
  <2>1. sect[at].flag = "valid" \/ Chosen = NoSector
    BY <1>11 DEF MapInv, Where, Filling
  <2>2. sect' = sect \/ (sect' \in HalfNamed(at) /\ Chosen = NoSector)
    BY <1>11, <2>1 DEF Torn, HalfNamed
  <2>3. QED
    BY <1>1, <1>3, <1>4, <2>2 DEF Sectors, NoSector
<1>12. CASE pc = "retire"
  <2>1. sect' = sect \/ Becomes(sect', Other(at), "junk", <<>>)
    <3>1. sect' = sect \/ sect' = Spoilt(Other(at), "junk")
      BY <1>12 DEF Torn, HalfFlagged
    <3>2. QED
      BY <1>1, <3>1, FlagOperations DEF SectorFlags
  <2>2. CASE Becomes(sect', Other(at), "junk", <<>>)
    BY <1>2, <1>12, <2>2, Retired DEF Cut
  <2>3. QED
    BY <1>3, <2>1, <2>2
<1>13. CASE pc \in {"erase0", "erase1"}
  <2>1. resetting /\ sect' \in HalfErased(0) \cup HalfErased(1)
    BY <1>13 DEF Torn, MapInv, When
  <2>2. QED
    BY <1>1, <1>4, <2>1
<1>14. CASE pc \notin {"search", "place", "index", "content", "flag", "drop", "announce",
                       "name", "retire", "erase0", "erase1"}
  BY <1>3, <1>14 DEF Torn
<1>15. QED
  BY <1>5, <1>6, <1>7, <1>8, <1>9, <1>10, <1>11, <1>12, <1>13, <1>14

LEMMA PowerCutMap ==
  ASSUME ~FlagTears, RoomInv, MapInv, PowerCut
  PROVE  MapInv' /\ Outcome
<1>1. /\ sect' \in Torn /\ pc' = "off" /\ op' = NoOp
      /\ pc # "clear" => resetting' = resetting
  BY DEF PowerCut
<1>2. (Same \/ (Writing /\ Written)) /\ \A s \in Sectors : Whole(sect'[s].index)
  <2>1. CASE pc = "clear"
    <3>1. sect' = sect /\ Chosen = NoSector
      BY <1>1, <2>1 DEF Torn, MapInv, Where
    <3>2. Chosen' = NoSector
      BY <3>1, Picks
    <3>3. Same
      BY <3>1, <3>2, Reads DEF Same, Shows
    <3>4. QED
      BY <3>1, <3>3 DEF MapInv, What
  <2>2. CASE pc # "clear"
    BY <1>1, <2>2, CutShort DEF Cut
  <2>3. QED
    BY <2>1, <2>2
<1>3. Where'
  BY <1>1 DEF Where, Filling, NoOp
<1>4. What'
  BY <1>1, <1>2 DEF What, Filling
<1>5. When'
  BY <1>1 DEF When, Between
<1>6. QED
  BY <1>1, <1>2, <1>3, <1>4, <1>5 DEF MapInv, Outcome

LEMMA TurnsStep ==
  ASSUME MapInv, [Next]_vars
  PROVE  Turns
<1>1. CASE FactoryReset
  <2>1. pc = "idle" /\ resetting' /\ op' = op
    BY <1>1 DEF FactoryReset
  <2>2. op = NoOp /\ ~resetting
    BY <2>1 DEF MapInv, When, Between
  <2>3. QED
    BY <2>1, <2>2, Zenon DEF Turns
<1>2. CASE pc = "clear" /\ (ResetDone \/ PowerCut)
  <2>1. op = NoOp /\ resetting /\ Chosen = NoSector
    BY <1>2 DEF MapInv, When, Where, Between
  <2>2. sect' = sect /\ op' = NoOp /\ resetting' \in BOOLEAN
    BY <1>2, <2>1 DEF ResetDone, PowerCut, Torn
  <2>3. Chosen' = NoSector
    BY <2>1, <2>2, Picks
  <2>4. Same
    BY <2>1, <2>3, Reads DEF Same, Shows
  <2>5. QED
    BY <2>1, <2>2, <2>4 DEF Turns
<1>3. CASE ~FactoryReset /\ ~ResetDone /\ ~(pc = "clear" /\ PowerCut)
  <2>1. resetting' = resetting
    <3>1. CASE UNCHANGED vars
      BY <3>1 DEF vars
    <3>2. CASE Step
      BY <1>3, <3>2 DEF Step, Search, Adopt, Place, Copy, Index, Content, Flag, Drop,
         Announce, Retire, Confirm, ResetModule
    <3>3. CASE (\E i \in Items, v \in Values : Write(i, v)) \/ ReadRepairs \/ Boot
      BY <3>3 DEF Write, ReadRepairs, Boot
    <3>4. CASE PowerCut
      BY <1>3, <3>4 DEF PowerCut
    <3>5. QED
      BY <1>3, <3>1, <3>2, <3>3, <3>4 DEF Next
  <2>2. QED
    BY <2>1 DEF Turns
<1>4. ResetDone => pc = "clear"
  BY DEF ResetDone
<1>5. QED
  BY <1>1, <1>2, <1>3, <1>4

(***************************************************************************)
(* The map.                                                                *)
(***************************************************************************)
LEMMA MapInitially == Init => MapInv /\ \A i \in Items : Shows(i) = None
<1> SUFFICES ASSUME Init PROVE MapInv /\ \A i \in Items : Shows(i) = None
  OBVIOUS
<1>1. \A s \in Sectors : sect[s].index = <<>> /\ sect[s].flag = "erased"
  BY DEF Init, ErasedSector, Sector
<1>2. pc = "idle" /\ op = NoOp /\ ~resetting
  BY DEF Init
<1>3. Chosen = NoSector
  BY <1>1, Picks DEF Sectors, UsableFlags
<1>4. Where
  BY <1>2 DEF Where, Filling, NoOp
<1>5. What
  BY <1>1, <1>2, EmptyWhole DEF What, Filling
<1>6. When
  BY <1>2 DEF When
<1>7. QED
  BY <1>3, <1>4, <1>5, <1>6, Reads DEF MapInv, Shows

\* Only these steps end a write with success.
LEMMA Endings ==
  ASSUME Next, ~(Flag \/ Drop \/ Confirm)
  PROVE  Answered
<1>1. ~(pc \in {"flag", "drop", "confirm", "name"} /\ pc' = "idle")
  <2>1. CASE Step
    BY <2>1 DEF Step, Search, Adopt, Place, Copy, Index, Content, Announce, Retire,
       ResetModule, ResetDone
  <2>2. CASE (\E i \in Items, v \in Values : Write(i, v)) \/ ReadRepairs \/ FactoryReset
    BY <2>2 DEF Write, ReadRepairs, FactoryReset
  <2>3. CASE PowerCut \/ Boot
    BY <2>3 DEF PowerCut, Boot
  <2>4. QED
    BY <2>1, <2>2, <2>3 DEF Next
<1>2. QED
  BY <1>1 DEF Answered, Acknowledged

LEMMA MapStep ==
  ASSUME ~FlagTears, RoomInv, MapInv, [Next]_vars
  PROVE  MapInv' /\ Outcome /\ (Answered \/ UNCHANGED vars)
<1>1. CASE UNCHANGED vars
  <2>1. sect' = sect /\ pc' = pc /\ op' = op /\ at' = at /\ moved' = moved /\ resetting' = resetting
    BY <1>1 DEF vars
  <2>2. Chosen' = Chosen /\ Same
    BY <2>1, NothingChanges
  <2>3. Where'
    BY <2>1, <2>2 DEF Where, MapInv, Usable, Work
  <2>4. What'
    BY <2>1 DEF What, MapInv, Work, Rest, Agree, LastEntry
  <2>5. When'
    BY <2>1 DEF When, MapInv, Writing
  <2>6. QED
    BY <1>1, <2>1, <2>2, <2>3, <2>4, <2>5 DEF MapInv, Outcome, SameOp
<1>2. CASE Next
  <2>1. MapInv' /\ Outcome
    BY <1>2, RequestMap, SearchMap, AdoptMap, PlaceMap, CopyMap, IndexMap, ContentMap, FlagMap,
       DropMap, AnnounceMap, RetireMap, ConfirmMap, ResetMap, PowerCutMap DEF Next, Step
  <2>2. Answered
    BY <1>2, FlagMap, DropMap, ConfirmMap, Endings
  <2>3. QED
    BY <2>1, <2>2
<1>3. QED
  BY <1>1, <1>2

\* The mapped variables of NvItems.
Stored == [i \in Items |-> IF resetting THEN None ELSE Read(i)]
Asked  == IF Writing THEN <<op.item, op.value>> ELSE <<>>

LEMMA Pairs == \A a, b : <<a, b>> # <<>> /\ <<a, b>>[1] = a /\ <<a, b>>[2] = b
OBVIOUS

LEMMA StoredIs ==
  /\ Stored = [i \in Items |-> Shows(i)]
  /\ Stored' = [i \in Items |-> Shows(i)']
BY DEF Stored, Shows

LEMMA AskedIs ==
  ASSUME RoomInv
  PROVE  /\ ~Writing => Asked = <<>>
         /\ Writing => /\ Asked # <<>> /\ Asked = <<op.item, op.value>>
                       /\ Asked[1] = op.item /\ Asked[2] = op.value /\ Asked[1] \in Items
         /\ SameOp => Asked' = Asked
         /\ op' = NoOp => Asked' = <<>>
         /\ op'.item \in Items => Asked' = <<op'.item, op'.value>>
<1>1. Writing => op.item \in Items
  BY AtWork
<1>2. op'.item \in Items => Writing'
  BY NvAssumption DEF Writing
<1>3. op' = NoOp => ~Writing'
  BY NoOpType DEF Writing
<1>4. SameOp => (Writing' <=> Writing)
  BY DEF SameOp, Writing
<1>5. /\ Asked = IF Writing THEN <<op.item, op.value>> ELSE <<>>
      /\ Asked' = IF Writing' THEN <<op'.item, op'.value>> ELSE <<>>
  BY DEF Asked
<1>6. QED
  BY <1>1, <1>2, <1>3, <1>4, <1>5, Pairs, Zenon DEF SameOp

LEMMA OutcomeOnMap ==
  ASSUME RoomInv, When', Outcome, Turns
  PROVE  \/ UNCHANGED <<Stored, Asked, resetting>>
         \/ Map!Take \/ Map!Acknowledge \/ Map!Refuse \/ Map!Empty \/ Map!Cleared
         \/ \E i \in Items, v \in Values : Map!Ask(i, v)
<1>1. Same => Stored' = Stored
  BY StoredIs DEF Same
<1>2. Writing /\ Written => Stored' = [Stored EXCEPT ![Asked[1]] = Asked[2]]
  <2> SUFFICES ASSUME Writing, Written
               PROVE  Stored' = [Stored EXCEPT ![Asked[1]] = Asked[2]]
    OBVIOUS
  <2>1. Asked[1] = op.item /\ Asked[2] = op.value
    BY AskedIs
  <2>2. [Stored EXCEPT ![op.item] = op.value]
          = [i \in Items |-> IF i = op.item THEN op.value ELSE Shows(i)]
    BY StoredIs
  <2>3. Stored' = [i \in Items |-> IF i = op.item THEN op.value ELSE Shows(i)]
    BY StoredIs DEF Written
  <2>4. QED
    BY <2>1, <2>2, <2>3
<1>3. op = NoOp => ~Writing /\ Asked = <<>>
  BY AskedIs, NoOpType DEF Writing
<1>4. CASE op = NoOp /\ op' = NoOp /\ ~resetting /\ resetting'
  <2>1. Stored' = [i \in Items |-> None]
    BY <1>4, StoredIs DEF Shows
  <2>2. Asked = <<>> /\ Asked' = <<>>
    BY <1>3, <1>4, AskedIs
  <2>3. Map!Empty
    <3>1. resetting' = TRUE
      BY <1>4
    <3>2. QED
      BY <1>4, <2>1, <2>2, <3>1, Zenon DEF Map!Empty, Stored, Asked
  <2>4. QED
    BY <2>3
<1>5. CASE op = NoOp /\ op' = NoOp /\ resetting /\ ~resetting' /\ Same
  <2>1. Stored' = Stored /\ Asked' = Asked /\ resetting' = FALSE
    BY <1>1, <1>3, <1>5, AskedIs
  <2>2. Map!Cleared
    BY <1>5, <2>1, Zenon DEF Map!Cleared, Stored, Asked
  <2>3. QED
    BY <2>2
<1>6. CASE resetting' = resetting
  <2>1. CASE Same /\ SameOp
    BY <1>1, <1>6, <2>1, AskedIs
  <2>2. CASE Same /\ op' = NoOp
    <3>1. CASE Writing
      <4>1. Asked # <<>> /\ Asked' = <<>> /\ Stored' = Stored
        BY <1>1, <2>2, <3>1, AskedIs
      <4>2. Map!Refuse
        BY <1>6, <4>1, Zenon DEF Map!Refuse, Stored, Asked
      <4>3. QED
        BY <4>2
    <3>2. CASE ~Writing
      BY <1>1, <1>6, <2>2, <3>2, AskedIs
    <3>3. QED
      BY <3>1, <3>2
  <2>3. CASE Writing /\ Written /\ SameOp
    <3>1. Asked # <<>> /\ Asked' = Asked /\ Stored' = [Stored EXCEPT ![Asked[1]] = Asked[2]]
      BY <1>2, <2>3, AskedIs
    <3>2. Map!Take
      BY <1>6, <3>1, Zenon DEF Map!Take, Map!StoreWith, Stored, Asked
    <3>3. QED
      BY <3>2
  <2>4. CASE Writing /\ Written /\ op' = NoOp
    <3>1. Asked # <<>> /\ Asked' = <<>> /\ Stored' = [Stored EXCEPT ![Asked[1]] = Asked[2]]
      BY <1>2, <2>4, AskedIs
    <3>2. Map!Acknowledge
      BY <1>6, <3>1, Zenon DEF Map!Acknowledge, Map!StoreWith, Stored, Asked
    <3>3. QED
      BY <3>2
  <2>5. CASE ~Writing /\ Same /\ op'.item \in Items /\ op'.value \in Values
    <3>1. Asked = <<>> /\ Asked' = <<op'.item, op'.value>> /\ Stored' = Stored
      BY <1>1, <2>5, AskedIs
    <3>2. ~resetting
      <4>1. op'.item # None
        BY <2>5, NvAssumption
      <4>2. op' # NoOp
        BY <4>1, NoOpType
      <4>3. ~resetting'
        BY <4>1, <4>2 DEF When, Writing, Between
      <4>4. QED
        BY <1>6, <4>3
    <3>3. Map!Ask(op'.item, op'.value)
      BY <1>6, <3>1, <3>2, Zenon DEF Map!Ask, Stored, Asked
    <3>4. QED
      BY <2>5, <3>3, Zenon
  <2>6. CASE ~resetting /\ resetting'
    BY <1>6, <2>6
  <2>7. QED
    BY <2>1, <2>2, <2>3, <2>4, <2>5, <2>6 DEF Outcome
<1>7. QED
  BY <1>4, <1>5, <1>6 DEF Turns

LEMMA MapStarts == Init => Map!InitN
<1> SUFFICES ASSUME Init PROVE Map!InitN
  OBVIOUS
<1>1. Stored = [i \in Items |-> None]
  BY MapInitially, StoredIs
<1>2. Asked = <<>> /\ resetting = FALSE
  BY NoOpType DEF Init, Asked, Writing
<1>3. QED
  BY <1>1, <1>2, Zenon DEF Map!InitN, Stored, Asked

\* The two sectors are a map of items that is written all or nothing, whatever
\* is cut where, and a write that ends with success is in it: the new value is
\* seen from one flash operation on, the flag of its entry, or, when the items
\* have moved, the flag of the sector that is then found first
\* (nv_flashWriteNewHandler, drv_nv.c:568, nv_write_item, drv_nv.c:259).  Again a
\* flag of two bytes must not be torn while it becomes valid.
THEOREM WritesAllOrNothing ==
  ASSUME ~FlagTears
  PROVE  Spec => WritesAreAtomic
<1> DEFINE Inv == RoomInv /\ MapInv
<1>1. Init => Inv
  BY RoomInitially, MapInitially
<1>2. Inv /\ [Next]_vars => Inv'
  BY RoomStep, MapStep
<1>3. Inv /\ [Next]_vars => [Map!NextN]_(Map!varsN)
  <2> SUFFICES ASSUME Inv, [Next]_vars PROVE [Map!NextN]_(Map!varsN)
    OBVIOUS
  <2>1. Outcome /\ Turns /\ When'
    BY MapStep, TurnsStep DEF MapInv
  <2>2. \/ UNCHANGED <<Stored, Asked, resetting>>
        \/ Map!Take \/ Map!Acknowledge \/ Map!Refuse \/ Map!Empty \/ Map!Cleared
        \/ \E i \in Items, v \in Values : Map!Ask(i, v)
    BY <2>1, OutcomeOnMap
  <2>3. UNCHANGED <<Stored, Asked, resetting>> => UNCHANGED Map!varsN
    BY Zenon DEF Stored, Asked, Map!varsN
  <2>4. QED
    BY <2>2, <2>3, Zenon DEF Map!NextN
<1>4. Inv /\ [Next]_vars => [\A i \in Items : Acknowledged(i) => Read(i)' = op.value]_vars
  BY MapStep, Zenon DEF Answered
<1> HIDE DEF Inv
<1>5. QED
  BY <1>1, <1>2, <1>3, <1>4, MapStarts, PTL DEF Spec, WritesAreAtomic, Map!SpecN
=============================================================================
