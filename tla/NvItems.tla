------------------------------ MODULE NvItems ------------------------------
(***************************************************************************)
(* What the rest of the firmware relies on when it keeps something in NV:  *)
(* a map from items to values that is written one item at a time, all or   *)
(* nothing.  A write that is acknowledged is in the map, one that is       *)
(* refused is not, and one that power cuts short is or is not.  Only a     *)
(* factory reset that is asked for empties the map, and until it is done   *)
(* nothing is written.                                                     *)
(***************************************************************************)
CONSTANTS Items, Values, None

VARIABLES
  store,   \* store[i]: the value of item i, or None
  asked,   \* the write that is under way: a pair of item and value, or empty
  clearing \* a factory reset is under way

varsN == <<store, asked, clearing>>

InitN == store = [i \in Items |-> None] /\ asked = <<>> /\ clearing = FALSE

Ask(i, v) ==
  /\ asked = <<>> /\ ~clearing
  /\ asked' = <<i, v>>
  /\ UNCHANGED <<store, clearing>>

StoreWith(request) == [store EXCEPT ![request[1]] = request[2]]

Take == asked # <<>> /\ store' = StoreWith(asked) /\ UNCHANGED <<asked, clearing>>

\* The value arrives at the latest with the acknowledgement.
Acknowledge ==
  /\ asked # <<>>
  /\ asked' = <<>> /\ store' = StoreWith(asked)
  /\ UNCHANGED clearing

Refuse == asked # <<>> /\ asked' = <<>> /\ UNCHANGED <<store, clearing>>

Cut ==
  /\ asked # <<>>
  /\ asked' = <<>>
  /\ store' \in {store, StoreWith(asked)}
  /\ UNCHANGED clearing

\* A factory reset begins.
Empty ==
  /\ asked = <<>> /\ ~clearing
  /\ clearing' = TRUE /\ store' = [i \in Items |-> None]
  /\ UNCHANGED asked

\* It is done: nothing that was there before is back.
Cleared == clearing /\ clearing' = FALSE /\ UNCHANGED <<store, asked>>

NextN ==
  \/ \E i \in Items, v \in Values : Ask(i, v)
  \/ Take \/ Acknowledge \/ Refuse \/ Cut \/ Empty \/ Cleared

SpecN == InitN /\ [][NextN]_varsN
=============================================================================
