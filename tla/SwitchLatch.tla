----------------------------- MODULE SwitchLatch -----------------------------
(***************************************************************************)
(* What the one-entry kill switch map amounts to: a latch that the first   *)
(* key takes for good.  Later writes under the same key replace its        *)
(* action; writes under any other key are lost.  The slot is the set of    *)
(* its entries: empty or one pair.                                         *)
(***************************************************************************)
CONSTANTS Key, Stored

VARIABLE slot

Init == slot = {}

Write(key, action) ==
  /\ \A entry \in slot : entry[1] = key
  /\ slot' = {<<key, action>>}

Next == \E key \in Key, action \in Stored : Write(key, action)

Spec == Init /\ [][Next]_slot
=============================================================================
