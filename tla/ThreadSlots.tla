----------------------------- MODULE ThreadSlots -----------------------------
(***************************************************************************)
(* What the probes of a thread may rely on in the syscall cache: a slot of *)
(* its own for the call it is in, and a hand with what the return probe    *)
(* took out of the slot.  Each is empty or has one content.  Only the      *)
(* thread fills its slot, and its hand is filled from its own slot; but    *)
(* the store of another thread may cost it the slot's content, and may put *)
(* the content stored there in the place of what the hand holds; and a     *)
(* thread that has lost its slot may still write data into that of         *)
(* another.                                                                *)
(***************************************************************************)
CONSTANTS Thread, Content

VARIABLES slot, hand

vars == <<slot, hand>>

Empty == [t \in Thread |-> {}]
Init == slot = Empty /\ hand = Empty

(* A store that is refused leaves the slot empty.                          *)
Store(t, v, kept) ==
  /\ \E lost \in Thread :
       slot' = [u \in Thread |-> IF u = t THEN kept ELSE IF u = lost THEN {} ELSE slot[u]]
  /\ \E mixed \in SUBSET (Thread \ {t}) :
       hand' = [u \in Thread |-> IF u \in mixed /\ hand[u] # {} THEN {v} ELSE hand[u]]

Take(t) ==
  /\ slot[t] # {} /\ hand[t] = {}
  /\ hand' = [hand EXCEPT ![t] = slot[t]]
  /\ slot' = [slot EXCEPT ![t] = {}]

(* The thread completes its entry, or writes too late, into the content    *)
(* other threads have: their slot or what is in their hand.                *)
WithData(contents, d) == {[c EXCEPT !.data = d] : c \in contents}
Complete(t, d) ==
  /\ slot[t] # {}
  /\ slot' = [slot EXCEPT ![t] = WithData(slot[t], d)]
  /\ \E mixed \in SUBSET (Thread \ {t}) :
       hand' = [u \in Thread |-> IF u \in mixed THEN WithData(hand[u], d) ELSE hand[u]]
Stray(t, d) ==
  /\ slot[t] = {} /\ hand[t] = {}
  /\ \E hit \in Thread :
       slot' = [slot EXCEPT ![hit] = WithData(slot[hit], d)]
  /\ \E mixed \in SUBSET (Thread \ {t}) :
       hand' = [u \in Thread |-> IF u \in mixed THEN WithData(hand[u], d) ELSE hand[u]]

LetGo(t) ==
  /\ hand' = [hand EXCEPT ![t] = {}]
  /\ UNCHANGED slot

Next == \E t \in Thread :
  \/ Take(t) \/ LetGo(t)
  \/ \E v \in Content : Store(t, v, {v}) \/ Store(t, v, {}) \/ Complete(t, v.data) \/ Stray(t, v.data)

Spec == Init /\ [][Next]_vars
=============================================================================
