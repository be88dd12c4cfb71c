------------------------------ MODULE Baseline ------------------------------
(***************************************************************************)
(* What the two checks of the syscall tables promise together.  For each   *)
(* slot they know a baseline: the addresses learnt as its initial one.     *)
(* What was learnt is never altered or forgotten, a slot is learnt anew    *)
(* by those who raced for it only, and the room for slots is limited.      *)
(* An alert is about a suspect address of a slot whose baseline is known,  *)
(* and shows an address of that baseline; no alert is taken back.          *)
(***************************************************************************)
EXTENDS Naturals, Sequences

CONSTANTS
  Key, Addr,
  Suspect,     \* the addresses that are worth an alert
  Racers,      \* how many may race to learn a slot: it is learnt so often at most
  HasRoom(_)   \* whether one more slot can be learnt beside a set of slots

VARIABLES base, alerts

vars == <<base, alerts>>

Known == {k \in Key : base[k] # <<>>}

Init ==
  /\ base = [k \in Key |-> <<>>]
  /\ alerts = {}

Learn(k, a) ==
  /\ Len(base[k]) < Racers
  /\ k \in Known \/ HasRoom(Known)
  /\ base' = [base EXCEPT ![k] = Append(@, a)]
  /\ UNCHANGED alerts

Alert(kind, k, i, a) ==
  /\ a \in Suspect
  /\ alerts' = alerts \cup {[kind |-> kind, key |-> k, init |-> base[k][i], new |-> a]}
  /\ UNCHANGED base

Next ==
  \/ \E k \in Key, a \in Addr : Learn(k, a)
  \/ \E kind \in {"table", "syscall"}, k \in Key, a \in Addr :
       \E i \in DOMAIN base[k] : Alert(kind, k, i, a)

Spec == Init /\ [][Next]_vars
=============================================================================
