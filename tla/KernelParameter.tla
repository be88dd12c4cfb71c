--------------------------- MODULE KernelParameter ---------------------------
(***************************************************************************)
(* The check of kernel parameters (krie/kernel_parameter.h, loaded by      *)
(* pkg/krie/kernel_parameters.go): a run compares each listed parameter    *)
(* with its expected value and sends an event for a mismatch, unless one   *)
(* was sent less than a ticker ago.  Runs start at every syscall entry and *)
(* at every tick of a periodic perf event, on all CPUs; they share the     *)
(* last_sent fields of the kernel_parameters map.                          *)
(*                                                                         *)
(* A 64-bit value is the function of its bytes, lowest first, so that a    *)
(* read of fewer bytes leaves the others as they were.  Time is counted in *)
(* units of the ticker's resolution, modulo Word where the code computes   *)
(* in u64.                                                                 *)
(***************************************************************************)
EXTENDS Integers

CONSTANTS
  Cpu,
  Count,        \* number of listed parameters
  Size,         \* the configured size in bytes of each parameter
  Expected,     \* the configured expected value of each parameter
  Resolved,     \* the parameters whose symbol is found
  Width,        \* bytes in a u64
  Byte,         \* byte values, 0 among them
  Content,      \* what the memory of a parameter may hold
  Ticker,       \* kernel_parameter_ticker
  Boot,         \* time since boot when the parameters are loaded
  Word,         \* modulus of u64 arithmetic
  MaxTime,      \* bound: the clock
  MaxChanges,   \* bound: changes of a parameter's memory
  MaxLost       \* bound: perf events that cannot be sent

Param == 1 .. Count
Value == [1 .. Width -> Byte]

ASSUME KernelParameterAssumption ==
  /\ Count \in Nat \ {0}      \* with none listed, a run ends at its first lookup
  /\ Width \in Nat \ {0}
  /\ Size \in [Param -> Nat]
  /\ Byte \subseteq Nat /\ 0 \in Byte
  /\ Expected \in [Param -> Value]
  /\ Resolved \subseteq Param
  /\ Content \subseteq Value
  /\ {Ticker, Boot, MaxTime, MaxChanges, MaxLost} \subseteq Nat
  /\ Word \in Nat /\ Boot <= MaxTime /\ MaxTime < Word

VARIABLES
  clock,        \* bpf_ktime_get_ns
  memory,       \* kernel memory of each parameter
  last_sent,    \* kernel_parameters map: the field the runs write
  run,          \* the check in progress on each CPU
  events,       \* every kernel_parameter event sent
  held,         \* history: what the memory of each parameter ever held
  reported,     \* history: parameters reported since their memory changed
  changes, lost \* counters of the bounded environment steps

vars == <<clock, memory, last_sent, run, events, held, reported, changes, lost>>

Zero == [b \in 1 .. Width |-> 0]

Idle == [pc |-> "idle", i |-> 1, now |-> 0, actual |-> Zero, fresh |-> FALSE]

Event == [cpu : Cpu, param : Param, time : 0 .. MaxTime, actual : Value]

(* loadKernelParameters leaves last_sent zero.  An unresolved symbol gets  *)
(* address 0 and is pushed like the others.                                *)
Init ==
  /\ clock = Boot
  /\ memory \in [Param -> Content]
  /\ last_sent = [i \in Param |-> 0]
  /\ run = [c \in Cpu |-> Idle]
  /\ events = {}
  /\ held = [i \in Param |-> {memory[i]}]
  /\ reported = {}
  /\ changes = 0
  /\ lost = 0

-----------------------------------------------------------------------------
At(c, pc) == run[c].pc = pc

(* size & 7 *)
ReadSize(i) == Size[i] % Width

(* A read of address 0 fails and zeroes the bytes it was to fill.          *)
bpf_probe_read_kernel(dst, i) ==
  [b \in 1 .. Width |->
     IF b > ReadSize(i) THEN dst[b] ELSE IF i \in Resolved THEN memory[i][b] ELSE 0]

Threshold(now) == (now - Ticker) % Word

Begin(c) ==
  /\ At(c, "idle")
  /\ run' = [run EXCEPT ![c] = [Idle EXCEPT !.pc = "read", !.now = clock]]
  /\ UNCHANGED <<clock, memory, last_sent, events, held, reported, changes, lost>>

(* The loop: on to the next parameter, or out when its lookup finds none.  *)
NextParam(c) ==
  run' = [run EXCEPT ![c] = IF run[c].i < Count
                            THEN [run[c] EXCEPT !.pc = "read", !.i = run[c].i + 1] ELSE Idle]

(* Variant: the mask is one bit short. *)
ReadHalf(c) ==
  /\ At(c, "read")
  /\ run' = [run EXCEPT ![c].pc = "compare",
               ![c].actual = [b \in 1 .. Width |->
                  IF b > Size[run[c].i] % (Width \div 2) THEN @[b] ELSE memory[run[c].i][b]],
               ![c].fresh = TRUE]
  /\ UNCHANGED <<clock, memory, last_sent, events, held, reported, changes, lost>>

(* fresh, for the properties: the memory has not changed since the read.   *)
ReadParam(c) ==
  /\ At(c, "read")
  /\ run' = [run EXCEPT ![c].pc = "compare",
                        ![c].actual = bpf_probe_read_kernel(@, run[c].i),
                        ![c].fresh = TRUE]
  /\ UNCHANGED <<clock, memory, last_sent, events, held, reported, changes, lost>>

(* Variant: the loop ends at the first parameter that has its value. *)
CompareAndStop(c) ==
  LET i == run[c].i
  IN  /\ At(c, "compare")
      /\ run' = [run EXCEPT ![c] =
                   IF Expected[i] # run[c].actual /\ last_sent[i] < Threshold(run[c].now)
                   THEN [@ EXCEPT !.pc = "send"] ELSE Idle]
      /\ UNCHANGED <<clock, memory, last_sent, events, held, reported, changes, lost>>

CompareParam(c) ==
  LET i == run[c].i
  IN  /\ At(c, "compare")
      /\ IF Expected[i] # run[c].actual /\ last_sent[i] < Threshold(run[c].now)
         THEN run' = [run EXCEPT ![c].pc = "send"]
         ELSE NextParam(c)
      /\ UNCHANGED <<clock, memory, last_sent, events, held, reported, changes, lost>>

SendEvent(c) ==
  LET r == run[c]
  IN  /\ At(c, "send")
      /\ events' = events \cup {[cpu |-> c, param |-> r.i, time |-> r.now, actual |-> r.actual]}
      /\ reported' = IF r.fresh THEN reported \cup {r.i} ELSE reported
      /\ run' = [run EXCEPT ![c].pc = "record"]
      /\ UNCHANGED <<clock, memory, last_sent, held, changes, lost>>

LoseEvent(c) ==
  /\ At(c, "send")
  /\ lost < MaxLost
  /\ lost' = lost + 1
  /\ NextParam(c)
  /\ UNCHANGED <<clock, memory, last_sent, events, held, reported, changes>>

RecordSent(c) ==
  /\ At(c, "record")
  /\ last_sent' = [last_sent EXCEPT ![run[c].i] = run[c].now]
  /\ NextParam(c)
  /\ UNCHANGED <<clock, memory, events, held, reported, changes, lost>>

run_kernel_parameter_check(c) ==
  \/ ReadParam(c) \/ CompareParam(c) \/ SendEvent(c) \/ LoseEvent(c) \/ RecordSent(c)

-----------------------------------------------------------------------------
(* The environment.  A change leaves time for the ticker to pass before    *)
(* the clock reaches its bound.                                            *)
Tick ==
  /\ clock < MaxTime
  /\ clock' = clock + 1
  /\ UNCHANGED <<memory, last_sent, run, events, held, reported, changes, lost>>

ChangeMemory(i, v) ==
  /\ changes < MaxChanges
  /\ clock + Ticker < MaxTime
  /\ memory[i] # v
  /\ memory' = [memory EXCEPT ![i] = v]
  /\ held' = [held EXCEPT ![i] = @ \cup {v}]
  /\ reported' = reported \ {i}
  /\ run' = [c \in Cpu |-> IF run[c].i = i THEN [run[c] EXCEPT !.fresh = FALSE] ELSE run[c]]
  /\ changes' = changes + 1
  /\ UNCHANGED <<clock, last_sent, events, lost>>

Next ==
  \/ \E c \in Cpu : Begin(c) \/ run_kernel_parameter_check(c)
  \/ Tick
  \/ \E i \in Param, v \in Content : ChangeMemory(i, v)

Spec == Init /\ [][Next]_vars

(***************************************************************************)
(* Fairness: time passes; a check that started runs to its end; the        *)
(* periodic perf event starts one on every CPU again and again.            *)
(***************************************************************************)
Fairness ==
  /\ WF_vars(Tick)
  /\ \A c \in Cpu : WF_vars(Begin(c)) /\ WF_vars(run_kernel_parameter_check(c))

FairSpec == Spec /\ Fairness

-----------------------------------------------------------------------------
Run == [pc : {"idle", "read", "compare", "send", "record"}, i : Param,
        now : 0 .. MaxTime, actual : Value, fresh : BOOLEAN]

(* Every variable keeps its type. *)
TypeOK ==
  /\ clock \in 0 .. MaxTime
  /\ memory \in [Param -> Content]
  /\ last_sent \in [Param -> 0 .. MaxTime]
  /\ run \in [Cpu -> Run]
  /\ events \subseteq Event
  /\ held \in [Param -> SUBSET Content]
  /\ reported \subseteq Param
  /\ changes \in 0 .. MaxChanges /\ lost \in 0 .. MaxLost

(* No false alarm: an event carries the bytes the parameter's memory held  *)
(* at some time, and they differ from the expected ones.  The event buffer *)
(* is not cleared between parameters, so this needs sizes that fit and     *)
(* never shrink along the list.                                            *)
SizesFit ==
  /\ \A i \in Param : Size[i] \in 1 .. Width - 1
  /\ \A i, j \in Param : i < j => Size[i] <= Size[j]

Truncated(v, n) == [b \in 1 .. Width |-> IF b <= n THEN v[b] ELSE 0]

NoFalseAlarm ==
  SizesFit =>
    \A e \in events :
      e.param \in Resolved =>
        \E v \in held[e.param] :
          e.actual = Truncated(v, Size[e.param]) /\ e.actual # Expected[e.param]

(* A parameter whose bytes differ from the expected ones is reported, or   *)
(* changes again, even when events are lost or a ticker has to pass first. *)
(* (A parameter of the full width is never read.)                          *)
Differs(i) == \E b \in 1 .. ReadSize(i) : memory[i][b] # Expected[i][b]

MismatchReported ==
  \A i \in Param : \A n \in 0 .. MaxChanges :
    (i \in Resolved /\ Differs(i) /\ changes = n) ~> (i \in reported \/ changes > n)

=============================================================================
