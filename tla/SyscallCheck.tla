---------------------------- MODULE SyscallCheck ----------------------------
(***************************************************************************)
(* Detection of hooked syscalls (krie/syscall_check.h).  Two programs      *)
(* share check_syscall: the periodic sweep of a whole table (kind          *)
(* "table") and the check of the syscall being entered (kind "syscall").   *)
(* They run on all CPUs, and every access to kernel memory, to a BPF map   *)
(* or through a pointer into one is a step of its own.                     *)
(*                                                                         *)
(* Addresses are naturals; 0 is an empty table slot.  An entry of the      *)
(* syscall_table map is the sequence of the elements ever allocated for    *)
(* its key: the last one is in the map, the earlier ones were replaced by  *)
(* a later update and are reached only through a pointer a run still       *)
(* holds, written p: an index into the sequence, 0 for NULL.               *)
(***************************************************************************)
EXTENDS Naturals, Sequences, FiniteSets

CONSTANTS
  Cpu,
  Active,           \* the checks whose policy is not nop
  Table,            \* syscall tables whose symbol is known
  MaxSyscallNr,     \* MAX_SYSCALL_NR
  Nr,               \* syscall numbers user space passes, in the table or not
  Addr,             \* kernel addresses that appear in the tables
  Stext, Etext,     \* bounds of the kernel text
  MaxEntries,       \* max_entries of the two maps
  MaxHooks,         \* bound: changes of a table slot
  MaxLost           \* bound: perf events that cannot be sent

ASSUME SyscallCheckAssumption ==
  /\ IsFiniteSet(Cpu)
  /\ Active \subseteq {"table", "syscall"}
  /\ MaxSyscallNr \in Nat \ {0}
  /\ 1 .. MaxSyscallNr \subseteq Nr
  /\ Nr \subseteq Nat
  /\ Addr \subseteq Nat \ {0}
  /\ {Stext, Etext, MaxEntries, MaxHooks, MaxLost} \subseteq Nat

VARIABLES
  handler,              \* kernel memory: the handler address of each slot
  syscall_table,        \* BPF map, see above
  syscall_table_lock,   \* BPF map: the syscall numbers present
  run,                  \* the check in progress on each CPU
  reported,             \* hooks reported since another address was last seen
  events,               \* every hooked_syscall(_table) event sent
  hooks, lost           \* counters of the bounded environment steps

vars == <<handler, syscall_table, syscall_table_lock, run, reported, events, hooks, lost>>

Key == Table \X Nr
Element == [init : Addr, last : Addr \cup {0}]
Event == [kind : {"table", "syscall"}, key : Key, init : Addr, new : Addr]

check_syscall_addr(addr) == addr > Stext /\ addr < Etext

Hooks(addr) == addr # 0 /\ ~ check_syscall_addr(addr)

AnyKey == CHOOSE k \in Key : TRUE
Idle == [pc |-> "idle", kind |-> "table", key |-> AnyKey, p |-> 0,
         addr |-> 0, has_lock |-> FALSE, alert |-> FALSE, hooked |-> FALSE]

(* A table may be hooked before KRIe starts, and the memory behind it, at  *)
(* numbers beyond MaxSyscallNr, may hold anything.                         *)
Init ==
  /\ handler \in [Key -> Addr \cup {0}]
  /\ syscall_table = [k \in Key |-> <<>>]
  /\ syscall_table_lock = {}
  /\ run = [c \in Cpu |-> Idle]
  /\ reported = [k \in Key |-> {}]
  /\ events = {}
  /\ hooks = 0
  /\ lost = 0

-----------------------------------------------------------------------------
At(c, pc) == run[c].pc = pc

Goto(c, r, pc) == run' = [run EXCEPT ![c] = [r EXCEPT !.pc = pc]]

(* check_syscall returned: the sweep goes on to the next syscall.          *)
Advance(c, r) ==
  IF r.kind = "table" /\ r.key[2] < MaxSyscallNr
  THEN run' = [run EXCEPT ![c] = [Idle EXCEPT !.pc = "lookup", !.key = <<r.key[1], r.key[2] + 1>>,
                                              !.hooked = r.hooked]]
  ELSE run' = [run EXCEPT ![c] = Idle]

run_syscall_table_check(c, t) ==
  /\ At(c, "idle")
  /\ "table" \in Active
  /\ Goto(c, [Idle EXCEPT !.kind = "table", !.key = <<t, 1>>], "lookup")
  /\ UNCHANGED <<handler, syscall_table, syscall_table_lock, reported, events, hooks, lost>>

run_syscall_check(c, k) ==
  /\ At(c, "idle")
  /\ "syscall" \in Active
  /\ Goto(c, [Idle EXCEPT !.kind = "syscall", !.key = k], "lookup")
  /\ UNCHANGED <<handler, syscall_table, syscall_table_lock, reported, events, hooks, lost>>

(* Variant: the entry is not looked up. *)
LookupNothing(c) ==
  /\ At(c, "lookup")
  /\ Goto(c, run[c], "read")
  /\ UNCHANGED <<handler, syscall_table, syscall_table_lock, reported, events, hooks, lost>>

LookupEntry(c) ==
  /\ At(c, "lookup")
  /\ Goto(c, [run[c] EXCEPT !.p = Len(syscall_table[run[c].key])], "read")
  /\ UNCHANGED <<handler, syscall_table, syscall_table_lock, reported, events, hooks, lost>>

ReadHandler(c) ==
  LET addr == handler[run[c].key]
  IN  /\ At(c, "read")
      /\ IF addr = 0 THEN Advance(c, run[c])
                     ELSE Goto(c, [run[c] EXCEPT !.addr = addr], "lock")
      /\ UNCHANGED <<handler, syscall_table, syscall_table_lock, reported, events, hooks, lost>>

(* Variant: the number is not stored. *)
LockNothing(nr) == UNCHANGED syscall_table_lock

(* The helper returns 0 when it stores the key, so the boolean made of its *)
(* result is TRUE when the key was there already or the map is full.       *)
(* Nothing ever removes a key.                                             *)
Taken(nr) == nr \in syscall_table_lock \/ Cardinality(syscall_table_lock) >= MaxEntries

lock_syscall_table(nr) ==
  syscall_table_lock' = IF Taken(nr) THEN syscall_table_lock ELSE syscall_table_lock \cup {nr}

(* Variant: the boolean the other way round. *)
LockFirstTaker(c) ==
  LET has_lock == ~ Taken(run[c].key[2])
      r        == [run[c] EXCEPT !.has_lock = has_lock]
  IN  /\ At(c, "lock")
      /\ lock_syscall_table(r.key[2])
      /\ IF r.p = 0 THEN IF has_lock THEN Goto(c, r, "create") ELSE Advance(c, r)
                    ELSE Goto(c, r, "compare")
      /\ UNCHANGED <<handler, syscall_table, reported, events, hooks, lost>>

Lock(c) ==
  LET has_lock == Taken(run[c].key[2])
      r        == [run[c] EXCEPT !.has_lock = has_lock]
  IN  /\ At(c, "lock")
      /\ lock_syscall_table(r.key[2])
      /\ IF r.p = 0 THEN IF has_lock THEN Goto(c, r, "create") ELSE Advance(c, r)
                    ELSE Goto(c, r, "compare")
      /\ UNCHANGED <<handler, syscall_table, reported, events, hooks, lost>>

(* BPF_ANY: an entry another check has put there meanwhile is replaced.    *)
(* The update of a full map fails, and its result is not looked at.        *)
CreateEntry(c) ==
  LET k    == run[c].key
      used == {j \in Key : syscall_table[j] # <<>>}
  IN  /\ At(c, "create")
      /\ syscall_table' =
           IF k \notin used /\ Cardinality(used) >= MaxEntries THEN syscall_table
           ELSE [syscall_table EXCEPT ![k] = Append(@, [init |-> run[c].addr, last |-> 0])]
      /\ Goto(c, run[c], "find")
      /\ UNCHANGED <<handler, syscall_table_lock, reported, events, hooks, lost>>

(* Variant: the second lookup is trusted. *)
FindUnchecked(c) ==
  /\ At(c, "find")
  /\ Goto(c, [run[c] EXCEPT !.p = Len(syscall_table[run[c].key])], "compare")
  /\ UNCHANGED <<handler, syscall_table, syscall_table_lock, reported, events, hooks, lost>>

FindEntry(c) ==
  LET r == [run[c] EXCEPT !.p = Len(syscall_table[run[c].key])]
  IN  /\ At(c, "find")
      /\ IF r.p = 0 THEN Advance(c, r) ELSE Goto(c, r, "compare")
      /\ UNCHANGED <<handler, syscall_table, syscall_table_lock, reported, events, hooks, lost>>

(* Variant: any change of address is an alert. *)
AlertOnChange(r, last) == r.kind = "syscall" \/ (r.has_lock /\ last # r.addr)

ShouldAlert(r, last) ==
  /\ ~ check_syscall_addr(r.addr)
  /\ r.kind = "syscall" \/ (r.has_lock /\ last # r.addr)

CompareEntry(c) ==
  LET r     == run[c]
      alert == ShouldAlert(r, syscall_table[r.key][r.p].last)
      s     == [r EXCEPT !.alert = alert]
  IN  /\ At(c, "compare")
      /\ IF r.has_lock THEN Goto(c, s, "write")
         ELSE IF alert THEN Goto(c, s, "send") ELSE Advance(c, s)
      /\ UNCHANGED <<handler, syscall_table, syscall_table_lock, reported, events, hooks, lost>>

WriteLast(c) ==
  LET r == run[c]
  IN  /\ At(c, "write")
      /\ syscall_table' = [syscall_table EXCEPT ![r.key][r.p].last = r.addr]
      /\ reported' = [reported EXCEPT ![r.key] = @ \cap {r.addr}]
      /\ IF r.alert THEN Goto(c, r, "send") ELSE Advance(c, r)
      /\ UNCHANGED <<handler, syscall_table_lock, events, hooks, lost>>

SendEvent(c) ==
  LET r == [run[c] EXCEPT !.hooked = TRUE]
  IN  /\ At(c, "send")
      /\ events' = events \cup
           {[kind |-> r.kind, key |-> r.key,
             init |-> syscall_table[r.key][r.p].init, new |-> r.addr]}
      /\ reported' = IF r.kind = "table" THEN [reported EXCEPT ![r.key] = @ \cup {r.addr}]
                                         ELSE reported
      /\ Advance(c, r)
      /\ UNCHANGED <<handler, syscall_table, syscall_table_lock, hooks, lost>>

(* Variant: nothing is done about the lost event. *)
ForgetLost(c) ==
  LET r == [run[c] EXCEPT !.hooked = TRUE]
  IN  /\ At(c, "send")
      /\ lost < MaxLost
      /\ lost' = lost + 1
      /\ Advance(c, r)
      /\ UNCHANGED <<handler, syscall_table, syscall_table_lock, reported, events, hooks>>

LoseEvent(c) ==
  LET r == [run[c] EXCEPT !.hooked = TRUE]
  IN  /\ At(c, "send")
      /\ lost < MaxLost
      /\ lost' = lost + 1
      /\ IF r.has_lock /\ r.kind = "table" THEN Goto(c, r, "reset") ELSE Advance(c, r)
      /\ UNCHANGED <<handler, syscall_table, syscall_table_lock, reported, events, hooks>>

ResetLast(c) ==
  LET r == run[c]
  IN  /\ At(c, "reset")
      /\ syscall_table' = [syscall_table EXCEPT ![r.key][r.p].last = 0]
      /\ Advance(c, r)
      /\ UNCHANGED <<handler, syscall_table_lock, reported, events, hooks, lost>>

check_syscall(c) ==
  \/ LookupEntry(c) \/ ReadHandler(c) \/ Lock(c) \/ CreateEntry(c) \/ FindEntry(c)
  \/ CompareEntry(c) \/ WriteLast(c) \/ SendEvent(c) \/ LoseEvent(c) \/ ResetLast(c)

(* The environment: a slot of a table is overwritten.                      *)
ChangeHandler(k, addr) ==
  /\ hooks < MaxHooks
  /\ k[2] <= MaxSyscallNr
  /\ handler[k] \notin {0, addr}
  /\ handler' = [handler EXCEPT ![k] = addr]
  /\ hooks' = hooks + 1
  /\ UNCHANGED <<syscall_table, syscall_table_lock, run, reported, events, lost>>

Next ==
  \/ \E c \in Cpu : check_syscall(c)
  \/ \E c \in Cpu, t \in Table : run_syscall_table_check(c, t)
  \/ \E c \in Cpu, k \in Key : run_syscall_check(c, k)
  \/ \E k \in Key, addr \in Addr : ChangeHandler(k, addr)

Spec == Init /\ [][Next]_vars

(***************************************************************************)
(* Fairness: a check that started runs to its end; the periodic sweep runs *)
(* on every CPU again and again, and its pick by the clock falls on every  *)
(* table again and again.                                                  *)
(***************************************************************************)
Fairness ==
  /\ \A c \in Cpu : WF_vars(check_syscall(c))
  /\ \A c \in Cpu, t \in Table : SF_vars(run_syscall_table_check(c, t))

FairSpec == Spec /\ Fairness

(* For the check at syscall entry: every syscall is called again and again. *)
CalledSpec ==
  /\ Spec
  /\ \A c \in Cpu : WF_vars(check_syscall(c))
  /\ \A k \in Key : SF_vars(\E c \in Cpu : run_syscall_check(c, k))

-----------------------------------------------------------------------------
(* Every variable keeps its type, and a run's pointer is valid where the   *)
(* code follows it.                                                        *)
TypeOK ==
  /\ handler \in [Key -> Addr \cup {0}]
  /\ \A k \in Key : syscall_table[k] \in Seq(Element)
  /\ syscall_table_lock \subseteq Nr
  /\ \A c \in Cpu :
       /\ run[c].pc # "idle" => run[c].key \in Key /\ run[c].p <= Len(syscall_table[run[c].key])
       /\ run[c].pc \in {"compare", "write", "send", "reset"}
            => run[c].p > 0 /\ run[c].addr \in Addr
  /\ \A k \in Key : reported[k] \subseteq Addr
  /\ events \subseteq Event

(* The two maps are never out of step, even when they are full: an entry   *)
(* exists only for a number whose lock reads as taken, so a run that found *)
(* an entry always "has the lock" and always records the address it read.  *)
EntryImpliesLock ==
  /\ \A k \in Key : syscall_table[k] # <<>> => Taken(k[2])
  /\ \A c \in Cpu :
       run[c].pc \in {"create", "find", "compare", "write", "send", "reset"} => run[c].has_lock

(* The entry of a key is replaced only by checks that raced with its       *)
(* creation, so at most once per CPU over the whole life of the program:   *)
(* the recorded initial address settles.                                   *)
RecreationBounded ==
  \A k \in Key : Len(syscall_table[k]) <= Cardinality(Cpu)

(* A hook that stays in a slot the sweep visits is eventually reported,    *)
(* events that get lost included.  (One CPU that only sweeps: a second one *)
(* can store the recorded address again after the reset that follows a     *)
(* lost event, and the retry is lost.)                                     *)
HookReported ==
  \A k \in Key, a \in Addr :
    (k[2] \in 1 .. MaxSyscallNr /\ Hooks(a) /\ handler[k] = a)
      ~> (handler[k] # a \/ a \in reported[k])

(* A hooked syscall that is called again and again is eventually reported, *)
(* although its first check gives up, and whatever the sweeps and the      *)
(* calls of the other CPUs do meanwhile.                                   *)
HookedCallReported ==
  \A k \in Key, a \in Addr :
    (Hooks(a) /\ handler[k] = a)
      ~> (handler[k] # a \/ \E e \in events : e.kind = "syscall" /\ e.key = k /\ e.new = a)

-----------------------------------------------------------------------------
(* The initial addresses in the elements of each slot. *)
BaseOf == [k \in Key |-> [i \in DOMAIN syscall_table[k] |-> syscall_table[k][i].init]]

HasRoom(slots) == ~ (Cardinality(slots) >= MaxEntries)

Kept == INSTANCE Baseline WITH
       base <- BaseOf, alerts <- events, Suspect <- {a \in Addr : Hooks(a)},
       Racers <- Cardinality(Cpu), HasRoom <- HasRoom

(* The checks of all CPUs together implement the abstract baseline: what   *)
(* the stores and the stale pointers of racing checks do to an entry never *)
(* touches the initial address recorded in it, and an alert is about an    *)
(* address outside the text, next to an address recorded for its slot.     *)
BaselineKept == Kept!Spec

=============================================================================
