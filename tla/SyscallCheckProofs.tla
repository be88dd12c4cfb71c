------------------------- MODULE SyscallCheckProofs -------------------------
(***************************************************************************)
(* Proofs about the detection of hooked syscalls, for any number of CPUs,  *)
(* tables, syscalls, addresses and any capacity of the maps.               *)
(***************************************************************************)
EXTENDS SyscallCheck, FiniteSetTheorems, TLAPS

Pointing == {"compare", "write", "send", "reset"}
Locked == {"create", "find"} \cup Pointing
Pc == {"idle", "lookup", "read", "lock"} \cup Locked
Run == [pc : Pc, kind : {"table", "syscall"}, key : Key \cup {AnyKey}, p : Nat,
        addr : Addr \cup {0}, has_lock : BOOLEAN, alert : BOOLEAN, hooked : BOOLEAN]

(* What is known of the run on a CPU at each of its steps.                 *)
RunInv(c) ==
  /\ run[c].pc # "idle" => run[c].key \in Key /\ run[c].p <= Len(syscall_table[run[c].key])
  /\ run[c].pc \in {"lock"} \cup Locked => run[c].addr \in Addr
  /\ run[c].pc = "create" => run[c].p = 0
  /\ run[c].pc \in Pointing => run[c].p > 0
  /\ run[c].pc \in Locked => run[c].has_lock /\ Taken(run[c].key[2])
  /\ (run[c].pc = "send" \/ (run[c].pc = "write" /\ run[c].alert)) => ~ check_syscall_addr(run[c].addr)

DataInv ==
  /\ handler \in [Key -> Addr \cup {0}]
  /\ syscall_table \in [Key -> Seq(Element)]
  /\ syscall_table_lock \subseteq Nr
  /\ run \in [Cpu -> Run]
  /\ reported \in [Key -> SUBSET Addr]
  /\ events \subseteq Event

(* Every event names an address outside the kernel text, and next to it an *)
(* initial address that really was in that slot's element.                 *)
AlertsOutsideText ==
  \A e \in events :
    /\ ~ check_syscall_addr(e.new)
    /\ \E i \in 1 .. Len(syscall_table[e.key]) : syscall_table[e.key][i].init = e.init

Inv ==
  /\ DataInv
  /\ \A c \in Cpu : RunInv(c)
  /\ \A k \in Key : syscall_table[k] # <<>> => Taken(k[2])
  /\ AlertsOutsideText

(* The maps only grow: no step removes a lock or an element, or changes    *)
(* the initial address in one.                                             *)
TableGrows ==
  \A k \in Key : /\ Len(syscall_table[k]) <= Len(syscall_table'[k])
                 /\ \A i \in 1 .. Len(syscall_table[k]) :
                      syscall_table'[k][i].init = syscall_table[k][i].init
LocksKept == \A nr \in Nr : Taken(nr) => Taken(nr)'
Moves(c) == run' \in [Cpu -> Run] /\ \A d \in Cpu \ {c} : run'[d] = run[d]

-----------------------------------------------------------------------------
LEMMA IdleRun == Idle \in Run
  BY DEF Idle, Run, Pc

LEMMA KeyParts == \A k \in Key : k[1] \in Table /\ k[2] \in Nr /\ k[2] \in Nat
  BY SyscallCheckAssumption DEF Key

(* Where a run goes when check_syscall returns: to the next number of its  *)
(* table, with nothing found yet, or nowhere.                              *)
LEMMA Advances ==
  ASSUME DataInv, NEW c \in Cpu, NEW STATE r, r.key \in Key, r.hooked \in BOOLEAN, Advance(c, r)
  PROVE  /\ Moves(c)
         /\ run'[c].pc \in {"idle", "lookup"} /\ run'[c].p = 0 /\ run'[c].kind = "table"
         /\ run'[c].pc # "idle" => run'[c].key \in Key
<1>1. CASE r.kind = "table" /\ r.key[2] < MaxSyscallNr
  <2> DEFINE k == <<r.key[1], r.key[2] + 1>>
             s == [Idle EXCEPT !.pc = "lookup", !.key = k, !.hooked = r.hooked]
  <2>1. k \in Key
    <3>1. r.key[2] \in Nat /\ r.key[1] \in Table
      BY KeyParts
    <3>2. r.key[2] + 1 \in 1 .. MaxSyscallNr
      BY <1>1, <3>1, SyscallCheckAssumption
    <3> QED BY <3>1, <3>2, SyscallCheckAssumption DEF Key
  <2>2. s \in Run /\ s.pc = "lookup" /\ s.p = 0 /\ s.key = k /\ s.kind = "table"
    BY <2>1 DEF Idle, Run, Pc
  <2>3. run' = [run EXCEPT ![c] = s]
    BY <1>1 DEF Advance
  <2> HIDE DEF s, k
  <2> QED BY <2>1, <2>2, <2>3 DEF Moves, DataInv
<1>2. CASE ~(r.kind = "table" /\ r.key[2] < MaxSyscallNr)
  <2>1. run' = [run EXCEPT ![c] = Idle]
    BY <1>2 DEF Advance
  <2>2. Idle.pc = "idle" /\ Idle.p = 0 /\ Idle.kind = "table"
    BY DEF Idle
  <2> QED BY <2>1, <2>2, IdleRun DEF Moves, DataInv
<1> QED BY <1>1, <1>2

(* A run that goes on to a step of the same check.                         *)
LEMMA Goes ==
  ASSUME DataInv, NEW c \in Cpu, NEW STATE r, r \in Run, NEW pc \in Pc, Goto(c, r, pc)
  PROVE  /\ Moves(c)
         /\ run'[c].pc = pc /\ run'[c].key = r.key /\ run'[c].p = r.p /\ run'[c].addr = r.addr
         /\ run'[c].kind = r.kind
         /\ run'[c].has_lock = r.has_lock /\ run'[c].alert = r.alert
<1> DEFINE s == [r EXCEPT !.pc = pc]
<1>1. /\ s \in Run /\ s.pc = pc /\ s.key = r.key /\ s.p = r.p /\ s.addr = r.addr
      /\ s.kind = r.kind /\ s.has_lock = r.has_lock /\ s.alert = r.alert
  BY DEF Run
<1>2. run' = [run EXCEPT ![c] = s]
  BY DEF Goto
<1> HIDE DEF s
<1> QED BY <1>1, <1>2 DEF Moves, DataInv

(* What a run knows survives the growth of the maps.                       *)
LEMMA RunKept ==
  ASSUME Inv, NEW d \in Cpu, run'[d] = run[d], TableGrows, LocksKept, DataInv'
  PROVE  RunInv(d)'
<1>1. RunInv(d)
  BY DEF Inv
<1>2. run[d].pc # "idle" => run[d].key \in Key /\ run[d].key[2] \in Nr
  BY <1>1, KeyParts DEF RunInv
<1>3. run[d].pc # "idle" => Len(syscall_table[run[d].key]) <= Len(syscall_table'[run[d].key])
  BY <1>2 DEF TableGrows
<1>4. run[d].pc # "idle" => /\ Len(syscall_table[run[d].key]) \in Nat
                            /\ Len(syscall_table'[run[d].key]) \in Nat /\ run[d].p \in Nat
  BY <1>2 DEF Inv, DataInv, Run
<1>5. run[d].pc # "idle" => run[d].p <= Len(syscall_table'[run[d].key])
  BY <1>1, <1>3, <1>4 DEF RunInv
<1>6. run[d].pc \in Locked => Taken(run[d].key[2])'
  BY <1>1, <1>2 DEF RunInv, LocksKept, Locked, Pointing
<1> QED BY <1>1, <1>2, <1>5, <1>6 DEF RunInv

(* A step that leaves the maps alone.                                      *)
LEMMA MapsKept ==
  ASSUME UNCHANGED <<syscall_table, syscall_table_lock>>
  PROVE  TableGrows /\ LocksKept
  BY DEF TableGrows, LocksKept, Taken

(* What remains to show of a step of the run on one CPU.                   *)
LEMMA StepKeeps ==
  ASSUME Inv, NEW c \in Cpu, Moves(c), TableGrows, LocksKept, DataInv', RunInv(c)',
         \A k \in Key : syscall_table'[k] = syscall_table[k] \/ Taken(k[2]),
         events' = events \/ AlertsOutsideText'
  PROVE  Inv'
<1>1. \A d \in Cpu : RunInv(d)'
  BY RunKept DEF Moves
<1>2. \A k \in Key : syscall_table'[k] # <<>> => Taken(k[2])'
  BY KeyParts DEF Inv, LocksKept
<1>3. AlertsOutsideText'
  <2>1. CASE events' = events
    <3> SUFFICES ASSUME NEW e \in events
                 PROVE  /\ ~ check_syscall_addr(e.new)
                        /\ \E i \in 1 .. Len(syscall_table'[e.key]) : syscall_table'[e.key][i].init = e.init
      BY <2>1 DEF AlertsOutsideText, check_syscall_addr
    <3>1. e.key \in Key
      BY DEF Inv, DataInv, Event
    <3>2. Len(syscall_table[e.key]) \in Nat /\ Len(syscall_table'[e.key]) \in Nat
      BY <3>1 DEF Inv, DataInv
    <3>3. PICK i \in 1 .. Len(syscall_table[e.key]) : syscall_table[e.key][i].init = e.init
      BY DEF Inv, AlertsOutsideText
    <3>4. i \in 1 .. Len(syscall_table'[e.key]) /\ syscall_table'[e.key][i].init = e.init
      BY <3>1, <3>2, <3>3 DEF TableGrows
    <3> QED BY <3>4 DEF Inv, AlertsOutsideText
  <2> QED BY <2>1
<1> QED BY <1>1, <1>2, <1>3 DEF Inv

(* Steps that only move the run.                                           *)
LEMMA QuietStep ==
  ASSUME Inv, NEW c \in Cpu, Moves(c), RunInv(c)',
         UNCHANGED <<handler, syscall_table, syscall_table_lock, reported, events>>
  PROVE  Inv'
<1>1. DataInv'
  BY DEF Inv, DataInv, Moves
<1> QED BY <1>1, MapsKept, StepKeeps

LEMMA StartKeeps ==
  ASSUME Inv, NEW c \in Cpu,
         \/ \E t \in Table : run_syscall_table_check(c, t)
         \/ \E k \in Key : run_syscall_check(c, k)
  PROVE  Inv'
<1>1. PICK k \in Key, kind \in {"table", "syscall"} :
         Goto(c, [Idle EXCEPT !.kind = kind, !.key = k], "lookup")
  <2>1. ASSUME NEW t \in Table PROVE <<t, 1>> \in Key
    BY SyscallCheckAssumption DEF Key
  <2>2. ASSUME NEW t \in Table, run_syscall_table_check(c, t)
        PROVE  Goto(c, [Idle EXCEPT !.kind = "table", !.key = <<t, 1>>], "lookup")
    BY <2>2 DEF run_syscall_table_check
  <2>3. ASSUME NEW k \in Key, run_syscall_check(c, k)
        PROVE  Goto(c, [Idle EXCEPT !.kind = "syscall", !.key = k], "lookup")
    BY <2>3 DEF run_syscall_check
  <2> QED BY <2>1, <2>2, <2>3, Zenon
<1> DEFINE r == [Idle EXCEPT !.kind = kind, !.key = k]
<1>2. r \in Run /\ r.p = 0 /\ r.key = k /\ Goto(c, r, "lookup")
  BY <1>1 DEF Idle, Run, Pc
<1> HIDE DEF r
<1>3. Moves(c) /\ run'[c].pc = "lookup" /\ run'[c].key = k /\ run'[c].p = 0
  BY <1>2, Goes DEF Inv, Pc
<1>4. UNCHANGED <<handler, syscall_table, syscall_table_lock, reported, events>>
  BY DEF run_syscall_table_check, run_syscall_check
<1>5. Len(syscall_table[k]) \in Nat
  BY DEF Inv, DataInv
<1>6. RunInv(c)'
  BY <1>3, <1>4, <1>5 DEF RunInv, Locked, Pointing
<1> QED BY <1>3, <1>4, <1>6, QuietStep

(* A run that has advanced has nothing to keep.                            *)
LEMMA AdvancedRun ==
  ASSUME DataInv', NEW c \in Cpu, run'[c].pc \in {"idle", "lookup"}, run'[c].p = 0,
         run'[c].pc # "idle" => run'[c].key \in Key
  PROVE  RunInv(c)'
<1>1. \A k \in Key : Len(syscall_table'[k]) \in Nat
  BY DEF DataInv
<1> QED BY <1>1 DEF RunInv, Locked, Pointing

LEMMA LookupKeeps == ASSUME Inv, NEW c \in Cpu, LookupEntry(c) PROVE Inv'
<1> DEFINE r == [run[c] EXCEPT !.p = Len(syscall_table[run[c].key])]
<1>1. run[c] \in Run /\ run[c].pc = "lookup" /\ run[c].key \in Key
  BY DEF Inv, DataInv, RunInv, LookupEntry, At
<1>2. Len(syscall_table[run[c].key]) \in Nat
  BY <1>1 DEF Inv, DataInv
<1>3. r \in Run /\ r.key = run[c].key /\ r.p = Len(syscall_table[run[c].key])
  BY <1>1, <1>2 DEF Run
<1>4. Goto(c, r, "read") /\ UNCHANGED <<handler, syscall_table, syscall_table_lock, reported, events>>
  BY DEF LookupEntry
<1> HIDE DEF r
<1>5. Moves(c) /\ run'[c].pc = "read" /\ run'[c].key = r.key /\ run'[c].p = r.p
  BY <1>3, <1>4, Goes DEF Inv, Pc
<1>6. RunInv(c)'
  BY <1>1, <1>2, <1>3, <1>4, <1>5 DEF RunInv, Locked, Pointing
<1> QED BY <1>4, <1>5, <1>6, QuietStep

LEMMA ReadKeeps == ASSUME Inv, NEW c \in Cpu, ReadHandler(c) PROVE Inv'
<1> DEFINE addr == handler[run[c].key]
           r == [run[c] EXCEPT !.addr = addr]
<1>1. run[c] \in Run /\ run[c].pc = "read" /\ run[c].key \in Key /\ run[c].p <= Len(syscall_table[run[c].key])
  BY DEF Inv, DataInv, RunInv, ReadHandler, At
<1>2. addr \in Addr \cup {0} /\ run[c].hooked \in BOOLEAN
  BY <1>1 DEF Inv, DataInv, Run
<1>3. UNCHANGED <<handler, syscall_table, syscall_table_lock, reported, events>>
  BY DEF ReadHandler
<1>4. CASE addr = 0
  <2>1. Advance(c, run[c])
    BY <1>4 DEF ReadHandler
  <2>2. /\ Moves(c) /\ run'[c].pc \in {"idle", "lookup"} /\ run'[c].p = 0
        /\ run'[c].pc # "idle" => run'[c].key \in Key
    BY <2>1, <1>1, <1>2, Advances DEF Inv
  <2>3. DataInv'
    BY <2>2, <1>3 DEF Inv, DataInv, Moves
  <2> QED BY <2>2, <2>3, <1>3, AdvancedRun, QuietStep
<1>5. CASE addr # 0
  <2>1. Goto(c, r, "lock")
    BY <1>5 DEF ReadHandler
  <2>2. r \in Run /\ r.key = run[c].key /\ r.p = run[c].p /\ r.addr \in Addr
    BY <1>1, <1>2, <1>5 DEF Run
  <2> HIDE DEF r
  <2>3. Moves(c) /\ run'[c].pc = "lock" /\ run'[c].key = r.key /\ run'[c].p = r.p /\ run'[c].addr = r.addr
    BY <2>1, <2>2, Goes DEF Inv, Pc
  <2>4. RunInv(c)'
    BY <1>1, <1>3, <2>2, <2>3 DEF RunInv, Locked, Pointing
  <2> QED BY <2>3, <2>4, <1>3, QuietStep
<1> QED BY <1>4, <1>5

(* Nothing is ever removed from syscall_table_lock, and a number that is   *)
(* not there is stored whenever another one would not read as taken.       *)
LEMMA LockTakes ==
  ASSUME NEW nr \in Nr, lock_syscall_table(nr), syscall_table_lock \subseteq Nr
  PROVE  LocksKept /\ syscall_table_lock' \subseteq Nr
  BY DEF lock_syscall_table, LocksKept, Taken

LEMMA LockKeeps == ASSUME Inv, NEW c \in Cpu, Lock(c) PROVE Inv'
<1> DEFINE has == Taken(run[c].key[2])
           r == [run[c] EXCEPT !.has_lock = has]
<1>1. /\ run[c] \in Run /\ run[c].pc = "lock" /\ run[c].key \in Key /\ run[c].addr \in Addr
      /\ run[c].p <= Len(syscall_table[run[c].key])
  BY DEF Inv, DataInv, RunInv, Lock, At
<1>2. has \in BOOLEAN /\ run[c].key[2] \in Nr
  BY <1>1, KeyParts DEF Taken
<1> HIDE DEF has
<1>3. /\ r \in Run /\ r.key = run[c].key /\ r.p = run[c].p /\ r.addr = run[c].addr
      /\ r.has_lock = has /\ r.hooked \in BOOLEAN
  BY <1>1, <1>2 DEF Run
<1>4. UNCHANGED <<handler, syscall_table, reported, events>> /\ lock_syscall_table(r.key[2])
  BY DEF Lock, has
<1>5. IF r.p = 0 THEN IF has THEN Goto(c, r, "create") ELSE Advance(c, r) ELSE Goto(c, r, "compare")
  BY DEF Lock, has
<1> HIDE DEF r
<1>6. LocksKept /\ syscall_table_lock' \subseteq Nr /\ TableGrows
  BY <1>2, <1>3, <1>4, LockTakes DEF Inv, DataInv, TableGrows
<1>7. ASSUME Moves(c), RunInv(c)' PROVE Inv'
  <2>1. DataInv'
    BY <1>4, <1>6, <1>7 DEF Inv, DataInv, Moves
  <2> QED BY <2>1, <1>4, <1>6, <1>7, StepKeeps
<1>8. ASSUME NEW pc \in {"create", "compare"}, Goto(c, r, pc), has, IF pc = "compare" THEN r.p > 0 ELSE r.p = 0
      PROVE  Inv'
  <2>1. /\ Moves(c) /\ run'[c].pc = pc /\ run'[c].key = r.key /\ run'[c].p = r.p
        /\ run'[c].addr = r.addr /\ run'[c].has_lock = r.has_lock
    BY <1>3, <1>8, Goes DEF Inv, Pc, Locked, Pointing
  <2>2. Taken(run[c].key[2])' /\ run'[c].has_lock
    <3>1. Taken(run[c].key[2]) /\ r.has_lock
      BY <1>3, <1>8 DEF has
    <3>2. \A nr \in Nr : Taken(nr) => nr \in syscall_table_lock' \/ Cardinality(syscall_table_lock') >= MaxEntries
      BY <1>6 DEF LocksKept, Taken
    <3>3. run'[c].key[2] = run[c].key[2]
      BY <1>3, <2>1
    <3> QED BY <3>1, <3>2, <3>3, <1>2, <2>1 DEF Taken
  <2>3. RunInv(c)'
    BY <1>1, <1>3, <1>4, <1>8, <2>1, <2>2 DEF RunInv, Locked, Pointing
  <2> QED BY <2>1, <2>3, <1>7
<1>9. CASE r.p = 0 /\ ~ has
  <2>1. Advance(c, r)
    BY <1>5, <1>9
  <2>2. /\ Moves(c) /\ run'[c].pc \in {"idle", "lookup"} /\ run'[c].p = 0
        /\ run'[c].pc # "idle" => run'[c].key \in Key
    BY <2>1, <1>1, <1>3, Advances DEF Inv
  <2>3. DataInv'
    BY <2>2, <1>4, <1>6 DEF Inv, DataInv, Moves
  <2> QED BY <2>2, <2>3, <1>7, AdvancedRun
<1>10. CASE r.p = 0 /\ has
  BY <1>5, <1>8, <1>10
<1>11. CASE r.p # 0
  <2>1. r.p > 0 /\ syscall_table[run[c].key] # <<>>
    BY <1>1, <1>3, <1>11 DEF Run, Inv, DataInv
  <2>2. has
    BY <1>1, <2>1 DEF Inv, has
  <2> QED BY <1>5, <1>8, <1>11, <2>1, <2>2
<1> QED BY <1>9, <1>10, <1>11

(* An update of the table appends an element or changes the last address.  *)
LEMMA CreateKeeps == ASSUME Inv, NEW c \in Cpu, CreateEntry(c) PROVE Inv'
<1> DEFINE k == run[c].key
           v == [init |-> run[c].addr, last |-> 0]
<1>1. /\ run[c] \in Run /\ run[c].pc = "create" /\ k \in Key /\ run[c].addr \in Addr
      /\ run[c].p <= Len(syscall_table[k]) /\ run[c].has_lock /\ Taken(k[2])
  BY DEF Inv, DataInv, RunInv, CreateEntry, At, Locked
<1>2. UNCHANGED <<handler, syscall_table_lock, reported, events>> /\ Goto(c, run[c], "find")
  BY DEF CreateEntry
<1>3. /\ Moves(c) /\ run'[c].pc = "find" /\ run'[c].key = k /\ run'[c].p = run[c].p
      /\ run'[c].addr = run[c].addr /\ run'[c].has_lock = run[c].has_lock
  BY <1>1, <1>2, Goes DEF Inv, Pc, Locked
<1>4. syscall_table' = syscall_table \/ syscall_table' = [syscall_table EXCEPT ![k] = Append(@, v)]
  BY DEF CreateEntry
<1>5. v \in Element
  BY <1>1 DEF Element
<1> HIDE DEF k, v
<1>6. syscall_table' \in [Key -> Seq(Element)] /\ TableGrows
  <2>1. CASE syscall_table' = syscall_table
    BY <2>1 DEF Inv, DataInv, TableGrows
  <2>2. CASE syscall_table' = [syscall_table EXCEPT ![k] = Append(@, v)]
    <3>1. syscall_table \in [Key -> Seq(Element)]
      BY DEF Inv, DataInv
    <3>2. syscall_table' \in [Key -> Seq(Element)]
      BY <2>2, <3>1, <1>1, <1>5
    <3>3. ASSUME NEW j \in Key
          PROVE  /\ Len(syscall_table[j]) <= Len(syscall_table'[j])
                 /\ \A i \in 1 .. Len(syscall_table[j]) : syscall_table'[j][i] = syscall_table[j][i]
      <4>1. syscall_table[j] \in Seq(Element)
        BY <3>1
      <4>2. syscall_table'[j] = IF j = k THEN Append(syscall_table[j], v) ELSE syscall_table[j]
        BY <2>2, <3>1
      <4> QED BY <4>1, <4>2, <1>5
    <3> QED BY <3>2, <3>3 DEF TableGrows
  <2> QED BY <1>4, <2>1, <2>2
<1>7. LocksKept /\ Taken(k[2])'
  BY <1>1, <1>2, <1>3 DEF LocksKept, Taken, k
<1>8. DataInv'
  BY <1>2, <1>3, <1>6 DEF Inv, DataInv, Moves
<1>9. RunInv(c)'
  <2>1. Len(syscall_table[k]) \in Nat /\ Len(syscall_table'[k]) \in Nat /\ run[c].p \in Nat
    BY <1>1, <1>6 DEF Inv, DataInv, Run
  <2>2. run[c].p <= Len(syscall_table'[k])
    BY <1>1, <1>6, <2>1 DEF TableGrows
  <2>3. Taken(run[c].key[2])' /\ run'[c].key = run[c].key
    BY <1>2, <1>3, <1>7 DEF k, Taken
  <2> QED BY <1>1, <1>3, <1>7, <2>2, <2>3 DEF RunInv, Locked, Pointing, Taken
<1>10. \A j \in Key : syscall_table'[j] = syscall_table[j] \/ Taken(j[2])
  BY <1>1, <1>4 DEF Inv, DataInv
<1> QED BY <1>2, <1>3, <1>6, <1>7, <1>8, <1>9, <1>10, StepKeeps

LEMMA FindKeeps == ASSUME Inv, NEW c \in Cpu, FindEntry(c) PROVE Inv'
<1> DEFINE n == Len(syscall_table[run[c].key])
           r == [run[c] EXCEPT !.p = n]
<1>1. /\ run[c] \in Run /\ run[c].pc = "find" /\ run[c].key \in Key /\ run[c].addr \in Addr
      /\ run[c].has_lock /\ Taken(run[c].key[2])
  BY DEF Inv, DataInv, RunInv, FindEntry, At, Locked
<1>2. n \in Nat
  BY <1>1 DEF Inv, DataInv
<1>3. UNCHANGED <<handler, syscall_table, syscall_table_lock, reported, events>>
  BY DEF FindEntry
<1>4. IF r.p = 0 THEN Advance(c, r) ELSE Goto(c, r, "compare")
  BY DEF FindEntry
<1>5. /\ r \in Run /\ r.key = run[c].key /\ r.p = n /\ r.addr = run[c].addr
      /\ r.has_lock = run[c].has_lock /\ r.hooked \in BOOLEAN
  BY <1>1, <1>2 DEF Run
<1> HIDE DEF r
<1>6. CASE r.p = 0
  <2>1. /\ Moves(c) /\ run'[c].pc \in {"idle", "lookup"} /\ run'[c].p = 0
        /\ run'[c].pc # "idle" => run'[c].key \in Key
    BY <1>1, <1>4, <1>5, <1>6, Advances DEF Inv
  <2>2. DataInv'
    BY <2>1, <1>3 DEF Inv, DataInv, Moves
  <2> QED BY <2>1, <2>2, <1>3, AdvancedRun, QuietStep
<1>7. CASE r.p # 0
  <2>1. /\ Moves(c) /\ run'[c].pc = "compare" /\ run'[c].key = r.key /\ run'[c].p = r.p
        /\ run'[c].addr = r.addr /\ run'[c].has_lock = r.has_lock
    BY <1>4, <1>5, <1>7, Goes DEF Inv, Pc, Locked, Pointing
  <2>2. RunInv(c)'
    BY <1>1, <1>2, <1>3, <1>5, <1>7, <2>1 DEF RunInv, Locked, Pointing, Taken
  <2> QED BY <2>1, <2>2, <1>3, QuietStep
<1> QED BY <1>6, <1>7

LEMMA CompareKeeps == ASSUME Inv, NEW c \in Cpu, CompareEntry(c) PROVE Inv'
<1> DEFINE alert == ShouldAlert(run[c], syscall_table[run[c].key][run[c].p].last)
           s == [run[c] EXCEPT !.alert = alert]
<1>1. /\ run[c] \in Run /\ run[c].pc = "compare" /\ run[c].key \in Key /\ run[c].addr \in Addr
      /\ run[c].p <= Len(syscall_table[run[c].key]) /\ run[c].p > 0
      /\ run[c].has_lock /\ Taken(run[c].key[2])
  BY DEF Inv, DataInv, RunInv, CompareEntry, At, Locked, Pointing
<1>2. alert \in BOOLEAN /\ (alert => ~ check_syscall_addr(run[c].addr))
  BY DEF ShouldAlert
<1>3. UNCHANGED <<handler, syscall_table, syscall_table_lock, reported, events>>
  BY DEF CompareEntry
<1>4. Goto(c, s, "write")
  BY <1>1 DEF CompareEntry
<1> HIDE DEF alert
<1>5. /\ s \in Run /\ s.key = run[c].key /\ s.p = run[c].p /\ s.addr = run[c].addr
      /\ s.has_lock = run[c].has_lock /\ s.alert = alert
  BY <1>1, <1>2 DEF Run
<1> HIDE DEF s
<1>6. /\ Moves(c) /\ run'[c].pc = "write" /\ run'[c].key = run[c].key /\ run'[c].p = run[c].p
      /\ run'[c].addr = run[c].addr /\ run'[c].has_lock = run[c].has_lock /\ run'[c].alert = alert
  BY <1>4, <1>5, Goes DEF Inv, Pc, Locked, Pointing
<1>7. RunInv(c)'
  BY <1>1, <1>2, <1>3, <1>6 DEF RunInv, Locked, Pointing, Taken, check_syscall_addr
<1> QED BY <1>3, <1>6, <1>7, QuietStep

(* A store through the pointer of a run changes the last address of an     *)
(* element, in the map or replaced.                                        *)
LEMMA StoreLast ==
  ASSUME Inv, NEW k \in Key, NEW p \in 1 .. Len(syscall_table[k]), NEW a \in Addr \cup {0},
         syscall_table' = [syscall_table EXCEPT ![k][p].last = a]
  PROVE  /\ syscall_table' \in [Key -> Seq(Element)] /\ TableGrows
         /\ \A j \in Key \ {k} : syscall_table'[j] = syscall_table[j]
         /\ Len(syscall_table'[k]) = Len(syscall_table[k]) /\ syscall_table'[k][p].last = a
         /\ \A i \in 1 .. Len(syscall_table[k]) \ {p} : syscall_table'[k][i] = syscall_table[k][i]
<1> DEFINE q == syscall_table[k]
           v == [q[p] EXCEPT !.last = a]
<1>1. syscall_table \in [Key -> Seq(Element)] /\ q \in Seq(Element)
  BY DEF Inv, DataInv
<1>2. q[p] \in Element
  BY <1>1
<1>3. v \in Element /\ v.last = a /\ v.init = q[p].init
  BY <1>2 DEF Element
<1>4. syscall_table' = [syscall_table EXCEPT ![k] = [q EXCEPT ![p] = v]]
  BY <1>1
<1> HIDE DEF q, v
<1>5. /\ [q EXCEPT ![p] = v] \in Seq(Element) /\ Len([q EXCEPT ![p] = v]) = Len(q)
      /\ [q EXCEPT ![p] = v][p] = v /\ \A i \in 1 .. Len(q) \ {p} : [q EXCEPT ![p] = v][i] = q[i]
  BY <1>1, <1>3 DEF q
<1> DEFINE w == [q EXCEPT ![p] = v]
<1> HIDE DEF w
<1>6. /\ syscall_table' \in [Key -> Seq(Element)] /\ syscall_table'[k] = w
      /\ \A j \in Key \ {k} : syscall_table'[j] = syscall_table[j]
  BY <1>1, <1>4, <1>5 DEF w
<1>7. w \in Seq(Element) /\ Len(w) = Len(q) /\ w[p] = v /\ \A i \in 1 .. Len(q) \ {p} : w[i] = q[i]
  BY <1>5 DEF w
<1>8. TableGrows
  <2> SUFFICES ASSUME NEW j \in Key
               PROVE  /\ Len(syscall_table[j]) <= Len(syscall_table'[j])
                      /\ \A i \in 1 .. Len(syscall_table[j]) :
                            syscall_table'[j][i].init = syscall_table[j][i].init
    BY DEF TableGrows
  <2>1. CASE j = k
    BY <1>1, <1>3, <1>6, <1>7, <2>1 DEF q
  <2>2. CASE j # k
    <3>1. syscall_table'[j] = syscall_table[j] /\ Len(syscall_table[j]) \in Nat
      BY <1>1, <1>6, <2>2
    <3> QED BY <3>1
  <2> QED BY <2>1, <2>2
<1> QED BY <1>3, <1>6, <1>7, <1>8 DEF q

LEMMA WriteKeeps == ASSUME Inv, NEW c \in Cpu, WriteLast(c) PROVE Inv'
<1> DEFINE r == run[c]
           k == run[c].key
<1>1. /\ r \in Run /\ r.pc = "write" /\ k \in Key /\ r.addr \in Addr
      /\ r.p <= Len(syscall_table[k]) /\ r.p > 0
      /\ r.has_lock /\ Taken(k[2]) /\ (r.alert => ~ check_syscall_addr(r.addr))
  BY DEF Inv, DataInv, RunInv, WriteLast, At, Locked, Pointing
<1>2. r.p \in 1 .. Len(syscall_table[k]) /\ r.hooked \in BOOLEAN
  BY <1>1 DEF Inv, DataInv, Run
<1>3. /\ UNCHANGED <<handler, syscall_table_lock, events>>
      /\ syscall_table' = [syscall_table EXCEPT ![k][r.p].last = r.addr]
      /\ reported' = [reported EXCEPT ![k] = @ \cap {r.addr}]
      /\ IF r.alert THEN Goto(c, r, "send") ELSE Advance(c, r)
  BY DEF WriteLast
<1>4. /\ syscall_table' \in [Key -> Seq(Element)] /\ TableGrows
      /\ Len(syscall_table'[k]) = Len(syscall_table[k])
      /\ \A j \in Key : syscall_table'[j] = syscall_table[j] \/ Taken(j[2])
  BY <1>1, <1>2, <1>3, StoreLast
<1>5. reported' \in [Key -> SUBSET Addr] /\ LocksKept
  BY <1>3 DEF Inv, DataInv, LocksKept, Taken
<1>6. Moves(c) /\ RunInv(c)'
  <2>1. ASSUME Moves(c) PROVE DataInv'
    BY <2>1, <1>3, <1>4, <1>5 DEF Inv, DataInv, Moves
  <2>2. CASE r.alert
    <3>1. /\ Moves(c) /\ run'[c].pc = "send" /\ run'[c].key = r.key /\ run'[c].p = r.p
          /\ run'[c].addr = r.addr /\ run'[c].has_lock = r.has_lock
      BY <1>1, <1>3, <2>2, Goes DEF Inv, Pc, Locked, Pointing
    <3>2. RunInv(c)'
      BY <1>1, <1>3, <1>4, <2>2, <3>1 DEF RunInv, Locked, Pointing, Taken, check_syscall_addr
    <3> QED BY <3>1, <3>2
  <2>3. CASE ~ r.alert
    <3>1. /\ Moves(c) /\ run'[c].pc \in {"idle", "lookup"} /\ run'[c].p = 0
          /\ run'[c].pc # "idle" => run'[c].key \in Key
      BY <1>1, <1>2, <1>3, <2>3, Advances DEF Inv
    <3> QED BY <3>1, <2>1, AdvancedRun
  <2> QED BY <2>2, <2>3
<1>7. DataInv'
  BY <1>3, <1>4, <1>5, <1>6 DEF Inv, DataInv, Moves
<1> QED BY <1>3, <1>4, <1>5, <1>6, <1>7, StepKeeps

LEMMA ResetKeeps == ASSUME Inv, NEW c \in Cpu, ResetLast(c) PROVE Inv'
<1> DEFINE r == run[c]
           k == run[c].key
<1>1. /\ r \in Run /\ r.pc = "reset" /\ k \in Key
      /\ r.p <= Len(syscall_table[k]) /\ r.p > 0 /\ Taken(k[2])
  BY DEF Inv, DataInv, RunInv, ResetLast, At, Locked, Pointing
<1>2. r.p \in 1 .. Len(syscall_table[k]) /\ r.hooked \in BOOLEAN
  BY <1>1 DEF Inv, DataInv, Run
<1>3. /\ UNCHANGED <<handler, syscall_table_lock, reported, events>>
      /\ syscall_table' = [syscall_table EXCEPT ![k][r.p].last = 0]
      /\ Advance(c, r)
  BY DEF ResetLast
<1>4. /\ syscall_table' \in [Key -> Seq(Element)] /\ TableGrows
      /\ \A j \in Key : syscall_table'[j] = syscall_table[j] \/ Taken(j[2])
  BY <1>1, <1>2, <1>3, StoreLast
<1>5. /\ Moves(c) /\ run'[c].pc \in {"idle", "lookup"} /\ run'[c].p = 0
      /\ run'[c].pc # "idle" => run'[c].key \in Key
  BY <1>1, <1>2, <1>3, Advances DEF Inv
<1>6. DataInv' /\ LocksKept
  BY <1>3, <1>4, <1>5 DEF Inv, DataInv, Moves, LocksKept, Taken
<1>7. RunInv(c)'
  BY <1>5, <1>6, AdvancedRun
<1> QED BY <1>3, <1>4, <1>5, <1>6, <1>7, StepKeeps

LEMMA SendKeeps == ASSUME Inv, NEW c \in Cpu, SendEvent(c) PROVE Inv'
<1> DEFINE r == [run[c] EXCEPT !.hooked = TRUE]
           k == run[c].key
           i == run[c].p
           e == [kind |-> run[c].kind, key |-> k, init |-> syscall_table[k][i].init, new |-> run[c].addr]
<1>1. /\ run[c] \in Run /\ run[c].pc = "send" /\ k \in Key /\ run[c].addr \in Addr
      /\ i <= Len(syscall_table[k]) /\ i > 0 /\ ~ check_syscall_addr(run[c].addr)
  BY DEF Inv, DataInv, RunInv, SendEvent, At, Locked, Pointing
<1>2. i \in 1 .. Len(syscall_table[k]) /\ syscall_table[k] \in Seq(Element)
  BY <1>1 DEF Inv, DataInv, Run
<1>3. r.key = k /\ r.kind = run[c].kind /\ r.p = i /\ r.addr = run[c].addr /\ r.hooked \in BOOLEAN
  BY <1>1 DEF Run
<1>4. /\ UNCHANGED <<handler, syscall_table, syscall_table_lock>> /\ Advance(c, r)
      /\ events' = events \cup {e}
      /\ reported' = IF run[c].kind = "table" THEN [reported EXCEPT ![k] = @ \cup {run[c].addr}] ELSE reported
  BY <1>3 DEF SendEvent
<1>5. e \in Event /\ reported' \in [Key -> SUBSET Addr]
  <2>1. syscall_table[k][i] \in Element
    BY <1>2
  <2> QED BY <1>1, <1>4, <2>1 DEF Event, Element, Run, Inv, DataInv
<1> HIDE DEF r
<1>6. /\ Moves(c) /\ run'[c].pc \in {"idle", "lookup"} /\ run'[c].p = 0
      /\ run'[c].pc # "idle" => run'[c].key \in Key
  BY <1>1, <1>3, <1>4, Advances DEF Inv
<1>7. DataInv' /\ LocksKept /\ TableGrows
  BY <1>4, <1>5, <1>6, MapsKept DEF Inv, DataInv, Moves
<1>8. AlertsOutsideText'
  <2> SUFFICES ASSUME NEW f \in events'
               PROVE  /\ ~ check_syscall_addr(f.new)
                      /\ \E j \in 1 .. Len(syscall_table[f.key]) : syscall_table[f.key][j].init = f.init
    BY <1>4 DEF AlertsOutsideText, check_syscall_addr
  <2>1. CASE f = e
    BY <1>1, <1>2, <2>1
  <2>2. CASE f \in events
    BY <2>2 DEF Inv, AlertsOutsideText
  <2> QED BY <1>4, <2>1, <2>2
<1>9. RunInv(c)'
  BY <1>6, <1>7, AdvancedRun
<1> QED BY <1>4, <1>6, <1>7, <1>8, <1>9, StepKeeps

LEMMA LoseKeeps == ASSUME Inv, NEW c \in Cpu, LoseEvent(c) PROVE Inv'
<1> DEFINE r == [run[c] EXCEPT !.hooked = TRUE]
<1>1. /\ run[c] \in Run /\ run[c].pc = "send" /\ run[c].key \in Key /\ run[c].addr \in Addr
      /\ run[c].p <= Len(syscall_table[run[c].key]) /\ run[c].p > 0
      /\ run[c].has_lock /\ Taken(run[c].key[2])
  BY DEF Inv, DataInv, RunInv, LoseEvent, At, Locked, Pointing
<1>2. /\ r \in Run /\ r.key = run[c].key /\ r.p = run[c].p /\ r.addr = run[c].addr
      /\ r.has_lock = run[c].has_lock /\ r.hooked \in BOOLEAN
  BY <1>1 DEF Run
<1>3. /\ UNCHANGED <<handler, syscall_table, syscall_table_lock, reported, events>>
      /\ Goto(c, r, "reset") \/ Advance(c, r)
  BY DEF LoseEvent
<1> HIDE DEF r
<1>4. CASE Goto(c, r, "reset")
  <2>1. /\ Moves(c) /\ run'[c].pc = "reset" /\ run'[c].key = r.key /\ run'[c].p = r.p
        /\ run'[c].addr = r.addr /\ run'[c].has_lock = r.has_lock
    BY <1>2, <1>4, Goes DEF Inv, Pc, Locked, Pointing
  <2>2. RunInv(c)'
    BY <1>1, <1>2, <1>3, <2>1 DEF RunInv, Locked, Pointing, Taken
  <2> QED BY <2>1, <2>2, <1>3, QuietStep
<1>5. CASE Advance(c, r)
  <2>1. /\ Moves(c) /\ run'[c].pc \in {"idle", "lookup"} /\ run'[c].p = 0
        /\ run'[c].pc # "idle" => run'[c].key \in Key
    BY <1>1, <1>2, <1>5, Advances DEF Inv
  <2>2. DataInv'
    BY <2>1, <1>3 DEF Inv, DataInv, Moves
  <2> QED BY <2>1, <2>2, <1>3, AdvancedRun, QuietStep
<1> QED BY <1>3, <1>4, <1>5

(* A stutter, and a change of a table slot, which no run keeps in mind.    *)
LEMMA OutsideKeeps ==
  ASSUME Inv, (\E k \in Key, addr \in Addr : ChangeHandler(k, addr)) \/ UNCHANGED vars
  PROVE  Inv'
<1>1. UNCHANGED <<syscall_table, syscall_table_lock, run, reported, events>>
  BY DEF ChangeHandler, vars
<1>2. handler' \in [Key -> Addr \cup {0}]
  BY DEF Inv, DataInv, ChangeHandler, vars
<1>3. DataInv' /\ TableGrows /\ LocksKept
  BY <1>1, <1>2, MapsKept DEF Inv, DataInv
<1>4. \A d \in Cpu : RunInv(d)'
  BY <1>1, <1>3, RunKept
<1> QED BY <1>1, <1>3, <1>4 DEF Inv, AlertsOutsideText, check_syscall_addr, Taken

LEMMA Inductive == Spec => []Inv
<1>1. Init => Inv
  <2> SUFFICES ASSUME Init PROVE Inv
    OBVIOUS
  <2>1. DataInv
    BY IdleRun DEF Init, DataInv
  <2>2. \A c \in Cpu : RunInv(c)
    BY DEF Init, RunInv, Idle, Locked, Pointing
  <2> QED BY <2>1, <2>2 DEF Init, Inv, AlertsOutsideText
<1>2. Inv /\ [Next]_vars => Inv'
  <2> SUFFICES ASSUME Inv, [Next]_vars PROVE Inv'
    OBVIOUS
  <2>1. ASSUME NEW c \in Cpu, check_syscall(c) PROVE Inv'
    BY <2>1, LookupKeeps, ReadKeeps, LockKeeps, CreateKeeps, FindKeeps, CompareKeeps, WriteKeeps,
       SendKeeps, LoseKeeps, ResetKeeps DEF check_syscall
  <2> QED BY <2>1, StartKeeps, OutsideKeeps DEF Next
<1> QED BY <1>1, <1>2, PTL DEF Spec

(* The variables of the two checks keep their types and a run's pointer is *)
(* valid wherever check_syscall follows it.                                *)
THEOREM TypeCorrect == Spec => []TypeOK
<1>1. Inv => TypeOK
  BY DEF Inv, DataInv, RunInv, TypeOK, Locked, Pointing
<1> QED BY <1>1, Inductive, PTL

(* The map of entries and the map of locks are never out of step, whatever *)
(* races for the creation of an entry and whichever of the maps is full.   *)
THEOREM LockNeverMissing == Spec => []EntryImpliesLock
<1>1. Inv => EntryImpliesLock
  BY DEF Inv, RunInv, EntryImpliesLock, Locked, Pointing
<1> QED BY <1>1, Inductive, PTL

(* An event of check_syscall always names an address outside the kernel    *)
(* text, with an initial address recorded for that slot.                   *)
THEOREM AlertsAlwaysJustified == Spec => []AlertsOutsideText
<1>1. Inv => AlertsOutsideText
  BY DEF Inv
<1> QED BY <1>1, Inductive, PTL

-----------------------------------------------------------------------------
(* The checks that may still add an element for a key: they found none,    *)
(* and have not come to the update. Once there is an element their number  *)
(* only falls, by one for every element added.                             *)
Creating(k) == {c \in Cpu : /\ run[c].pc \in {"read", "lock", "create"}
                            /\ run[c].key = k /\ run[c].p = 0}
CreationInv ==
  \A k \in Key : Len(syscall_table[k]) > 0
                   => Len(syscall_table[k]) + Cardinality(Creating(k)) <= Cardinality(Cpu)

LEMMA CreatingFinite ==
  ASSUME NEW k
  PROVE  IsFiniteSet(Creating(k)) /\ Cardinality(Creating(k)) \in Nat /\ Cardinality(Cpu) \in Nat
  BY SyscallCheckAssumption, FS_Subset, FS_CardinalityType DEF Creating

(* A key that gets no new element.                                         *)
LEMMA CreatingShrinks ==
  ASSUME Inv, CreationInv, NEW k \in Key, Len(syscall_table'[k]) = Len(syscall_table[k]),
         Len(syscall_table[k]) > 0 => Creating(k)' \subseteq Creating(k)
  PROVE  Len(syscall_table'[k]) > 0
           => Len(syscall_table'[k]) + Cardinality(Creating(k)') <= Cardinality(Cpu)
<1> SUFFICES ASSUME Len(syscall_table[k]) > 0
             PROVE  Len(syscall_table[k]) + Cardinality(Creating(k)') <= Cardinality(Cpu)
  OBVIOUS
<1>1. /\ Cardinality(Creating(k)') <= Cardinality(Creating(k))
      /\ Cardinality(Creating(k)') \in Nat
  BY CreatingFinite, FS_Subset, FS_CardinalityType
<1>2. Len(syscall_table[k]) \in Nat
  BY DEF Inv, DataInv
<1> QED BY <1>1, <1>2, CreatingFinite DEF CreationInv

(* No check starts to create an element for a key that has one.            *)
LEMMA NotEntering ==
  ASSUME Inv, NEW c \in Cpu, check_syscall(c), NEW k \in Key, Len(syscall_table[k]) > 0,
         run'[c].pc \in {"read", "lock", "create"}, run'[c].key = k, run'[c].p = 0
  PROVE  c \in Creating(k)
<1>1. run[c] \in Run /\ run[c].hooked \in BOOLEAN /\ run \in [Cpu -> Run]
      /\ (run[c].pc # "idle" => run[c].key \in Key)
  BY DEF Inv, DataInv, Run, RunInv
<1>2. ASSUME NEW STATE r, r.key \in Key, r.hooked \in BOOLEAN, Advance(c, r) PROVE FALSE
  BY <1>2, Advances DEF Inv
<1>3. ASSUME NEW STATE r, r \in Run, NEW pc \in Pointing \cup {"find"}, Goto(c, r, pc) PROVE FALSE
  BY <1>3, Goes DEF Inv, Pc, Pointing, Locked
<1>4. CASE LookupEntry(c)
  <2> DEFINE r == [run[c] EXCEPT !.p = Len(syscall_table[run[c].key])]
  <2>1. run[c].key \in Key
    BY <1>1, <1>4 DEF LookupEntry, At
  <2>2. r \in Run /\ r.key = run[c].key /\ r.p = Len(syscall_table[run[c].key])
    <3>1. Len(syscall_table[run[c].key]) \in Nat
      BY <2>1 DEF Inv, DataInv
    <3> QED BY <1>1, <3>1 DEF Run
  <2>3. Goto(c, r, "read")
    BY <1>4 DEF LookupEntry
  <2> HIDE DEF r
  <2> QED BY <2>2, <2>3, Goes DEF Inv, Pc
<1>5. CASE ReadHandler(c)
  <2>1. run[c].pc = "read" /\ run[c].key \in Key
    BY <1>1, <1>5 DEF ReadHandler, At
  <2>2. Goto(c, [run[c] EXCEPT !.addr = handler[run[c].key]], "lock")
    BY <1>1, <1>2, <1>5, <2>1 DEF ReadHandler
  <2>3. run'[c].key = run[c].key /\ run'[c].p = run[c].p
    BY <1>1, <2>2 DEF Goto, Run
  <2> QED BY <2>1, <2>3 DEF Creating
<1>6. CASE Lock(c)
  <2> DEFINE has == Taken(run[c].key[2])
             r == [run[c] EXCEPT !.has_lock = has]
  <2>1. run[c].pc = "lock" /\ run[c].key \in Key /\ has \in BOOLEAN
    BY <1>1, <1>6 DEF Lock, At, Taken
  <2>2. Advance(c, r) \/ Goto(c, r, "create") \/ Goto(c, r, "compare")
    BY <1>6 DEF Lock
  <2> HIDE DEF has
  <2>3. r \in Run /\ r.key = run[c].key /\ r.p = run[c].p /\ r.hooked = run[c].hooked
    BY <1>1, <2>1 DEF Run
  <2> HIDE DEF r
  <2>4. Goto(c, r, "create")
    BY <1>1, <1>2, <1>3, <2>1, <2>2, <2>3 DEF Pointing
  <2>5. run'[c].key = run[c].key /\ run'[c].p = run[c].p
    BY <2>3, <2>4, Goes DEF Inv, Pc, Locked
  <2> QED BY <2>1, <2>5 DEF Creating
<1>7. CASE CreateEntry(c)
  BY <1>1, <1>3, <1>7 DEF CreateEntry
<1>8. CASE FindEntry(c)
  <2> DEFINE r == [run[c] EXCEPT !.p = Len(syscall_table[run[c].key])]
  <2>1. run[c].key \in Key
    BY <1>1, <1>8 DEF FindEntry, At
  <2>2. r \in Run /\ r.key = run[c].key /\ r.hooked = run[c].hooked
    <3>1. Len(syscall_table[run[c].key]) \in Nat
      BY <2>1 DEF Inv, DataInv
    <3> QED BY <1>1, <3>1 DEF Run
  <2>3. Advance(c, r) \/ Goto(c, r, "compare")
    BY <1>8 DEF FindEntry
  <2> HIDE DEF r
  <2> QED BY <1>1, <1>2, <1>3, <2>1, <2>2, <2>3 DEF Pointing
<1>9. CASE CompareEntry(c)
  <2> DEFINE alert == ShouldAlert(run[c], syscall_table[run[c].key][run[c].p].last)
             r == [run[c] EXCEPT !.alert = alert]
  <2>1. run[c].key \in Key /\ alert \in BOOLEAN
    BY <1>1, <1>9 DEF CompareEntry, At, ShouldAlert
  <2>2. Advance(c, r) \/ Goto(c, r, "write") \/ Goto(c, r, "send")
    BY <1>9 DEF CompareEntry
  <2> HIDE DEF alert
  <2>3. r \in Run /\ r.key = run[c].key /\ r.hooked = run[c].hooked
    BY <1>1, <2>1 DEF Run
  <2> HIDE DEF r
  <2> QED BY <1>1, <1>2, <1>3, <2>1, <2>2, <2>3 DEF Pointing
<1>10. CASE WriteLast(c) \/ ResetLast(c)
  <2>1. run[c].key \in Key /\ (Advance(c, run[c]) \/ Goto(c, run[c], "send"))
    BY <1>1, <1>10 DEF WriteLast, ResetLast, At
  <2> QED BY <1>1, <1>2, <1>3, <2>1 DEF Pointing
<1>11. CASE SendEvent(c) \/ LoseEvent(c)
  <2> DEFINE r == [run[c] EXCEPT !.hooked = TRUE]
  <2>1. run[c].key \in Key /\ (Advance(c, r) \/ Goto(c, r, "reset"))
    BY <1>1, <1>11 DEF SendEvent, LoseEvent, At
  <2>2. r \in Run /\ r.key = run[c].key /\ r.hooked \in BOOLEAN
    BY <1>1 DEF Run
  <2> HIDE DEF r
  <2> QED BY <1>2, <1>3, <2>1, <2>2 DEF Pointing
<1> QED BY <1>4, <1>5, <1>6, <1>7, <1>8, <1>9, <1>10, <1>11 DEF check_syscall

(* A new element takes the place of the check that creates it.             *)
LEMMA CreateCounts ==
  ASSUME Inv, CreationInv, NEW c \in Cpu, CreateEntry(c), NEW k \in Key
  PROVE  Len(syscall_table'[k]) > 0
           => Len(syscall_table'[k]) + Cardinality(Creating(k)') <= Cardinality(Cpu)
<1> DEFINE v == [init |-> run[c].addr, last |-> 0]
<1>1. /\ run[c] \in Run /\ run[c].pc = "create" /\ run[c].key \in Key /\ run[c].p = 0
      /\ syscall_table \in [Key -> Seq(Element)] /\ run[c].addr \in Addr
  BY DEF Inv, DataInv, RunInv, CreateEntry, At, Locked
<1>2. Moves(c) /\ run'[c].pc = "find"
  BY <1>1, Goes DEF CreateEntry, Inv, Pc, Locked
<1>3. Creating(k)' \subseteq Creating(k) \ {c}
  BY <1>2 DEF Creating, Moves
<1>4. CASE syscall_table'[k] = syscall_table[k]
  BY <1>3, <1>4, CreatingShrinks
<1>5. CASE syscall_table'[k] # syscall_table[k]
  <2>1. k = run[c].key /\ syscall_table'[k] = Append(syscall_table[k], v)
    BY <1>1, <1>5 DEF CreateEntry
  <2>2. Len(syscall_table'[k]) = Len(syscall_table[k]) + 1 /\ Len(syscall_table[k]) \in Nat
    <3>1. v \in Element /\ syscall_table[k] \in Seq(Element)
      BY <1>1 DEF Element
    <3> HIDE DEF v
    <3> QED BY <2>1, <3>1
  <2>3. c \in Creating(k)
    BY <1>1, <2>1 DEF Creating
  <2> DEFINE S == IF Len(syscall_table[k]) > 0 THEN Creating(k) ELSE Cpu
  <2>4. c \in S /\ IsFiniteSet(S) /\ Creating(k)' \subseteq S \ {c} /\ Creating(k) \subseteq Cpu
    BY <1>3, <2>3, CreatingFinite, SyscallCheckAssumption DEF Creating
  <2>5. Len(syscall_table[k]) + Cardinality(S) <= Cardinality(Cpu)
    BY <2>2, CreatingFinite DEF CreationInv
  <2> HIDE DEF S
  <2>6. Cardinality(S \ {c}) = Cardinality(S) - 1 /\ IsFiniteSet(S \ {c}) /\ Cardinality(S) \in Nat
    BY <2>4, FS_RemoveElement, FS_CardinalityType
  <2>7. Cardinality(Creating(k)') <= Cardinality(S \ {c}) /\ Cardinality(Creating(k)') \in Nat
    BY <2>4, <2>6, FS_Subset, FS_CardinalityType
  <2>8. Cardinality(Cpu) \in Nat
    BY CreatingFinite
  <2> DEFINE n == Len(syscall_table[k])
             x == Cardinality(Creating(k)')
             y == Cardinality(S)
             z == Cardinality(Cpu)
  <2>9. n \in Nat /\ x \in Nat /\ y \in Nat /\ z \in Nat /\ n + y <= z /\ x <= y - 1
    BY <2>2, <2>5, <2>6, <2>7, <2>8
  <2> HIDE DEF n, x, y, z
  <2>10. (n + 1) + x <= z
    BY <2>9
  <2> QED BY <2>2, <2>10 DEF n, x, z
<1> QED BY <1>4, <1>5

LEMMA CreationStep == ASSUME Inv, CreationInv, [Next]_vars PROVE CreationInv'
<1> SUFFICES ASSUME NEW k \in Key
             PROVE  Len(syscall_table'[k]) > 0
                      => Len(syscall_table'[k]) + Cardinality(Creating(k)') <= Cardinality(Cpu)
  BY DEF CreationInv
<1>1. ASSUME NEW c \in Cpu, check_syscall(c), ~ CreateEntry(c)
      PROVE  /\ Len(syscall_table'[k]) = Len(syscall_table[k])
             /\ \A d \in Cpu \ {c} : run'[d] = run[d]
  <2>1. \A d \in Cpu \ {c} : run'[d] = run[d]
    BY <1>1 DEF Inv, DataInv, check_syscall, LookupEntry, ReadHandler, Lock, FindEntry, CompareEntry,
       WriteLast, SendEvent, LoseEvent, ResetLast, Goto, Advance
  <2>2. CASE WriteLast(c) \/ ResetLast(c)
    <3>1. run[c].pc \in Pointing
      BY <2>2 DEF WriteLast, ResetLast, At, Pointing
    <3>2. /\ run[c] \in Run /\ run[c].key \in Key /\ run[c].addr \in Addr
          /\ run[c].p \in 1 .. Len(syscall_table[run[c].key])
      BY <3>1 DEF Inv, DataInv, RunInv, Run, Pointing, Locked
    <3>3. \E a \in Addr \cup {0} : syscall_table' = [syscall_table EXCEPT ![run[c].key][run[c].p].last = a]
      BY <2>2, <3>2 DEF WriteLast, ResetLast
    <3> QED BY <2>1, <3>2, <3>3, StoreLast
  <2>3. CASE ~ (WriteLast(c) \/ ResetLast(c))
    BY <1>1, <2>1, <2>3 DEF check_syscall, LookupEntry, ReadHandler, Lock, FindEntry, CompareEntry, SendEvent, LoseEvent
  <2> QED BY <2>2, <2>3
<1>2. ASSUME NEW c \in Cpu, check_syscall(c), ~ CreateEntry(c), Len(syscall_table[k]) > 0
      PROVE  Creating(k)' \subseteq Creating(k)
  BY <1>1, <1>2, NotEntering DEF Creating
<1>3. ASSUME NEW c \in Cpu, \/ \E t \in Table : run_syscall_table_check(c, t)
                            \/ \E j \in Key : run_syscall_check(c, j)
      PROVE  Len(syscall_table'[k]) = Len(syscall_table[k]) /\ Creating(k)' \subseteq Creating(k)
  <2>1. run'[c].pc = "lookup" /\ \A d \in Cpu \ {c} : run'[d] = run[d]
    BY <1>3 DEF Inv, DataInv, run_syscall_table_check, run_syscall_check, Goto, Idle
  <2>2. UNCHANGED syscall_table
    BY <1>3 DEF run_syscall_table_check, run_syscall_check
  <2> QED BY <2>1, <2>2 DEF Creating
<1>4. ASSUME (\E j \in Key, addr \in Addr : ChangeHandler(j, addr)) \/ UNCHANGED vars
      PROVE  Len(syscall_table'[k]) = Len(syscall_table[k]) /\ Creating(k)' \subseteq Creating(k)
  BY <1>4 DEF ChangeHandler, vars, Creating
<1>5. ASSUME NEW c \in Cpu, CreateEntry(c)
      PROVE  Len(syscall_table'[k]) > 0
               => Len(syscall_table'[k]) + Cardinality(Creating(k)') <= Cardinality(Cpu)
  BY <1>5, CreateCounts
<1> QED BY <1>1, <1>2, <1>3, <1>4, <1>5, CreatingShrinks DEF Next

(* Over the whole life of KRIe a key gets at most one element per CPU: the *)
(* race of check_syscall for the creation of an entry happens once.        *)
THEOREM RecreationAlwaysBounded == Spec => []RecreationBounded
<1>1. Init => CreationInv
  BY DEF Init, CreationInv
<1>2. Inv /\ CreationInv => RecreationBounded
  <2> SUFFICES ASSUME Inv, CreationInv, NEW k \in Key PROVE Len(syscall_table[k]) <= Cardinality(Cpu)
    BY DEF RecreationBounded
  <2>1. Len(syscall_table[k]) \in Nat
    BY DEF Inv, DataInv
  <2> QED BY <2>1, CreatingFinite DEF CreationInv
<1> QED BY <1>1, <1>2, CreationStep, Inductive, PTL DEF Spec

-----------------------------------------------------------------------------
(* The refinement of Baseline.  The baseline of a slot is as long as the   *)
(* sequence of its elements.                                               *)
LEMMA BaseShape ==
  ASSUME DataInv, NEW k \in Key
  PROVE  /\ BaseOf[k] \in Seq(Addr) /\ Len(BaseOf[k]) = Len(syscall_table[k])
         /\ DOMAIN BaseOf[k] = 1 .. Len(syscall_table[k])
         /\ \A i \in 1 .. Len(syscall_table[k]) : BaseOf[k][i] = syscall_table[k][i].init
<1> DEFINE q == syscall_table[k]
           b == [i \in 1 .. Len(q) |-> q[i].init]
<1>1. q \in Seq(Element) /\ Len(q) \in Nat /\ DOMAIN q = 1 .. Len(q)
  BY DEF DataInv
<1>2. \A i \in 1 .. Len(q) : q[i].init \in Addr
  <2>1. \A i \in 1 .. Len(q) : q[i] \in Element
    BY <1>1
  <2> QED BY <2>1 DEF Element
<1>3. BaseOf[k] = b
  BY <1>1 DEF BaseOf
<1> HIDE DEF q
<1>4. b \in Seq(Addr) /\ Len(b) = Len(q) /\ DOMAIN b = 1 .. Len(q)
  BY <1>1, <1>2
<1>5. \A i \in 1 .. Len(q) : b[i] = q[i].init
  OBVIOUS
<1> HIDE DEF b
<1> QED BY <1>3, <1>4, <1>5 DEF q

(* Nothing but the creation of an entry changes a baseline: not the stores *)
(* to the last address, in an element of the map or in one that was        *)
(* replaced.                                                               *)
LEMMA BaseUntouched ==
  ASSUME DataInv, DataInv', TableGrows,
         \A k \in Key : Len(syscall_table'[k]) = Len(syscall_table[k])
  PROVE  BaseOf' = BaseOf
<1>1. ASSUME NEW k \in Key PROVE BaseOf'[k] = BaseOf[k]
  <2>1. /\ DOMAIN syscall_table[k] = 1 .. Len(syscall_table[k])
        /\ DOMAIN syscall_table'[k] = 1 .. Len(syscall_table[k])
    BY DEF DataInv
  <2>2. \A i \in 1 .. Len(syscall_table[k]) : syscall_table'[k][i].init = syscall_table[k][i].init
    BY DEF TableGrows
  <2> QED BY <2>1, <2>2 DEF BaseOf
<1>2. BaseOf = [k \in Key |-> BaseOf[k]] /\ BaseOf' = [k \in Key |-> BaseOf'[k]]
  BY DEF BaseOf
<1> QED BY <1>1, <1>2, Zenon

LEMMA LearnsBaseline ==
  ASSUME Inv, DataInv', RecreationBounded', NEW c \in Cpu, CreateEntry(c),
         syscall_table' # syscall_table
  PROVE  \E k \in Key, a \in Addr : Kept!Learn(k, a)
<1> DEFINE k == run[c].key
           a == run[c].addr
           v == [init |-> a, last |-> 0]
<1>1. k \in Key /\ a \in Addr
  BY DEF Inv, RunInv, CreateEntry, At, Locked
<1>2. /\ syscall_table' = [syscall_table EXCEPT ![k] = Append(@, v)] /\ UNCHANGED events
      /\ ~ (k \notin {j \in Key : syscall_table[j] # <<>>}
              /\ Cardinality({j \in Key : syscall_table[j] # <<>>}) >= MaxEntries)
  BY DEF CreateEntry
<1>3. v \in Element /\ v.init = a
  BY <1>1 DEF Element
<1> HIDE DEF k, a, v
<1>4. syscall_table \in [Key -> Seq(Element)] /\ syscall_table' \in [Key -> Seq(Element)]
  BY DEF Inv, DataInv
<1>5. ASSUME NEW j \in Key PROVE BaseOf'[j] = IF j = k THEN Append(BaseOf[j], a) ELSE BaseOf[j]
  <2>1. CASE j = k
    <3> DEFINE q == syscall_table[j]
               w == syscall_table'[j]
    <3>1. q \in Seq(Element) /\ w = Append(q, v)
      BY <1>2, <1>4, <2>1
    <3>2. BaseOf[j] \in Seq(Addr) /\ Len(BaseOf[j]) = Len(q) /\ \A i \in 1 .. Len(q) : BaseOf[j][i] = q[i].init
      BY BaseShape DEF Inv
    <3>3. DOMAIN w = 1 .. Len(w)
      BY <1>4
    <3>4. BaseOf'[j] = [i \in 1 .. Len(w) |-> w[i].init]
      BY <3>3 DEF BaseOf
    <3> HIDE DEF q, w
    <3>5. Len(w) = Len(q) + 1 /\ w[Len(q) + 1] = v /\ \A i \in 1 .. Len(q) : w[i] = q[i]
      BY <3>1, <1>3
    <3>6. [i \in 1 .. Len(w) |-> w[i].init] = Append(BaseOf[j], a)
      BY <3>1, <3>2, <3>5, <1>1, <1>3
    <3> QED BY <3>4, <3>6, <2>1
  <2>2. CASE j # k
    <3>1. syscall_table'[j] = syscall_table[j]
      BY <1>2, <1>4, <2>2
    <3> QED BY <3>1, <2>2 DEF BaseOf
  <2> QED BY <2>1, <2>2
<1>6. BaseOf' = [BaseOf EXCEPT ![k] = Append(@, a)]
  <2>1. BaseOf = [j \in Key |-> BaseOf[j]] /\ BaseOf' = [j \in Key |-> BaseOf'[j]]
    BY DEF BaseOf
  <2> QED BY <1>1, <1>5, <2>1
<1>7. Len(BaseOf[k]) < Cardinality(Cpu)
  <2>1. Len(syscall_table'[k]) <= Cardinality(Cpu) /\ Cardinality(Cpu) \in Nat
    BY <1>1, FS_CardinalityType, SyscallCheckAssumption DEF RecreationBounded
  <2>2. Len(syscall_table'[k]) = Len(syscall_table[k]) + 1 /\ Len(syscall_table[k]) \in Nat
    BY <1>1, <1>2, <1>3, <1>4
  <2> QED BY <1>1, <2>1, <2>2, BaseShape DEF Inv
<1>8. Kept!Known = {j \in Key : syscall_table[j] # <<>>}
  <2>1. \A j \in Key : BaseOf[j] # <<>> <=> syscall_table[j] # <<>>
    <3> SUFFICES ASSUME NEW j \in Key PROVE BaseOf[j] # <<>> <=> syscall_table[j] # <<>>
      OBVIOUS
    <3>1. BaseOf[j] \in Seq(Addr) /\ Len(BaseOf[j]) = Len(syscall_table[j]) /\ syscall_table[j] \in Seq(Element)
      BY <1>4, BaseShape DEF Inv
    <3> QED BY <3>1
  <2> QED BY <2>1 DEF Kept!Known
<1>9. k \in Kept!Known \/ HasRoom(Kept!Known)
  BY <1>2, <1>8 DEF HasRoom
<1>10. Kept!Learn(k, a)
  BY <1>2, <1>6, <1>7, <1>9 DEF Kept!Learn
<1> QED BY <1>1, <1>10

LEMMA SendsAlert ==
  ASSUME Inv, NEW c \in Cpu, SendEvent(c)
  PROVE  \E kind \in {"table", "syscall"}, k \in Key, a \in Addr :
           \E i \in DOMAIN BaseOf[k] : Kept!Alert(kind, k, i, a)
<1> DEFINE k == run[c].key
           i == run[c].p
           a == run[c].addr
           r == [run[c] EXCEPT !.hooked = TRUE]
<1>1. /\ run[c] \in Run /\ k \in Key /\ a \in Addr /\ a # 0
      /\ i <= Len(syscall_table[k]) /\ i > 0 /\ ~ check_syscall_addr(a)
  BY SyscallCheckAssumption DEF Inv, DataInv, RunInv, SendEvent, At, Locked, Pointing
<1>2. i \in 1 .. Len(syscall_table[k]) /\ run[c].kind \in {"table", "syscall"}
  BY <1>1 DEF Inv, DataInv, Run
<1>3. r.key = k /\ r.kind = run[c].kind /\ r.p = i /\ r.addr = a
  BY <1>1 DEF Run
<1>4. /\ UNCHANGED syscall_table
      /\ events' = events \cup {[kind |-> run[c].kind, key |-> k, init |-> syscall_table[k][i].init, new |-> a]}
  BY <1>3 DEF SendEvent
<1>5. BaseOf[k][i] = syscall_table[k][i].init /\ i \in DOMAIN BaseOf[k]
  BY <1>1, <1>2, BaseShape DEF Inv
<1>6. BaseOf' = BaseOf
  BY <1>4 DEF BaseOf
<1>7. a \in {x \in Addr : Hooks(x)}
  BY <1>1 DEF Hooks
<1> HIDE DEF k, i, a, r
<1>8. Kept!Alert(run[c].kind, k, i, a)
  BY <1>4, <1>5, <1>6, <1>7 DEF Kept!Alert
<1> QED BY <1>1, <1>2, <1>5, <1>8

(* Every other step of a run is invisible in the baseline.                 *)
LEMMA OtherSteps ==
  ASSUME Inv, DataInv', Next, ~ \E c \in Cpu : CreateEntry(c) \/ SendEvent(c)
  PROVE  BaseOf' = BaseOf /\ events' = events
<1>1. ASSUME NEW c \in Cpu, NEW a \in Addr \cup {0}, run[c].pc \in Pointing, events' = events,
             syscall_table' = [syscall_table EXCEPT ![run[c].key][run[c].p].last = a]
      PROVE  BaseOf' = BaseOf /\ events' = events
  <2>1. run[c].key \in Key /\ run[c].p \in 1 .. Len(syscall_table[run[c].key])
    BY <1>1 DEF Inv, DataInv, RunInv, Run, Pointing
  <2>2. TableGrows /\ \A k \in Key : Len(syscall_table'[k]) = Len(syscall_table[k])
    BY <1>1, <2>1, StoreLast
  <2> QED BY <1>1, <2>2, BaseUntouched DEF Inv
<1>2. ASSUME NEW c \in Cpu, WriteLast(c) \/ ResetLast(c) PROVE BaseOf' = BaseOf /\ events' = events
  <2>1. run[c].addr \in Addr \cup {0} /\ run[c].pc \in Pointing /\ events' = events
    BY <1>2 DEF WriteLast, ResetLast, At, Pointing, Inv, DataInv, Run
  <2>2. \/ syscall_table' = [syscall_table EXCEPT ![run[c].key][run[c].p].last = run[c].addr]
        \/ syscall_table' = [syscall_table EXCEPT ![run[c].key][run[c].p].last = 0]
    BY <1>2 DEF WriteLast, ResetLast
  <2> QED BY <1>1, <2>1, <2>2
<1>3. ASSUME UNCHANGED <<syscall_table, events>> PROVE BaseOf' = BaseOf /\ events' = events
  BY <1>3 DEF BaseOf
<1>4. \/ \E c \in Cpu : WriteLast(c) \/ ResetLast(c)
      \/ UNCHANGED <<syscall_table, events>>
  BY DEF Next, check_syscall, LookupEntry, ReadHandler, Lock, FindEntry, CompareEntry, LoseEvent,
         run_syscall_table_check, run_syscall_check, ChangeHandler
<1> QED BY <1>2, <1>3, <1>4

(* The checks of syscall_check.h implement the abstract baseline, on any   *)
(* number of CPUs: however they race, what was recorded as the initial     *)
(* address of a slot stays, and every alert shows such an address.         *)
THEOREM ImplementsBaseline == Spec => BaselineKept
<1>1. Init => Kept!Init
  <2> SUFFICES ASSUME Init PROVE Kept!Init
    OBVIOUS
  <2>1. BaseOf = [k \in Key |-> <<>>]
    BY DEF Init, BaseOf
  <2> QED BY <2>1 DEF Init, Kept!Init
<1>2. Inv /\ Inv' /\ RecreationBounded' /\ [Next]_vars => [Kept!Next]_(Kept!vars)
  <2> SUFFICES ASSUME Inv, Inv', RecreationBounded', Next
               PROVE  Kept!Next \/ (BaseOf' = BaseOf /\ events' = events)
    BY DEF vars, Kept!vars, BaseOf
  <2>1. CASE \E c \in Cpu : CreateEntry(c)
    <3>1. PICK c \in Cpu : CreateEntry(c)
      BY <2>1
    <3>2. CASE syscall_table' = syscall_table
      BY <3>1, <3>2 DEF CreateEntry, BaseOf
    <3>3. CASE syscall_table' # syscall_table
      BY <3>1, <3>3, LearnsBaseline DEF Inv, Kept!Next
    <3> QED BY <3>2, <3>3
  <2>2. CASE \E c \in Cpu : SendEvent(c)
    BY <2>2, SendsAlert DEF Kept!Next
  <2>3. CASE ~ \E c \in Cpu : CreateEntry(c) \/ SendEvent(c)
    BY <2>3, OtherSteps DEF Inv
  <2> QED BY <2>1, <2>2, <2>3
<1> QED BY <1>1, <1>2, Inductive, RecreationAlwaysBounded, PTL DEF Spec, BaselineKept, Kept!Spec
=============================================================================
