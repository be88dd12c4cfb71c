---------------------------- MODULE SysctlProofs ----------------------------
(***************************************************************************)
(* Proofs about the sysctl hook, for any processes, CPUs, configurations,  *)
(* strings and buffer size.                                                *)
(***************************************************************************)
EXTENDS Sysctl, SequenceTheorems, TLAPS

Access == [name : Names, write : BOOLEAN, new : String, current : String]

-----------------------------------------------------------------------------
(* The maps of decisions.                                                  *)

LEMMA PaddedAt ==
  ASSUME NEW s \in String, NEW i \in 0 .. L - 1
  PROVE  /\ i < Len(s) => Padded(s)[i] = s[i + 1] /\ s[i + 1] \in Nat \ {0}
         /\ i >= Len(s) => Padded(s)[i] = 0
<1>1. Len(s) \in Nat /\ DOMAIN s = 1 .. Len(s) /\ \A j \in 1 .. Len(s) : s[j] \in Nat \ {0}
  BY DEF String
<1> QED
  BY <1>1 DEF Padded

(* A name shorter than the keys of the map is not confused with another.   *)
LEMMA PaddedInjective ==
  ASSUME NEW m \in String, NEW n \in String, Len(n) < L, Padded(m) = Padded(n)
  PROVE  m = n
<1>1. /\ L \in Nat \ {0} /\ Len(m) \in Nat /\ Len(n) \in Nat
      /\ DOMAIN m = 1 .. Len(m) /\ DOMAIN n = 1 .. Len(n) /\ m \in Seq(Nat \ {0}) /\ n \in Seq(Nat \ {0})
  BY SysctlAssumption DEF String
<1> DEFINE a == Len(m)
           b == Len(n)
<1>2. a = b
  <2>1. a < L => Padded(m)[a] = 0 /\ (a < b => Padded(n)[a] # 0)
    <3> SUFFICES ASSUME a < L PROVE Padded(m)[a] = 0 /\ (a < b => Padded(n)[a] # 0)
      OBVIOUS
    <3>1. a \in 0 .. L - 1 /\ a >= Len(m)
      BY <1>1
    <3>2. Padded(m)[a] = 0
      BY <3>1, PaddedAt
    <3>3. a < Len(n) => Padded(n)[a] = n[a + 1] /\ n[a + 1] \in Nat \ {0}
      BY <3>1, PaddedAt
    <3> QED
      BY <3>2, <3>3
  <2>2. Padded(n)[b] = 0 /\ (b < a => Padded(m)[b] # 0)
    <3>1. b \in 0 .. L - 1 /\ b >= Len(n)
      BY <1>1
    <3>2. Padded(n)[b] = 0
      BY <3>1, PaddedAt
    <3>3. b < Len(m) => Padded(m)[b] = m[b + 1] /\ m[b + 1] \in Nat \ {0}
      BY <3>1, PaddedAt
    <3> QED
      BY <3>2, <3>3
  <2>3. a \in Nat /\ b \in Nat /\ L \in Nat /\ b < L
    BY <1>1
  <2> HIDE DEF a, b
  <2> QED
    BY <2>1, <2>2, <2>3
<1>3. ASSUME NEW j \in 1 .. Len(n) PROVE m[j] = n[j]
  <2>1. j - 1 \in 0 .. L - 1 /\ j - 1 < Len(n) /\ j - 1 + 1 = j
    BY <1>1
  <2>2. Padded(m)[j - 1] = m[j] /\ Padded(n)[j - 1] = n[j]
    BY <2>1, <1>2, PaddedAt
  <2> QED
    BY <2>2
<1> QED
  BY <1>1, <1>2, <1>3

(* The decision the program finds is the one that was configured.          *)
LEMMA DecisionOf ==
  ASSUME config \in Configs, NEW k \in Access, Len(k.name) < L
  PROVE  decision(k) = MarshalBinary(Configured(k.name))
<1>1. /\ k.name \in String /\ k.name \in Names /\ L \in Nat \ {0} /\ DOMAIN config.list \subseteq Names
      /\ \A n \in Names : n \in String
  BY SysctlAssumption DEF Access
<1> DEFINE key == [i \in 0 .. L - 1 |-> Named(k)[i]]
           hits == {n \in DOMAIN config.list : Padded(n) = key}
<1>2. key = Padded(k.name)
  <2>1. \A i \in 0 .. L - 1 : Named(k)[i] = Padded(k.name)[i]
    <3>1. \A i \in 0 .. L - 1 : i \in 0 .. 4 * L - 1 /\ i \in 0 .. 0 + L - 1 /\ i - 0 = i
      BY <1>1
    <3> QED
      BY <3>1 DEF Named, Copy, Zeroes
  <2> QED
    BY <2>1 DEF Padded
<1>3. hits = {n \in DOMAIN config.list : n = k.name}
  BY <1>1, <1>2, PaddedInjective
<1>4. decision(k) = MarshalBinary(IF hits = {} THEN config.default ELSE config.list[CHOOSE n \in hits : TRUE])
  BY DEF decision, lookup
<1> HIDE DEF hits
<1>5. CASE k.name \in DOMAIN config.list
  <2>1. hits = {k.name}
    BY <1>3, <1>5
  <2>2. (CHOOSE n \in hits : TRUE) = k.name
    BY <2>1
  <2> QED
    BY <2>1, <2>2, <1>4, <1>5 DEF Configured
<1>6. CASE k.name \notin DOMAIN config.list
  <2>1. hits = {}
    BY <1>3, <1>6
  <2> QED
    BY <2>1, <1>4, <1>6 DEF Configured
<1> QED
  BY <1>5, <1>6

LEMMA ConfiguredTyped ==
  ASSUME config \in Configs, NEW n
  PROVE  Configured(n) \in Decision
  BY SysctlAssumption DEF Configured

(* What is cut from a long override.                                       *)
LEMMA Marshalled ==
  ASSUME NEW d \in Decision
  PROVE  /\ MarshalBinary(d).block_write_access = d.block_write_access
         /\ MarshalBinary(d).override \in String
         /\ Len(MarshalBinary(d).override) >= 1 <=> d.override # <<>>
         /\ Len(d.override) <= L => MarshalBinary(d).override = d.override
<1> DEFINE o == d.override
           cut == IF Len(o) < L THEN Len(o) ELSE L
           m == MarshalBinary(d)
<1>1. o \in Seq(Nat \ {0}) /\ Len(o) \in Nat /\ L \in Nat \ {0}
  BY SysctlAssumption DEF Decision, String
<1>2. m.block_write_access = d.block_write_access /\ m.override = SubSeq(o, 1, cut)
  BY DEF MarshalBinary, Decision
<1>3. cut \in Nat /\ cut <= Len(o)
  BY <1>1
<1>4. SubSeq(o, 1, cut) \in Seq(Nat \ {0}) /\ Len(SubSeq(o, 1, cut)) = cut
  <2> HIDE DEF cut
  <2> QED
    BY <1>1, <1>3
<1>5. cut >= 1 <=> o # <<>>
  BY <1>1
<1>6. Len(o) <= L => SubSeq(o, 1, cut) = o
  <2>1. Len(o) <= L => cut = Len(o)
    BY <1>1
  <2>2. SubSeq(o, 1, Len(o)) = o
    BY <1>1
  <2> QED
    BY <2>1, <2>2
<1> QED
  BY <1>2, <1>4, <1>5, <1>6 DEF String

-----------------------------------------------------------------------------
(* The state of the two programs: a process that stayed on its CPU, and    *)
(* was not followed there, finds the context it left.                      *)
Pending == [name : Names, write : BOOLEAN, new : String, cpu : Cpu, steady : BOOLEAN]
StateInv ==
  /\ config \in Configs
  /\ DOMAIN value \subseteq Names /\ value \in [DOMAIN value -> String]
  /\ cache \in [Cpu -> Nat]
  /\ call \in [Pid -> Pending \cup {Idle}]
  /\ \A p \in Pid : call[p] # Idle =>
        /\ call[p] \in Pending /\ call[p].name \in DOMAIN value
        /\ call[p].steady => cache[call[p].cpu] = p

AccessOf(p) == [name |-> call[p].name, write |-> call[p].write, new |-> call[p].new,
                current |-> value[call[p].name]]

LEMMA AccessTyped ==
  ASSUME StateInv, NEW p \in Pid, call[p] # Idle
  PROVE  AccessOf(p) \in Access /\ AccessOf(p).name \in DOMAIN value
         /\ AccessOf(p).current = value[AccessOf(p).name]
  BY DEF StateInv, AccessOf, Access, Pending

(* A write that changes its parameter: it was readable, the parameter is   *)
(* not blocked, and only an exempt context keeps an override from it.      *)
LEMMA WriteEffect ==
  ASSUME StateInv, NEW p \in Pid, NEW c \in Cpu, NEW padding, cgroup_sysctl(p, c, padding),
         NEW n \in DOMAIN value, value'[n] # value[n]
  PROVE  /\ ~ Blocked(n)
         /\ \/ /\ Configured(n).override # <<>>
               /\ value'[n] = MarshalBinary(Configured(n)).override
            \/ Configured(n).override = <<>>
            \/ filter_krie_runtime_with_pid(cache[c])
<1> DEFINE k == AccessOf(p)
           d == Configured(n)
<1>1. /\ call[p] # Idle
      /\ value' = IF k.write /\ Allowed(k, cache[c]) THEN [value EXCEPT ![k.name] = Written(k, cache[c])]
                  ELSE value
  BY DEF cgroup_sysctl, AccessOf
<1>2. k \in Access /\ k.name \in DOMAIN value /\ k.current = value[k.name]
  BY <1>1, AccessTyped
<1> HIDE DEF k
<1>3. k.write /\ Allowed(k, cache[c]) /\ k.name = n /\ value'[n] = Written(k, cache[c])
  BY <1>1, <1>2 DEF StateInv
<1>4. ~ Unreadable(k) /\ action(k, cache[c]) # SYSCTL_SHOT
  BY <1>3 DEF Allowed
<1>5. Len(k.name) < L
  <2>1. Len(k.name) \in Nat /\ L \in Nat
    BY <1>2, SysctlAssumption DEF Access, String
  <2> QED
    BY <2>1, <1>4 DEF Unreadable, TooBig
<1>6. decision(k) = MarshalBinary(d) /\ d \in Decision
  BY <1>2, <1>3, <1>5, DecisionOf, ConfiguredTyped DEF StateInv
<1>7. /\ decision(k).block_write_access = d.block_write_access
      /\ Len(decision(k).override) >= 1 <=> d.override # <<>>
  BY <1>6, Marshalled
<1>8. Overrides(k, cache[c]) \/ ~ d.block_write_access
  BY <1>3, <1>4, <1>7 DEF action, Blocks
<1>9. Overrides(k, cache[c]) <=> (d.override # <<>> /\ ~ filter_krie_runtime_with_pid(cache[c]))
  BY <1>3, <1>7 DEF Overrides
<1>10. ~ Blocked(n)
  BY <1>8, <1>9 DEF Blocked
<1>11. k.new # <<>>
  BY <1>2, <1>3 DEF Written
<1>12. Overrides(k, cache[c]) => value'[n] = MarshalBinary(d).override
  BY <1>3, <1>4, <1>6, <1>11 DEF Written
<1> QED
  BY <1>9, <1>10, <1>12

(* No other step changes a parameter.                                      *)
LEMMA OnlyTheProgramWrites ==
  ASSUME [Next]_vars, NEW n \in DOMAIN value, value'[n] # value[n]
  PROVE  \E p \in Pid, c \in Cpu, padding \in Paddings : cgroup_sysctl(p, c, padding)
<1>1. value' # value
  OBVIOUS
<1>2. ~ UNCHANGED vars /\ ~ defaultEventHandler
  BY <1>1 DEF vars, defaultEventHandler
<1>3. \A p \in Pid, c \in Cpu, m \in DOMAIN value : \A w, v : ~ proc_sys_call_handler(p, c, m, w, v)
  BY <1>1 DEF proc_sys_call_handler
<1> QED
  BY <1>2, <1>3 DEF Next

LEMMA StateStart == Init => StateInv
<1> SUFFICES ASSUME Init PROVE StateInv
  OBVIOUS
<1>1. PICK n \in Names : value \in [{n} -> Texts]
  BY DEF Init
<1>2. Texts \subseteq String
  BY SysctlAssumption
<1>3. DOMAIN value \subseteq Names /\ value \in [DOMAIN value -> String]
  BY <1>1, <1>2
<1> QED
  BY <1>3 DEF Init, StateInv

LEMMA HandlerKeeps ==
  ASSUME StateInv, NEW p \in Pid, NEW c \in Cpu, NEW n \in DOMAIN value, NEW w \in BOOLEAN,
         NEW v \in String, proc_sys_call_handler(p, c, n, w, v)
  PROVE  StateInv'
<1> DEFINE r == [name |-> n, write |-> w, new |-> v, cpu |-> c, steady |-> TRUE]
<1>1. /\ cache' = [cache EXCEPT ![c] = p] /\ UNCHANGED <<config, value, event>>
      /\ call' = [q \in Pid |->
                    IF q = p THEN r
                    ELSE IF call[q] # Idle /\ call[q].cpu = c THEN [call[q] EXCEPT !.steady = FALSE]
                    ELSE call[q]]
  BY DEF proc_sys_call_handler, fill_process_context
<1>2. r \in Pending /\ r.name = n /\ r.cpu = c
  BY DEF Pending, StateInv
<1> HIDE DEF r
<1>3. p \in Nat
  BY SysctlAssumption
<1>4. cache' \in [Cpu -> Nat] /\ cache'[c] = p /\ \A b \in Cpu \ {c} : cache'[b] = cache[b]
  BY <1>1, <1>3 DEF StateInv
<1>5. ASSUME NEW q \in Pid
      PROVE  /\ call'[q] \in Pending \cup {Idle}
             /\ call'[q] # Idle => /\ call'[q] \in Pending /\ call'[q].name \in DOMAIN value
                                   /\ call'[q].steady => cache'[call'[q].cpu] = q
  <2>1. CASE q = p
    BY <2>1, <1>1, <1>2, <1>4
  <2>2. CASE q # p /\ call[q] # Idle /\ call[q].cpu = c
    <3>1. call'[q] = [call[q] EXCEPT !.steady = FALSE] /\ call[q] \in Pending /\ call[q].name \in DOMAIN value
      BY <2>2, <1>1 DEF StateInv
    <3>2. call'[q] \in Pending /\ call'[q].name = call[q].name /\ call'[q].steady = FALSE
      BY <3>1 DEF Pending
    <3> QED
      BY <3>1, <3>2
  <2>3. CASE q # p /\ ~ (call[q] # Idle /\ call[q].cpu = c)
    <3>1. call'[q] = call[q]
      BY <2>3, <1>1
    <3>2. call[q] # Idle => call[q] \in Pending /\ call[q].cpu \in Cpu \ {c}
      BY <2>3 DEF StateInv, Pending
    <3> QED
      BY <3>1, <3>2, <1>4 DEF StateInv
  <2> QED
    BY <2>1, <2>2, <2>3
<1>6. call' \in [Pid -> Pending \cup {Idle}]
  BY <1>1, <1>5
<1> QED
  BY <1>1, <1>4, <1>5, <1>6 DEF StateInv

LEMMA ProgramKeeps ==
  ASSUME StateInv, NEW p \in Pid, NEW c \in Cpu, NEW padding, cgroup_sysctl(p, c, padding)
  PROVE  StateInv'
<1> DEFINE k == AccessOf(p)
<1>1. /\ call[p] # Idle /\ call' = [call EXCEPT ![p] = Idle] /\ UNCHANGED <<config, cache>>
      /\ value' = IF k.write /\ Allowed(k, cache[c]) THEN [value EXCEPT ![k.name] = Written(k, cache[c])]
                  ELSE value
  BY DEF cgroup_sysctl, AccessOf
<1>2. k \in Access /\ k.name \in DOMAIN value
  BY <1>1, AccessTyped
<1> HIDE DEF k
<1>3. DOMAIN value' = DOMAIN value
  BY <1>1
<1>4. k.write /\ Allowed(k, cache[c]) => Written(k, cache[c]) \in String
  <2> SUFFICES ASSUME k.write, Allowed(k, cache[c]) PROVE Written(k, cache[c]) \in String
    OBVIOUS
  <2>1. ~ Unreadable(k)
    BY DEF Allowed
  <2>2. Len(k.name) < L
    <3>1. Len(k.name) \in Nat /\ L \in Nat
      BY <1>2, SysctlAssumption DEF Access, String
    <3> QED
      BY <3>1, <2>1 DEF Unreadable, TooBig
  <2>3. decision(k).override \in String
    BY <1>2, <2>2, DecisionOf, ConfiguredTyped, Marshalled DEF StateInv
  <2>4. k.new \in String /\ k.current \in String
    BY <1>2 DEF Access
  <2> QED
    BY <2>3, <2>4 DEF Written
<1>5. value' \in [DOMAIN value -> String]
  BY <1>1, <1>2, <1>4 DEF StateInv
<1>6. call' \in [Pid -> Pending \cup {Idle}] /\ call'[p] = Idle /\ \A q \in Pid \ {p} : call'[q] = call[q]
  BY <1>1 DEF StateInv
<1> QED
  BY <1>1, <1>3, <1>5, <1>6 DEF StateInv

LEMMA StateStep == StateInv /\ [Next]_vars => StateInv'
<1> SUFFICES ASSUME StateInv, [Next]_vars PROVE StateInv'
  OBVIOUS
<1>1. CASE UNCHANGED vars
  BY <1>1 DEF vars, StateInv
<1>2. CASE defaultEventHandler
  BY <1>2 DEF defaultEventHandler, StateInv
<1>3. ASSUME NEW p \in Pid, NEW c \in Cpu, NEW n \in DOMAIN value,
             \/ proc_sys_call_handler(p, c, n, FALSE, <<>>)
             \/ \E v \in Texts : proc_sys_call_handler(p, c, n, TRUE, v)
      PROVE  StateInv'
  <2>1. <<>> \in String /\ Texts \subseteq String
    BY SysctlAssumption DEF String
  <2> QED
    BY <1>3, <2>1, HandlerKeeps
<1>4. ASSUME NEW p \in Pid, NEW c \in Cpu, NEW padding \in Paddings, cgroup_sysctl(p, c, padding)
      PROVE  StateInv'
  BY <1>4, ProgramKeeps
<1> QED
  BY <1>1, <1>2, <1>3, <1>4 DEF Next

LEMMA StateInvariance == Spec => []StateInv
  BY StateStart, StateStep, PTL DEF Spec

(* A parameter whose writes are blocked never changes, whatever processes  *)
(* write to it, on whatever CPUs, and whichever contexts the program finds *)
(* in its slots: its key in the map of decisions is not shared with        *)
(* another parameter, and a string too long to be read is never let in.    *)
THEOREM BlockedAlwaysKept == Spec => BlockedKept
<1>1. StateInv /\ [Next]_vars => [\A n \in DOMAIN value : Blocked(n) => value'[n] = value[n]]_vars
  <2> SUFFICES ASSUME StateInv, [Next]_vars, NEW n \in DOMAIN value, Blocked(n), value'[n] # value[n]
               PROVE  FALSE
    OBVIOUS
  <2> QED
    BY OnlyTheProgramWrites, WriteEffect
<1> QED
  BY <1>1, StateInvariance, PTL DEF Spec, BlockedKept

(* MarshalBinary cuts an override at L bytes: the configured ones fit.     *)
OverridesFit == \A s \in Configs : /\ Len(s.default.override) <= L
                                   /\ \A n \in DOMAIN s.list : Len(s.list[n].override) <= L

(* A parameter with an override, of a length the map of decisions can      *)
(* hold, changes to that override only, unless the writer or the context   *)
(* it is mistaken for is exempt.                                           *)
THEOREM OverrideAlwaysHeld ==
  ASSUME OverridesFit
  PROVE  Spec => OverrideHeld
<1> DEFINE Held == \A n \in DOMAIN value :
             (Configured(n).override # <<>> /\ value'[n] # value[n]) =>
                \/ value'[n] = Configured(n).override
                \/ \E p \in Pid : /\ call[p] # Idle /\ call'[p] = Idle
                                  /\ filter_krie_runtime_with_pid(p) \/ Strayed(p)
<1>1. StateInv /\ [Next]_vars => [Held]_vars
  <2> SUFFICES ASSUME StateInv, [Next]_vars, NEW n \in DOMAIN value, Configured(n).override # <<>>,
                      value'[n] # value[n], value'[n] # Configured(n).override
               PROVE  \E p \in Pid : /\ call[p] # Idle /\ call'[p] = Idle
                                     /\ filter_krie_runtime_with_pid(p) \/ Strayed(p)
    OBVIOUS
  <2>1. PICK p \in Pid, c \in Cpu, padding \in Paddings : cgroup_sysctl(p, c, padding)
    BY OnlyTheProgramWrites
  <2>2. Configured(n) \in Decision /\ Len(Configured(n).override) <= L
    BY ConfiguredTyped DEF StateInv, OverridesFit, Configured
  <2>3. MarshalBinary(Configured(n)).override = Configured(n).override
    BY <2>2, Marshalled
  <2>4. filter_krie_runtime_with_pid(cache[c])
    BY <2>1, <2>3, WriteEffect
  <2>5. call[p] # Idle /\ call'[p] = Idle
    BY <2>1 DEF cgroup_sysctl, StateInv
  <2>6. c = call[p].cpu /\ call[p].steady => cache[c] = p
    BY <2>5 DEF StateInv
  <2>7. filter_krie_runtime_with_pid(p) \/ Strayed(p)
    <3>1. CASE c = call[p].cpu /\ call[p].steady
      BY <3>1, <2>4, <2>6
    <3>2. CASE ~ (c = call[p].cpu /\ call[p].steady)
      BY <3>2, <2>4 DEF Strayed
    <3> QED
      BY <3>1, <3>2
  <2> QED
    BY <2>5, <2>7
<1> QED
  BY <1>1, StateInvariance, PTL DEF Spec, OverrideHeld

-----------------------------------------------------------------------------
(* The buffer. What a copy leaves at each place.                           *)
LEMMA Copied ==
  ASSUME NEW b \in [0 .. 4 * L - 1 -> Nat], NEW at \in 0 .. 3 * L, NEW s \in String, Len(s) < L
  PROVE  /\ Copy(b, at, s) \in [0 .. 4 * L - 1 -> Nat]
         /\ \A i \in 0 .. 4 * L - 1 : i < at => Copy(b, at, s)[i] = b[i]
         /\ \A i \in 1 .. Len(s) : Copy(b, at, s)[at + i - 1] = s[i]
         /\ Copy(b, at, s)[at + Len(s)] = 0
<1>1. L \in Nat \ {0} /\ Len(s) \in Nat /\ s \in Seq(Nat \ {0}) /\ at \in Nat
  BY SysctlAssumption DEF String
<1>2. \A i \in 0 .. 4 * L - 1 :
         Copy(b, at, s)[i] = IF i \in at .. at + L - 1 THEN Padded(s)[i - at] ELSE b[i]
  BY DEF Copy
<1>3. ASSUME NEW i \in 0 .. L - 1 PROVE Padded(s)[i] \in Nat
  <2>1. /\ i < Len(s) => Padded(s)[i] = s[i + 1] /\ s[i + 1] \in Nat \ {0}
        /\ i >= Len(s) => Padded(s)[i] = 0
    BY PaddedAt
  <2>2. i < Len(s) \/ i >= Len(s)
    BY <1>1
  <2> QED
    BY <2>1, <2>2
<1>4. \A i \in 0 .. 4 * L - 1 : Copy(b, at, s)[i] \in Nat
  <2> TAKE i \in 0 .. 4 * L - 1
  <2>1. CASE i \in at .. at + L - 1
    <3>1. i - at \in 0 .. L - 1
      BY <2>1, <1>1
    <3> QED
      BY <2>1, <3>1, <1>2, <1>3
  <2>2. CASE i \notin at .. at + L - 1
    BY <2>2, <1>2
  <2> QED
    BY <2>1, <2>2
<1>5. Copy(b, at, s) \in [0 .. 4 * L - 1 -> Nat]
  BY <1>4 DEF Copy
<1>6. \A i \in 0 .. 4 * L - 1 : i < at => Copy(b, at, s)[i] = b[i]
  BY <1>1, <1>2
<1>7. ASSUME NEW j \in 0 .. L - 1 PROVE Copy(b, at, s)[at + j] = Padded(s)[j]
  <2>1. at + j \in 0 .. 4 * L - 1 /\ at + j \in at .. at + L - 1 /\ (at + j) - at = j
    BY <1>1
  <2> QED
    BY <2>1, <1>2
<1>8. ASSUME NEW i \in 1 .. Len(s) PROVE Copy(b, at, s)[at + i - 1] = s[i]
  <2>1. i - 1 \in 0 .. L - 1 /\ at + (i - 1) = at + i - 1 /\ i - 1 < Len(s) /\ (i - 1) + 1 = i
    BY <1>1
  <2>2. Padded(s)[i - 1] = s[i]
    BY <2>1, PaddedAt
  <2> QED
    BY <2>1, <2>2, <1>7
<1>9. Copy(b, at, s)[at + Len(s)] = 0
  <2>1. Len(s) \in 0 .. L - 1 /\ Len(s) >= Len(s)
    BY <1>1
  <2>2. Padded(s)[Len(s)] = 0
    BY <2>1, PaddedAt
  <2> QED
    BY <2>1, <2>2, <1>7
<1> QED
  BY <1>5, <1>6, <1>8, <1>9

(* A string that is followed by a NUL is read back, and the cursor goes    *)
(* behind the NUL.                                                         *)
LEMMA ReadBack ==
  ASSUME NEW data \in Seq(Nat), NEW s \in String, Len(s) < Len(data),
         \A i \in 1 .. Len(s) : data[i] = s[i], data[Len(s) + 1] = 0
  PROVE  /\ UnmarshalString(data) = s /\ ~ Unterminated(data)
         /\ After(data) \in Seq(Nat) /\ Len(After(data)) = Len(data) - Len(s) - 1
         /\ \A i \in 1 .. Len(data) - Len(s) - 1 : After(data)[i] = data[Len(s) + 1 + i]
<1> DEFINE n == Len(s)
           m == Len(data)
           nuls == {i \in DOMAIN data : data[i] = 0}
<1>1. n \in Nat /\ m \in Nat /\ DOMAIN data = 1 .. m /\ s \in Seq(Nat \ {0}) /\ n < m
  BY DEF String
<1>2. \A i \in 1 .. n : s[i] \in Nat \ {0}
  BY <1>1
<1> HIDE DEF n, m
<1>3. n + 1 \in nuls /\ \A i \in nuls : n + 1 <= i
  <2>1. n + 1 \in nuls
    BY <1>1 DEF n, m
  <2>2. ASSUME NEW i \in nuls PROVE n + 1 <= i
    <3>1. i \in 1 .. m /\ data[i] = 0
      BY <1>1
    <3>2. i \notin 1 .. n
      BY <3>1, <1>2 DEF n
    <3> QED
      BY <3>1, <3>2, <1>1
  <2> QED
    BY <2>1, <2>2
<1>4. \A i \in nuls : i \in Nat
  BY <1>1
<1>5. Min(nuls) = n + 1
  <2>1. ASSUME NEW x \in nuls, \A y \in nuls : x <= y PROVE x = n + 1
    <3>1. n + 1 <= x /\ x <= n + 1
      BY <2>1, <1>3
    <3>2. x \in Nat
      BY <1>4
    <3> HIDE DEF nuls
    <3> QED
      BY <3>1, <3>2, <1>1
  <2> HIDE DEF nuls
  <2> QED
    BY <2>1, <1>3, Zenon DEF Min
<1>6. UnmarshalString(data) = SubSeq(data, 1, n)
  <2>1. UnmarshalString(data) = SubSeq(data, 1, Min(nuls) - 1)
    BY <1>3 DEF UnmarshalString
  <2>2. (n + 1) - 1 = n
    BY <1>1
  <2> QED
    BY <2>1, <2>2, <1>5
<1>7. SubSeq(data, 1, n) = s
  <2>1. Len(SubSeq(data, 1, n)) = n /\ \A i \in 1 .. n : SubSeq(data, 1, n)[i] = data[i]
    BY <1>1 DEF m
  <2>2. SubSeq(data, 1, n) \in Seq(Nat)
    BY <1>1 DEF m
  <2> QED
    BY <2>1, <2>2, <1>1 DEF n
<1>8. After(data) = SubSeq(data, n + 2, m)
  BY <1>6, <1>7 DEF After, n, m
<1>9. /\ SubSeq(data, n + 2, m) \in Seq(Nat) /\ Len(SubSeq(data, n + 2, m)) = m - n - 1
      /\ \A i \in 1 .. m - n - 1 : SubSeq(data, n + 2, m)[i] = data[n + 1 + i]
  <2> DEFINE a == n + 2
  <2>1. /\ a \in Int /\ m \in Int /\ m - a + 1 = m - n - 1
        /\ (IF a <= m THEN m - a + 1 ELSE 0) = m - n - 1
        /\ \A i \in 1 .. m - n - 1 : a + i - 1 = n + 1 + i
    BY <1>1
  <2>2. \A i \in a .. m : data[i] \in Nat
    BY <1>1
  <2> HIDE DEF a
  <2>3. /\ SubSeq(data, a, m) \in Seq(Nat) /\ Len(SubSeq(data, a, m)) = IF a <= m THEN m - a + 1 ELSE 0
        /\ \A i \in 1 .. m - a + 1 : SubSeq(data, a, m)[i] = data[a + i - 1]
    BY <2>1, <2>2, SubSeqProperties
  <2> QED
    BY <2>1, <2>3 DEF a
<1>10. ~ Unterminated(data)
  <2>1. 0 \in Range(data)
    BY <1>3 DEF Range
  <2> QED
    BY <2>1 DEF Unterminated
<1> QED
  BY <1>6, <1>7, <1>8, <1>9, <1>10 DEF n, m

(* The bytes of a regular access, as they reach user space.                *)
LEMMA Layout ==
  ASSUME NEW k \in Access, ~ Unreadable(k), Regular(k), NEW padding \in Seq(Nat)
  PROVE  LET d == Data(k, padding)  n == Len(k.name)  c == Len(k.current)  w == Len(k.new) IN
         /\ d \in Seq(Nat) /\ n + c + 2 <= Len(d)
         /\ \A i \in 1 .. n : d[i] = k.name[i]
         /\ d[n + 1] = 0
         /\ \A i \in 1 .. c : d[n + 1 + i] = k.current[i]
         /\ d[n + c + 2] = 0
         /\ k.write => /\ n + c + w + 3 <= Len(d)
                       /\ \A i \in 1 .. w : d[n + c + 2 + i] = k.new[i]
                       /\ d[n + c + w + 3] = 0
         /\ ~ k.write => /\ Len(d) = n + c + 2 + Len(padding)
                         /\ \A i \in 1 .. Len(padding) : d[n + c + 2 + i] = padding[i]
<1> DEFINE d == Data(k, padding)
           n == Len(k.name)
           c == Len(k.current)
           w == Len(k.new)
           nv == name_value(k)
           end == n + c + 2 + (IF k.write THEN w + 1 ELSE 0)
<1>1. /\ k.name \in String /\ k.current \in String /\ k.new \in String /\ k.write \in BOOLEAN
      /\ L \in Nat \ {0}
  BY SysctlAssumption DEF Access
<1>2. n \in Nat /\ c \in Nat /\ w \in Nat
  BY <1>1 DEF String
<1>3. n < L - 1 /\ n + c + 2 < 2 * L /\ k.current # <<>> /\ (k.write => k.new # <<>>)
  BY DEF Regular
<1>4. n < L /\ c < L /\ (k.write => w < L)
  <2>1. ~ (n >= L) /\ ~ (c >= L) /\ (k.write => ~ (w >= L))
    BY DEF Unreadable, TooBig
  <2> QED
    BY <2>1, <1>1, <1>2
<1>5. /\ value_index(k) = n + 1 /\ new_value_index(k) = n + c + 2 /\ buffer_end(k) = end
  <2>1. value_index(k) = n + 1 /\ Returned(k.current) = c /\ (k.write => Returned(k.new) = w)
    BY <1>3 DEF value_index, Returned
  <2> HIDE DEF n, c, w
  <2>2. new_value_index(k) = n + c + 2
    <3>1. (n + 1) + c + 1 = n + c + 2
      BY <1>2
    <3> QED
      BY <2>1, <3>1 DEF new_value_index
  <2> QED
    BY <2>1, <2>2, <1>2 DEF buffer_end
<1> HIDE DEF n, c, w
<1>6. /\ n + 1 \in 0 .. L - 1 /\ n + c + 2 \in 0 .. 2 * L - 1 /\ end \in 0 .. 4 * L - 1
  BY <1>1, <1>2, <1>3, <1>4
<1>7. value_index(k) % L = n + 1 /\ new_value_index(k) % (2 * L) = n + c + 2 /\ buffer_end(k) % (4 * L) = end
  <2>1. \A x \in Nat, y \in Nat \ {0} : x \in 0 .. y - 1 => x % y = x
    OBVIOUS
  <2>2. L \in Nat \ {0} /\ 2 * L \in Nat \ {0} /\ 4 * L \in Nat \ {0} /\ n + 1 \in Nat /\ n + c + 2 \in Nat /\ end \in Nat
    BY <1>1, <1>2, <1>6
  <2>3. (n + 1) % L = n + 1
    BY <2>1, <2>2, <1>6
  <2>4. (n + c + 2) % (2 * L) = n + c + 2
    BY <2>1, <2>2, <1>6
  <2>5. end % (4 * L) = end
    <3> HIDE DEF end
    <3> QED
      BY <2>1, <2>2, <1>6
  <2> QED
    BY <2>3, <2>4, <2>5, <1>5
<1> DEFINE a == Named(k)
           b == Copy(a, n + 1, k.current)
<1>8. Valued(k) = b /\ nv = IF k.write THEN Copy(b, n + c + 2, k.new) ELSE b
  BY <1>7 DEF Valued, name_value
<1>9. /\ a \in [0 .. 4 * L - 1 -> Nat] /\ a[n] = 0 /\ \A i \in 1 .. n : a[i - 1] = k.name[i]
  <2>1. Zeroes \in [0 .. 4 * L - 1 -> Nat]
    BY DEF Zeroes
  <2>2. 0 \in 0 .. 3 * L /\ 0 + n = n /\ \A i \in 1 .. n : 0 + i - 1 = i - 1
    BY <1>1, <1>2
  <2>3. /\ Copy(Zeroes, 0, k.name) \in [0 .. 4 * L - 1 -> Nat]
        /\ \A i \in 1 .. n : Copy(Zeroes, 0, k.name)[0 + i - 1] = k.name[i]
        /\ Copy(Zeroes, 0, k.name)[0 + n] = 0
    BY <2>1, <2>2, <1>1, <1>4, Copied DEF n
  <2> QED
    BY <2>2, <2>3 DEF Named
<1> HIDE DEF a
<1>10. /\ b \in [0 .. 4 * L - 1 -> Nat]
       /\ \A i \in 0 .. 4 * L - 1 : i < n + 1 => b[i] = a[i]
       /\ \A i \in 1 .. c : b[n + 1 + i - 1] = k.current[i]
       /\ b[n + 1 + c] = 0
  <2> DEFINE at == n + 1
  <2>1. at \in 0 .. 3 * L
    BY <1>1, <1>6
  <2>0. b = Copy(a, at, k.current)
    OBVIOUS
  <2> HIDE DEF at
  <2>2. LET e == Copy(a, at, k.current) IN
        /\ e \in [0 .. 4 * L - 1 -> Nat]
        /\ \A i \in 0 .. 4 * L - 1 : i < at => e[i] = a[i]
        /\ \A i \in 1 .. c : e[at + i - 1] = k.current[i]
        /\ e[at + c] = 0
    <3>1. a \in [0 .. 4 * L - 1 -> Nat] /\ k.current \in String /\ Len(k.current) < L
      BY <1>1, <1>4, <1>9 DEF c
    <3> QED
      BY <2>1, <3>1, Copied DEF c
  <2> HIDE DEF b
  <2> QED
    BY <2>0, <2>2 DEF at
<1> HIDE DEF b
<1>11. /\ nv \in [0 .. 4 * L - 1 -> Nat]
       /\ \A i \in 0 .. 4 * L - 1 : i < n + c + 2 => nv[i] = b[i]
       /\ k.write => /\ \A i \in 1 .. w : nv[n + c + 2 + i - 1] = k.new[i]
                     /\ nv[n + c + 2 + w] = 0
  <2>1. CASE k.write
    <3> DEFINE at == n + c + 2
    <3>1. at \in 0 .. 3 * L
      BY <1>1, <1>6
    <3>2. nv = Copy(b, at, k.new)
      BY <2>1, <1>8
    <3> HIDE DEF at
    <3>3. LET e == Copy(b, at, k.new) IN
          /\ e \in [0 .. 4 * L - 1 -> Nat]
          /\ \A i \in 0 .. 4 * L - 1 : i < at => e[i] = b[i]
          /\ \A i \in 1 .. w : e[at + i - 1] = k.new[i]
          /\ e[at + w] = 0
      BY <3>1, <2>1, <1>1, <1>4, <1>10, Copied DEF w
    <3> HIDE DEF nv
    <3> QED
      BY <3>2, <3>3 DEF at
  <2>2. CASE ~ k.write
    BY <2>2, <1>8, <1>10
  <2> QED
    BY <2>1, <2>2
<1> HIDE DEF nv
<1>12. d = [i \in 1 .. end |-> nv[i - 1]] \o padding
  BY <1>7 DEF Data, nv
<1>13. end \in Nat
  BY <1>6
<1>14. n + c + 2 <= end /\ (k.write => end = n + c + w + 3)
  BY <1>1, <1>2
<1>25. ~ k.write => end = n + c + 2
  BY <1>1, <1>2
<1> HIDE DEF end
<1>26. /\ d \in Seq(Nat) /\ Len(d) = end + Len(padding)
       /\ \A i \in 1 .. end : d[i] = nv[i - 1]
       /\ \A i \in 1 .. Len(padding) : d[end + i] = padding[i]
  <2> DEFINE h == [i \in 1 .. end |-> nv[i - 1]]
  <2>1. \A i \in 1 .. end : i - 1 \in 0 .. 4 * L - 1 /\ nv[i - 1] \in Nat
    <3>1. \A i \in 1 .. end : i - 1 \in 0 .. 4 * L - 1
      BY <1>1, <1>6
    <3> QED
      BY <3>1, <1>11
  <2>2. h \in Seq(Nat) /\ Len(h) = end /\ \A i \in 1 .. end : h[i] = nv[i - 1]
    BY <2>1, <1>13
  <2> HIDE DEF h
  <2>3. /\ h \o padding \in Seq(Nat) /\ Len(h \o padding) = end + Len(padding) /\ Len(padding) \in Nat
        /\ \A i \in 1 .. end : (h \o padding)[i] = h[i]
        /\ \A i \in 1 .. Len(padding) : (h \o padding)[end + i] = padding[i]
    <3>1. h \o padding \in Seq(Nat) /\ Len(padding) \in Nat
      BY <2>2
    <3>2. Len(h \o padding) = Len(h) + Len(padding)
      BY <2>2
    <3>3. \A i \in 1 .. Len(h) : (h \o padding)[i] = h[i]
      BY <2>2
    <3>4. \A i \in 1 .. Len(padding) : (h \o padding)[Len(h) + i] = padding[i]
      BY <2>2
    <3> QED
      BY <3>1, <3>2, <3>3, <3>4, <2>2
  <2>4. d = h \o padding
    BY <1>12 DEF h
  <2>5. \A i \in 1 .. end : d[i] = nv[i - 1]
    BY <2>2, <2>3, <2>4
  <2> HIDE DEF d
  <2>6. d \in Seq(Nat) /\ Len(d) = end + Len(padding)
    BY <2>3, <2>4
  <2>7. \A i \in 1 .. Len(padding) : d[end + i] = padding[i]
    <3> DEFINE q == h \o padding
    <3>0. \A i \in 1 .. Len(padding) : (h \o padding)[end + i] = padding[i]
      BY <2>3
    <3>1. d = q /\ \A i \in 1 .. Len(padding) : q[end + i] = padding[i]
      BY <3>0, <2>4, Zenon
    <3> HIDE DEF q
    <3> QED
      BY <3>1
  <2> QED
    BY <2>5, <2>6, <2>7
<1> HIDE DEF d
<1>15. d \in Seq(Nat) /\ end <= Len(d) /\ \A i \in 1 .. end : d[i] = nv[i - 1]
  <2>1. Len(padding) \in Nat
    OBVIOUS
  <2>2. end <= end + Len(padding)
    BY <2>1, <1>13
  <2> QED
    BY <2>2, <1>26
<1>16. ASSUME NEW i \in 1 .. n PROVE d[i] = k.name[i]
  <2>1. i \in 1 .. end /\ i - 1 \in 0 .. 4 * L - 1 /\ i - 1 < n + c + 2 /\ i - 1 < n + 1
    BY <1>1, <1>2, <1>6, <1>13, <1>14
  <2> QED
    BY <2>1, <1>9, <1>10, <1>11, <1>15
<1>17. d[n + 1] = 0
  <2>1. n + 1 \in 1 .. end /\ (n + 1) - 1 = n /\ n \in 0 .. 4 * L - 1 /\ n < n + c + 2 /\ n < n + 1
    BY <1>1, <1>2, <1>6, <1>13, <1>14
  <2> QED
    BY <2>1, <1>9, <1>10, <1>11, <1>15
<1>18. ASSUME NEW i \in 1 .. c PROVE d[n + 1 + i] = k.current[i]
  <2>1. /\ n + 1 + i \in 1 .. end /\ (n + 1 + i) - 1 = n + 1 + i - 1
        /\ n + 1 + i - 1 \in 0 .. 4 * L - 1 /\ n + 1 + i - 1 < n + c + 2
    BY <1>1, <1>2, <1>6, <1>13, <1>14
  <2> QED
    BY <2>1, <1>10, <1>11, <1>15
<1>19. d[n + c + 2] = 0
  <2>1. /\ n + c + 2 \in 1 .. end /\ (n + c + 2) - 1 = n + 1 + c
        /\ n + 1 + c \in 0 .. 4 * L - 1 /\ n + 1 + c < n + c + 2
    BY <1>1, <1>2, <1>6, <1>13, <1>14
  <2> QED
    BY <2>1, <1>10, <1>11, <1>15
<1>20. ASSUME k.write, NEW i \in 1 .. w PROVE d[n + c + 2 + i] = k.new[i]
  <2>1. n + c + 2 + i \in 1 .. end /\ (n + c + 2 + i) - 1 = n + c + 2 + i - 1
    BY <1>2, <1>13, <1>14, <1>20
  <2>2. nv[n + c + 2 + i - 1] = k.new[i]
    BY <1>11, <1>20
  <2>3. d[n + c + 2 + i] = nv[(n + c + 2 + i) - 1]
    BY <2>1, <1>15
  <2> QED
    BY <2>1, <2>2, <2>3
<1>21. ASSUME k.write PROVE d[n + c + w + 3] = 0
  <2>1. n + c + w + 3 \in 1 .. end /\ (n + c + w + 3) - 1 = n + c + 2 + w
    BY <1>2, <1>13, <1>14, <1>21
  <2> QED
    BY <2>1, <1>11, <1>15, <1>21
<1>22. Len(d) \in Nat
  BY <1>15
<1>23. n + c + 2 <= Len(d) /\ (k.write => n + c + w + 3 <= Len(d))
  <2> DEFINE m == Len(d)
  <2>1. m \in Nat /\ end <= m
    BY <1>15, <1>22
  <2> HIDE DEF m
  <2>2. n + c + 2 <= m /\ (k.write => n + c + w + 3 <= m)
    BY <2>1, <1>2, <1>13, <1>14
  <2> QED
    BY <2>2 DEF m
<1>24. ~ k.write => /\ Len(d) = n + c + 2 + Len(padding)
                    /\ \A i \in 1 .. Len(padding) : d[n + c + 2 + i] = padding[i]
  BY <1>25, <1>26
<1> QED
  BY <1>15, <1>16, <1>17, <1>18, <1>19, <1>20, <1>21, <1>23, <1>24 DEF d, n, c, w

(* A regular access is decoded as it was.                                  *)
LEMMA Decoded ==
  ASSUME NEW k \in Access, ~ Unreadable(k), Regular(k), NEW padding \in Seq(Nat)
  PROVE  LET e == SysCtlEvent(Data(k, padding)) IN
         /\ ~ e.panic /\ e.name = k.name /\ e.current_value = k.current
         /\ e.new_value = IF k.write THEN k.new ELSE UnmarshalString(padding)
<1> DEFINE d == Data(k, padding)
           n == Len(k.name)
           c == Len(k.current)
           w == Len(k.new)
<1>1. /\ d \in Seq(Nat) /\ n + c + 2 <= Len(d)
      /\ \A i \in 1 .. n : d[i] = k.name[i]
      /\ d[n + 1] = 0
      /\ \A i \in 1 .. c : d[n + 1 + i] = k.current[i]
      /\ d[n + c + 2] = 0
      /\ k.write => /\ n + c + w + 3 <= Len(d)
                    /\ \A i \in 1 .. w : d[n + c + 2 + i] = k.new[i]
                    /\ d[n + c + w + 3] = 0
      /\ ~ k.write => /\ Len(d) = n + c + 2 + Len(padding)
                      /\ \A i \in 1 .. Len(padding) : d[n + c + 2 + i] = padding[i]
  BY Layout
<1> HIDE DEF d
<1>2. /\ k.name \in String /\ k.current \in String /\ k.new \in String
      /\ n \in Nat /\ c \in Nat /\ w \in Nat /\ Len(d) \in Nat
  BY <1>1, SysctlAssumption DEF Access, String
<1>3. n < Len(d)
  <2> DEFINE m == Len(d)
  <2>1. n + c + 2 <= m /\ n \in Nat /\ c \in Nat /\ m \in Nat
    BY <1>1, <1>2
  <2> HIDE DEF m, n, c
  <2>2. n < m
    BY <2>1
  <2> QED
    BY <2>2 DEF m
<1> DEFINE f == After(d)
           g == After(f)
<1>4. /\ UnmarshalString(d) = k.name /\ ~ Unterminated(d)
      /\ f \in Seq(Nat) /\ Len(f) = Len(d) - n - 1
      /\ \A i \in 1 .. Len(d) - n - 1 : f[i] = d[n + 1 + i]
  BY <1>1, <1>2, <1>3, ReadBack
<1> HIDE DEF f
<1> DEFINE m == Len(d)
<1>5. /\ m \in Nat /\ n + c + 2 <= m /\ (k.write => n + c + w + 3 <= m) /\ Len(f) = m - n - 1
      /\ \A i \in 1 .. m - n - 1 : f[i] = d[n + 1 + i]
  BY <1>1, <1>2, <1>4
<1> HIDE DEF m, n, c, w
<1>6. /\ c < Len(f) /\ \A i \in 1 .. c : f[i] = k.current[i]
      /\ f[c + 1] = 0
  <2>1. c < m - n - 1 /\ c + 1 \in 1 .. m - n - 1 /\ n + 1 + (c + 1) = n + c + 2
        /\ \A i \in 1 .. c : i \in 1 .. m - n - 1
    <3>1. n \in Nat /\ c \in Nat /\ m \in Nat /\ n + c + 2 <= m
      BY <1>2, <1>5
    <3> QED
      BY <3>1
  <2>2. f[c + 1] = 0
    BY <2>1, <1>1, <1>5
  <2> QED
    BY <2>1, <2>2, <1>1, <1>5
<1>7. /\ UnmarshalString(f) = k.current /\ ~ Unterminated(f)
      /\ g \in Seq(Nat) /\ Len(g) = Len(f) - c - 1
      /\ \A i \in 1 .. Len(f) - c - 1 : g[i] = f[c + 1 + i]
  BY <1>2, <1>4, <1>6, ReadBack DEF c
<1> HIDE DEF g
<1>8. k.write => UnmarshalString(g) = k.new
  <2> SUFFICES ASSUME k.write PROVE UnmarshalString(g) = k.new
    OBVIOUS
  <2>1. /\ Len(g) = (m - n - 1) - c - 1
        /\ \A i \in 1 .. (m - n - 1) - c - 1 : g[i] = f[c + 1 + i]
    BY <1>5, <1>7
  <2>2. \A i \in 1 .. w + 1 : /\ i \in 1 .. (m - n - 1) - c - 1 /\ c + 1 + i \in 1 .. m - n - 1
                              /\ n + 1 + (c + 1 + i) = n + c + 2 + i
    BY <1>2, <1>5
  <2>3. \A i \in 1 .. w + 1 : g[i] = d[n + c + 2 + i]
    BY <2>1, <2>2, <1>5
  <2>4. w + 1 \in 1 .. w + 1 /\ n + c + 2 + (w + 1) = n + c + w + 3 /\ w < (m - n - 1) - c - 1
        /\ \A i \in 1 .. w : i \in 1 .. w + 1
    BY <1>2, <1>5
  <2>5. w < Len(g) /\ g[w + 1] = 0 /\ \A i \in 1 .. w : g[i] = k.new[i]
    BY <2>1, <2>3, <2>4, <1>1
  <2> QED
    BY <2>5, <1>2, <1>7, ReadBack DEF w
<1>9. ~ k.write => g = padding
  <2> SUFFICES ASSUME ~ k.write PROVE g = padding
    OBVIOUS
  <2> DEFINE r == Len(padding)
  <2>1. r \in Nat /\ m = n + c + 2 + r /\ \A i \in 1 .. r : d[n + c + 2 + i] = padding[i]
    BY <1>1 DEF m
  <2>2. /\ Len(g) = (m - n - 1) - c - 1
        /\ \A i \in 1 .. (m - n - 1) - c - 1 : g[i] = f[c + 1 + i]
    BY <1>5, <1>7
  <2> HIDE DEF r
  <2>3. (m - n - 1) - c - 1 = r /\ \A i \in 1 .. r : /\ c + 1 + i \in 1 .. m - n - 1
                                                  /\ n + 1 + (c + 1 + i) = n + c + 2 + i
    BY <2>1, <1>2
  <2>4. \A i \in 1 .. r : g[i] = padding[i]
    BY <2>1, <2>2, <2>3, <1>5
  <2> QED
    BY <2>2, <2>3, <2>4, <1>7 DEF r
<1> QED
  BY <1>4, <1>7, <1>8, <1>9 DEF SysCtlEvent, d, f, g

-----------------------------------------------------------------------------
(* The event in the buffer is the packed form of an access the program     *)
(* could read, with the verdict it gave; the event shown is its decoding.  *)
EventInv ==
  /\ event.stage = "sent" =>
       /\ event.k \in Access /\ ~ Unreadable(event.k) /\ event.action = action(event.k, event.pid)
       /\ event.padding \in Paddings /\ event.data = Data(event.k, event.padding)
       /\ event.caller # 0 => event.pid = event.caller
  /\ OverridesFit => DecodeFaithful
  /\ ContextOfCaller

LEMMA EventStart == Init => EventInv
  BY DEF Init, None, EventInv, DecodeFaithful, ContextOfCaller, Shown

(* The configuration does not change, and the rest is in the event.        *)
LEMMA EventKept ==
  ASSUME EventInv, UNCHANGED <<config, event>>
  PROVE  EventInv'
  BY DEF EventInv, DecodeFaithful, ContextOfCaller, Shown, Written, Overrides, Blocks, action, decision,
         lookup

LEMMA EventSent ==
  ASSUME StateInv, EventInv, NEW p \in Pid, NEW c \in Cpu, NEW padding \in Paddings,
         cgroup_sysctl(p, c, padding)
  PROVE  EventInv'
<1> DEFINE k == AccessOf(p)
           e == [stage |-> "sent", panic |-> FALSE, k |-> k, pid |-> cache[c],
                 action |-> action(k, cache[c]), data |-> Data(k, padding), padding |-> padding,
                 caller |-> IF call[p].steady /\ call[p].cpu = c THEN p ELSE 0]
<1>1. /\ call[p] # Idle /\ UNCHANGED config
      /\ event' = IF Unreadable(k) \/ event.stage = "sent" THEN event ELSE e
  BY DEF cgroup_sysctl, AccessOf
<1>2. k \in Access
  BY <1>1, AccessTyped
<1>3. call[p].steady /\ call[p].cpu = c => cache[c] = p
  BY <1>1 DEF StateInv
<1>4. CASE event' = event
  BY <1>1, <1>4, EventKept
<1>5. CASE event' # event
  <2>1. event' = e /\ ~ Unreadable(k)
    BY <1>1, <1>5
  <2>2. /\ event'.stage = "sent" /\ event'.k = k /\ event'.pid = cache[c] /\ event'.action = action(k, cache[c])
        /\ event'.data = Data(k, padding) /\ event'.padding = padding
        /\ event'.caller # 0 => call[p].steady /\ call[p].cpu = c /\ event'.caller = p
    BY <2>1
  <2> HIDE DEF k
  <2>3. action(event.k, event.pid)' = action(k, cache[c])
    BY <2>2, <1>1 DEF action, Overrides, Blocks, decision, lookup
  <2>4. Unreadable(event.k)' = Unreadable(k)
    BY <2>2
  <2> QED
    BY <2>1, <2>2, <2>3, <2>4, <1>2, <1>3 DEF EventInv, DecodeFaithful, ContextOfCaller, Shown
<1> QED
  BY <1>4, <1>5

LEMMA EventShown ==
  ASSUME StateInv, EventInv, defaultEventHandler
  PROVE  EventInv'
<1> DEFINE e == SysCtlEvent(event.data)
           k == event.k
<1>1. /\ event.stage = "sent" /\ UNCHANGED config
      /\ event' = [stage |-> "shown", panic |-> e.panic, k |-> k, pid |-> event.pid,
                   action |-> event.action, caller |-> event.caller, padding |-> event.padding,
                   name |-> e.name, current_value |-> e.current_value, new_value |-> e.new_value,
                   overridden_with |-> NewValueOverriddenWith(e, event.action)]
  BY DEF defaultEventHandler
<1> DEFINE padding == event.padding
<1>2. padding \in Paddings /\ event.data = Data(k, padding)
  BY <1>1 DEF EventInv
<1>3. k \in Access /\ ~ Unreadable(k) /\ event.action = action(k, event.pid)
  BY <1>1 DEF EventInv
<1>4. padding \in Seq(Nat)
  BY <1>2, SysctlAssumption
<1>5. Regular(k) => /\ ~ e.panic /\ e.name = k.name /\ e.current_value = k.current
                    /\ e.new_value = IF k.write THEN k.new ELSE UnmarshalString(padding)
  BY <1>2, <1>3, <1>4, Decoded
<1>6. ASSUME OverridesFit, Regular(k), event.action = SYSCTL_OVERRIDE
      PROVE  NewValueOverriddenWith(e, event.action) = Written(k, event.pid)
  <2>1. Overrides(k, event.pid)
    BY <1>3, <1>6 DEF action, SYSCTL_OVERRIDE, SYSCTL_OK, SYSCTL_SHOT
  <2>2. k.new # <<>>
    BY <2>1, <1>6 DEF Overrides, Regular
  <2>3. Written(k, event.pid) = decision(k).override
    BY <2>1, <2>2, <1>3 DEF Written
  <2>4. Len(k.name) < L
    <3>1. Len(k.name) \in Nat /\ L \in Nat
      BY <1>3, SysctlAssumption DEF Access, String
    <3> QED
      BY <3>1, <1>3 DEF Unreadable, TooBig
  <2>5. decision(k) = MarshalBinary(Configured(k.name))
    BY <2>4, <1>3, DecisionOf DEF StateInv
  <2>6. Configured(k.name) \in Decision /\ Len(Configured(k.name).override) <= L
    BY <1>6, ConfiguredTyped DEF StateInv, OverridesFit, Configured
  <2>7. decision(k).override = Configured(k.name).override
    BY <2>5, <2>6, Marshalled
  <2>8. NewValueOverriddenWith(e, event.action) = Configured(k.name).override
    BY <1>5, <1>6 DEF NewValueOverriddenWith, Configured
  <2> QED
    BY <2>3, <2>7, <2>8
<1> DEFINE o == NewValueOverriddenWith(e, event.action)
<1> HIDE DEF e, o
<1>7. /\ event'.stage = "shown" /\ event'.panic = e.panic /\ event'.k = k /\ event'.pid = event.pid
      /\ event'.action = event.action /\ event'.caller = event.caller /\ event'.name = e.name
      /\ event'.current_value = e.current_value /\ event'.new_value = e.new_value
      /\ event'.overridden_with = o /\ event'.padding = padding
  BY <1>1 DEF o
<1>8. Written(event.k, event.pid)' = Written(k, event.pid)
  BY <1>1, <1>7 DEF Written, Overrides, decision, lookup
<1>9. Regular(event.k)' = Regular(k)
  BY <1>7
<1>10. (OverridesFit => DecodeFaithful)'
  BY <1>5, <1>6, <1>7, <1>8, <1>9 DEF DecodeFaithful, o
<1>11. ContextOfCaller'
  BY <1>1, <1>7 DEF EventInv, ContextOfCaller
<1> QED
  BY <1>7, <1>10, <1>11 DEF EventInv

LEMMA EventInvariance == Spec => []EventInv
<1>1. StateInv /\ EventInv /\ [Next]_vars => EventInv'
  <2> SUFFICES ASSUME StateInv, EventInv, [Next]_vars PROVE EventInv'
    OBVIOUS
  <2>1. CASE UNCHANGED vars
    BY <2>1, EventKept DEF vars
  <2>2. CASE defaultEventHandler
    BY <2>2, EventShown
  <2>3. ASSUME NEW p \in Pid, NEW c \in Cpu, NEW n, NEW w, NEW v, proc_sys_call_handler(p, c, n, w, v)
        PROVE  EventInv'
    BY <2>3, EventKept DEF proc_sys_call_handler
  <2>4. ASSUME NEW p \in Pid, NEW c \in Cpu, NEW padding \in Paddings, cgroup_sysctl(p, c, padding)
        PROVE  EventInv'
    BY <2>4, EventSent
  <2> QED
    BY <2>1, <2>2, <2>3, <2>4 DEF Next
<1> QED
  BY <1>1, EventStart, StateInvariance, PTL DEF Spec

(* The event of an access names its caller when the caller neither moved   *)
(* nor was followed on its CPU between the two programs: the slot that     *)
(* nothing empties is filled anew by every caller (sysctl_process_cache).  *)
THEOREM ContextAlwaysOfCaller == Spec => []ContextOfCaller
<1>1. EventInv => ContextOfCaller
  BY DEF EventInv
<1> QED
  BY <1>1, EventInvariance, PTL

(* The strings of a regular access are decoded as they were, for every     *)
(* buffer size and every content; the override shown is the one written    *)
(* when the map of decisions can hold it (the offsets of sysctl.h against  *)
(* the cursor of sysctl.go). The bytes that follow the event in the ring   *)
(* buffer show in one place only: as the new value of a read.              *)
THEOREM AlwaysDecodedFaithfully ==
  ASSUME OverridesFit
  PROVE  Spec => []DecodeFaithful
<1>1. EventInv => DecodeFaithful
  BY DEF EventInv
<1> QED
  BY <1>1, EventInvariance, PTL
=============================================================================
