------------------------------- MODULE Sysctl -------------------------------
(***************************************************************************)
(* The sysctl hook (ebpf/krie/hooks/sysctl.h, pkg/krie/sysctl.go,          *)
(* events/sysctl.go): a kprobe on proc_sys_call_handler leaves the context *)
(* of the process in a per-CPU slot, the cgroup/sysctl program that the    *)
(* handler runs next decides about the access with it, and the strings of  *)
(* the access travel packed in one buffer. Between the two programs the    *)
(* process can be preempted and migrated.                                  *)
(*                                                                         *)
(* Strings are sequences of bytes 1, 2, ...; 0 is the NUL. Lengths are     *)
(* scaled: L stands for MAX_SYSCTL_OBJ_LEN (256), the buffer has 4 L bytes *)
(* and a mask of the code, one less than a power of two, is a remainder.   *)
(***************************************************************************)
EXTENDS Policy, SequencesExt

CONSTANTS
  Cpu, Pid,       \* the pids of the processes that access parameters
  L, Einval,      \* scaled MAX_SYSCTL_OBJ_LEN and EINVAL
  Names, Texts,   \* names of parameters, contents of parameters and of writes
  Configs,        \* configurations: listed decisions, the default, the action of the event
  Paddings        \* what may follow an event in the perf ring buffer

String == Seq(Nat \ {0})
Decision == [block_write_access : BOOLEAN, block_read_access : BOOLEAN, override : String]

ASSUME SysctlAssumption ==
  /\ Pid \subseteq Nat \ {0} /\ L \in Nat \ {0} /\ Einval \in Nat \ {0}
  /\ \A s \in Names \cup Texts : s \in String
  /\ \A s \in Paddings : s \in Seq(Nat)
  /\ \A c \in Configs : /\ DOMAIN c.list \subseteq Names
                        /\ \A n \in DOMAIN c.list : c.list[n] \in Decision
                        /\ c.default \in Decision /\ c.action \in Action

VARIABLES
  config,   \* the options KRIe was started with
  value,    \* the kernel's parameters
  cache,    \* sysctl_process_cache: a pid per CPU
  call,     \* the access each process has begun
  event     \* the event in the perf buffer, then as it is shown

vars == <<config, value, cache, call, event>>

Idle == [name |-> <<>>]
None == [stage |-> "none", panic |-> FALSE]
Running == ~ event.panic      \* a panic of the handler ends KRIe and its programs

SYSCTL_SHOT == 0
SYSCTL_OK == 1
SYSCTL_OVERRIDE == 2

-----------------------------------------------------------------------------
(* The maps of decisions, filled before the programs are attached: keys    *)
(* and values are zero-padded to L bytes, and cut at L.                    *)

Padded(s) == [i \in 0 .. L - 1 |-> IF i < Len(s) THEN s[i + 1] ELSE 0]
MarshalBinary(d) == [d EXCEPT !.override = SubSeq(@, 1, IF Len(@) < L THEN Len(@) ELSE L)]
lookup(key) ==
  LET hits == {n \in DOMAIN config.list : Padded(n) = key}
  IN  MarshalBinary(IF hits = {} THEN config.default ELSE config.list[CHOOSE n \in hits : TRUE])

-----------------------------------------------------------------------------
(* The buffer: the helpers copy a string, fill the rest of their L bytes   *)
(* with zeros and return its length; an empty value gives -EINVAL. The     *)
(* program returns early on -E2BIG.                                        *)

TooBig(s) == Len(s) >= L
Returned(s) == IF s = <<>> THEN - Einval ELSE Len(s)
Zeroes == [i \in 0 .. 4 * L - 1 |-> 0]
Copy(buffer, at, s) == [i \in DOMAIN buffer |-> IF i \in at .. at + L - 1 THEN Padded(s)[i - at]
                                                ELSE buffer[i]]

value_index_at_nul(k) == Len(k.name)      \* mutant: the NUL of the name is not counted
value_index(k) == Len(k.name) + 1
new_value_index(k) == value_index(k) + Returned(k.current) + 1
buffer_end(k) == IF k.write THEN new_value_index(k) + Returned(k.new) + 1 ELSE new_value_index(k)

Named(k) == Copy(Zeroes, 0, k.name)
Valued(k) == Copy(Named(k), value_index(k) % L, k.current)
name_value(k) == IF k.write THEN Copy(Valued(k), new_value_index(k) % (2 * L), k.new) ELSE Valued(k)

decision(k) == lookup([i \in 0 .. L - 1 |-> Named(k)[i]])

-----------------------------------------------------------------------------
OverridesLong(k, pid) ==      \* mutant: an override of one byte is none
  k.write /\ Len(decision(k).override) > 1 /\ ~ filter_krie_runtime_with_pid(pid)
Overrides(k, pid) ==
  k.write /\ Len(decision(k).override) >= 1 /\ ~ filter_krie_runtime_with_pid(pid)

BlocksSwapped(k) ==      \* mutant: the two halves of the decision are mixed up
  IF k.write THEN decision(k).block_read_access ELSE decision(k).block_write_access
Blocks(k) == IF k.write THEN decision(k).block_write_access ELSE decision(k).block_read_access

(* The results EINVAL and ERANGE of the override are themselves            *)
(* overwritten, as is the SHOT of a write that is blocked.                 *)
action(k, pid) == IF Overrides(k, pid) THEN SYSCTL_OVERRIDE
                  ELSE IF Blocks(k) THEN SYSCTL_SHOT ELSE SYSCTL_OK

Unreadable(k) == TooBig(k.name) \/ TooBig(k.current) \/ (k.write /\ TooBig(k.new))
Allowed(k, pid) ==
  IF Unreadable(k) THEN ~ k.write
  ELSE /\ action(k, pid) # SYSCTL_SHOT
       /\ "eperm" \notin enforce_policy(pid, config.action, "cgroup_sysctl", "symbol")

(* What the kernel then writes; nothing is written by an empty write, and  *)
(* there is no buffer an override of it could go to.                       *)
Written(k, pid) == IF k.new = <<>> THEN k.current
                   ELSE IF ~ Unreadable(k) /\ Overrides(k, pid) THEN decision(k).override
                   ELSE k.new

(* The bytes user space gets: up to buffer_end, and what the ring buffer   *)
(* holds behind the event up to its alignment.                             *)
Data(k, padding) == [i \in 1 .. buffer_end(k) % (4 * L) |-> name_value(k)[i - 1]] \o padding

-----------------------------------------------------------------------------
(* UnmarshallBinary of SysCtlEvent: strings up to a NUL, one after the     *)
(* other; a string without a NUL moves the cursor behind the data, and the *)
(* slice that follows panics. The last string is followed by no slice.     *)

UnmarshalString(data) == LET nuls == {i \in DOMAIN data : data[i] = 0}
                         IN  IF nuls = {} THEN data ELSE SubSeq(data, 1, Min(nuls) - 1)
After(data) == SubSeq(data, Len(UnmarshalString(data)) + 2, Len(data))
Unterminated(data) == data # <<>> /\ 0 \notin Range(data)

SysCtlEvent(data) ==
  [name |-> UnmarshalString(data), current_value |-> UnmarshalString(After(data)),
   new_value |-> UnmarshalString(After(After(data))),
   panic |-> Unterminated(data) \/ Unterminated(After(data))]

NewValueOverriddenWith(e, act) ==
  IF act # SYSCTL_OVERRIDE THEN <<>>
  ELSE IF e.name \in DOMAIN config.list THEN config.list[e.name].override
  ELSE config.default.override

-----------------------------------------------------------------------------
Init ==
  /\ config \in Configs
  /\ value \in UNION {[{n} -> Texts] : n \in Names}      \* the parameter under observation
  /\ cache = [c \in Cpu |-> 0]      \* a zeroed map: the pid of the idle task
  /\ call = [p \in Pid |-> Idle]
  /\ event = None

(* "steady", and the caller and the padding in an event, are history: the  *)
(* slot of the CPU still holds the context its caller left there.          *)
FillWhenEmpty(c, p) ==      \* mutant: relies on the deletion from the per-CPU array
  [cache EXCEPT ![c] = IF @ = 0 THEN p ELSE @]
fill_process_context(c, p) == [cache EXCEPT ![c] = p]

proc_sys_call_handler(p, c, n, w, v) ==
  /\ Running /\ call[p] = Idle
  /\ cache' = fill_process_context(c, p)
  /\ call' = [q \in Pid |->
                IF q = p THEN [name |-> n, write |-> w, new |-> v, cpu |-> c, steady |-> TRUE]
                ELSE IF call[q] # Idle /\ call[q].cpu = c THEN [call[q] EXCEPT !.steady = FALSE]
                ELSE call[q]]
  /\ UNCHANGED <<config, value, event>>

(* The program runs on the CPU the process is on by now. Its deletion from *)
(* the per-CPU array changes nothing. An event that finds the perf buffer  *)
(* full is lost.                                                           *)
cgroup_sysctl(p, c, padding) ==
  /\ Running /\ call[p] # Idle
  /\ LET k == [name |-> call[p].name, write |-> call[p].write, new |-> call[p].new,
               current |-> value[call[p].name]]
         pid == cache[c]
     IN  /\ value' = IF k.write /\ Allowed(k, pid) THEN [value EXCEPT ![k.name] = Written(k, pid)]
                     ELSE value
         /\ event' = IF Unreadable(k) \/ event.stage = "sent" THEN event
                     ELSE [stage |-> "sent", panic |-> FALSE, k |-> k, pid |-> pid,
                           action |-> action(k, pid), data |-> Data(k, padding), padding |-> padding,
                           caller |-> IF call[p].steady /\ call[p].cpu = c THEN p ELSE 0]
  /\ call' = [call EXCEPT ![p] = Idle]
  /\ UNCHANGED <<config, cache>>

defaultEventHandler ==
  /\ event.stage = "sent"
  /\ event' = LET e == SysCtlEvent(event.data) IN
              [stage |-> "shown", panic |-> e.panic, k |-> event.k, pid |-> event.pid,
               action |-> event.action, caller |-> event.caller, padding |-> event.padding,
               name |-> e.name, current_value |-> e.current_value, new_value |-> e.new_value,
               overridden_with |-> NewValueOverriddenWith(e, event.action)]
  /\ UNCHANGED <<config, value, cache, call>>

Next ==
  \/ \E p \in Pid, c \in Cpu, n \in DOMAIN value :
        \/ proc_sys_call_handler(p, c, n, FALSE, <<>>)
        \/ \E v \in Texts : proc_sys_call_handler(p, c, n, TRUE, v)
  \/ \E p \in Pid, c \in Cpu, padding \in Paddings : cgroup_sysctl(p, c, padding)
  \/ defaultEventHandler

Spec == Init /\ [][Next]_vars

-----------------------------------------------------------------------------
(* What the configuration says about a parameter.                          *)
Configured(n) == IF n \in DOMAIN config.list THEN config.list[n] ELSE config.default

(* An event that was handled.                                              *)
Shown == event.stage = "shown"

(* Accesses whose strings fit the masks of the program: a non-empty value, *)
(* a non-empty write, a name below the last length that is accepted, and   *)
(* a write that starts within the first half of the buffer.                *)
Regular(k) == /\ Len(k.name) < L - 1 /\ k.current # <<>> /\ (k.write => k.new # <<>>)
              /\ Len(k.name) + Len(k.current) + 2 < 2 * L

(* The strings of a regular access arrive as they were, and the value      *)
(* reported as the override is the one the program wrote (offsets of       *)
(* sysctl.h, cursor of sysctl.go). Of what follows the event in the ring   *)
(* buffer a write shows nothing; a read, which sends no third string,      *)
(* shows its first string as the new value.                                *)
DecodeFaithful ==
  (Shown /\ Regular(event.k)) =>
      /\ ~ event.panic
      /\ event.name = event.k.name /\ event.current_value = event.k.current
      /\ event.new_value = IF event.k.write THEN event.k.new ELSE UnmarshalString(event.padding)
      /\ event.action = SYSCTL_OVERRIDE => event.overridden_with = Written(event.k, event.pid)

(* A parameter whose writes are blocked, and not overridden, keeps its     *)
(* value whoever writes, and whatever context the program finds in its     *)
(* slot: the lengths and the name decide before any process is looked at.  *)
Blocked(n) == Configured(n).block_write_access /\ Configured(n).override = <<>>
BlockedKept == [][\A n \in DOMAIN value : Blocked(n) => value'[n] = value[n]]_vars

(* A parameter with an override changes to the override only, unless the   *)
(* writer is exempt, or an exempt process (or nobody yet) left its context *)
(* where the writer's should be: overtaken by another process or migrated. *)
Strayed(p) == \E c \in Cpu : /\ filter_krie_runtime_with_pid(cache[c])
                             /\ c # call[p].cpu \/ ~ call[p].steady
OverrideHeld ==
  [][\A n \in DOMAIN value :
       (Configured(n).override # <<>> /\ value'[n] # value[n]) =>
          \/ value'[n] = Configured(n).override
          \/ \E p \in Pid : /\ call[p] # Idle /\ call'[p] = Idle
                            /\ filter_krie_runtime_with_pid(p) \/ Strayed(p)]_vars

(* An event names its caller when no other process entered the handler on  *)
(* that CPU in between and the process did not move: the slot is filled    *)
(* anew by every call, although nothing ever empties it.                   *)
ContextOfCaller == (Shown /\ event.caller # 0) => event.pid = event.caller
=============================================================================
