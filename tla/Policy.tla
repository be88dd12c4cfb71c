------------------------------- MODULE Policy -------------------------------
(***************************************************************************)
(* The decision vocabulary of KRIe: actions, the lookup of an event's      *)
(* policy, and enforce_policy, which turns an action into what the kernel  *)
(* does to the current process (ebpf/krie/krie/policy.h).                  *)
(*                                                                         *)
(* A pid is a natural number because pids 0 (idle) and 1 (init) are        *)
(* literals in the code.  An absent map entry is written Missing.          *)
(***************************************************************************)
EXTENDS Integers

CONSTANTS
  KriePid,          \* pid of the KRIe user space process
  SendSignal,       \* the kernel has the bpf_send_signal helper
  OverrideReturn    \* the kernel has the bpf_override_return helper

ASSUME PolicyAssumption ==
  /\ KriePid \in Nat
  /\ SendSignal \in BOOLEAN
  /\ OverrideReturn \in BOOLEAN

NOP == 0
LOG == 1
BLOCK == 2
KILL == 3
PARANOID == 4

Action == 0 .. 4
Missing == -1

ProgramType == {"kprobe", "tracepoint", "lsm", "perf_event", "cgroup_sysctl"}
HookType == {"symbol", "syscall"}

Larger(a, b) == IF a < b THEN b ELSE a

(* Variant: the idle task is forgotten. *)
FilterWithoutIdle(pid) == pid \in {KriePid, 1}

filter_krie_runtime_with_pid(pid) == pid \in {KriePid, 1, 0}

fetch_policy_or_block(policy) == IF policy = Missing THEN BLOCK ELSE policy
fetch_policy_or_log(policy) == IF policy = Missing THEN LOG ELSE policy

(* Variant: SIGKILL is reserved to kprobe and LSM programs. *)
EnforceWithoutTracepoints(pid, action, type, hook) ==
  LET kill == /\ ~ filter_krie_runtime_with_pid(pid)
              /\ action \in {KILL, PARANOID}
  IN  IF kill /\ type \in {"kprobe", "lsm"} /\ SendSignal THEN {"signal", "eperm"} ELSE {}

(***************************************************************************)
(* What one program run does to the current process: "signal", it sends    *)
(* SIGKILL; "eperm", the operation under the hook is refused, by replacing *)
(* the return value of the probed syscall, by the negative return value of *)
(* an LSM program or by the zero of a cgroup/sysctl program.               *)
(***************************************************************************)
enforce_policy(pid, action, type, hook) ==
  LET a    == IF filter_krie_runtime_with_pid(pid) THEN NOP ELSE action
      kill == a \in {KILL, PARANOID}
      deny == kill \/ a = BLOCK
  IN  {effect \in {"signal", "eperm"} :
         \/ /\ effect = "signal"
            /\ kill /\ type # "cgroup_sysctl" /\ SendSignal
         \/ /\ effect = "eperm"
            /\ deny
            /\ \/ type = "kprobe" /\ hook = "syscall" /\ OverrideReturn
               \/ type \in {"lsm", "cgroup_sysctl"}}
=============================================================================
