----------------------------- MODULE KillSwitch -----------------------------
(***************************************************************************)
(* The verdict pipeline every KRIe program ends in (krie/krie.h): a check  *)
(* gives a verdict; a KILL or PARANOID verdict is written to a kill switch *)
(* map; the verdict is raised to the kill switches in force; the result is *)
(* enforced on the current process.                                        *)
(*                                                                         *)
(* Programs run on several CPUs at once.  A program is not preempted by    *)
(* another one on its CPU, but every map operation is a step of its own,   *)
(* so the runs of two CPUs interleave between them.                        *)
(*                                                                         *)
(* A kill switch map is a total function from keys to actions: NOP stands  *)
(* for an absent entry, which a lookup treats alike, because only KILL and *)
(* PARANOID are ever stored.                                               *)
(***************************************************************************)
EXTENDS Policy

CONSTANTS
  Cpu,          \* CPUs that run programs
  Pid,          \* process ids
  EventType,    \* event types that have a policy
  Attached,     \* names of the attached programs
  Configurations  \* the policies KRIe may be configured with

ASSUME KillSwitchAssumption ==
  /\ Pid \subseteq Nat
  /\ {0, KriePid} \subseteq Pid
  /\ 0 # KriePid

VARIABLES
  policies,             \* BPF map: event type -> action
  global_kill_switch,   \* BPF hash map of one entry
  process_kill_switch,  \* BPF hash map: pid -> action
  run,                  \* the program run in progress on each CPU
  proc,                 \* kernel state of each process
  punished              \* history: processes denied or signalled, each with
                        \* the pid in the context the run decided with

vars == <<policies, global_kill_switch, process_kill_switch, run, proc, punished>>

Exempt == Pid \cap {0, 1, KriePid}

(***************************************************************************)
(* One row per program, named after its function.  events: the event types *)
(* whose policy its check reads ({} for a check of NULL or of the context  *)
(* only).  certain: the check always yields the policy's action, otherwise *)
(* only when it detects something.  latches, heeds: whether the verdict is *)
(* stored in, and raised to, the kill switches.  filters: whether the      *)
(* program leaves KRIe's own process alone before its check.  What else    *)
(* cgroup_sysctl decides, about the parameter, is in module Sysctl.        *)
(***************************************************************************)
Check(event, type, hook) ==
  [events |-> {event}, certain |-> TRUE, latches |-> TRUE, heeds |-> TRUE,
   filters |-> FALSE, type |-> type, hook |-> hook]

OnEntry(event)   == Check(event, "kprobe", "syscall")
OnReturn(event)  == [OnEntry(event) EXCEPT !.filters = TRUE]
AtSysExit(event) == [Check(event, "tracepoint", "symbol") EXCEPT !.filters = TRUE]
InKernel(event)  == Check(event, "kprobe", "symbol")
OnSight(event, type) == [Check(event, type, "symbol") EXCEPT !.certain = FALSE]

sys_init_module               == OnEntry("init_module")
trace_module                  == InKernel("init_module")
sys_init_module_ret           == OnReturn("init_module")
handle_sys_init_module_exit   == AtSysExit("init_module")
sys_delete_module             == OnEntry("delete_module")
sys_delete_module_ret         == OnReturn("delete_module")
handle_sys_delete_module_exit == AtSysExit("delete_module")
sys_ptrace                    == OnEntry("ptrace")
sys_ptrace_ret                == OnReturn("ptrace")
handle_sys_ptrace_exit        == AtSysExit("ptrace")
sys_setsockopt                == OnEntry("bpf_filter")
sys_setsockopt_ret            == OnReturn("bpf_filter")
handle_sys_setsockopt_exit    == AtSysExit("bpf_filter")
sys_bpf                       == OnEntry("bpf")
sys_bpf_ret                   == OnReturn("bpf")
handle_sys_bpf_exit           == AtSysExit("bpf")
cache_kprobe                  == InKernel("kprobe")
register_kprobe_ret           == [InKernel("kprobe") EXCEPT !.filters = TRUE]
register_kretprobe            == InKernel("kprobe")
write_enabled_file_bool       == InKernel("kprobe")
write_enabled_file_bool_ret   == [InKernel("kprobe") EXCEPT !.filters = TRUE]
sys_enter_syscall             == OnSight("hooked_syscall", "tracepoint")
sys_enter_syscall_x32         == OnSight("hooked_syscall", "tracepoint")
sys_enter_kernel_parameter    == OnSight("kernel_parameter", "tracepoint")
sys_exit       == [OnSight("none", "tracepoint") EXCEPT !.events = {}]
syscall_table_ticker          == OnSight("hooked_syscall_table", "perf_event")
kernel_parameter_ticker       == OnSight("kernel_parameter", "perf_event")
generic_lsm_func    == [OnSight("none", "lsm") EXCEPT !.events = {}, !.latches = FALSE]
cgroup_sysctl       == Check("sysctl", "cgroup_sysctl", "symbol")
prepare_kernel_cred ==
  [OnSight("register_check", "perf_event") EXCEPT !.latches = FALSE, !.heeds = FALSE]

Program ==
  [sys_init_module |-> sys_init_module, trace_module |-> trace_module,
   sys_init_module_ret |-> sys_init_module_ret,
   handle_sys_init_module_exit |-> handle_sys_init_module_exit,
   sys_delete_module |-> sys_delete_module, sys_delete_module_ret |-> sys_delete_module_ret,
   handle_sys_delete_module_exit |-> handle_sys_delete_module_exit,
   sys_ptrace |-> sys_ptrace, sys_ptrace_ret |-> sys_ptrace_ret,
   handle_sys_ptrace_exit |-> handle_sys_ptrace_exit,
   sys_setsockopt |-> sys_setsockopt, sys_setsockopt_ret |-> sys_setsockopt_ret,
   handle_sys_setsockopt_exit |-> handle_sys_setsockopt_exit,
   sys_bpf |-> sys_bpf, sys_bpf_ret |-> sys_bpf_ret, handle_sys_bpf_exit |-> handle_sys_bpf_exit,
   cache_kprobe |-> cache_kprobe, register_kprobe_ret |-> register_kprobe_ret,
   register_kretprobe |-> register_kretprobe,
   write_enabled_file_bool |-> write_enabled_file_bool,
   write_enabled_file_bool_ret |-> write_enabled_file_bool_ret,
   sys_enter_syscall |-> sys_enter_syscall, sys_enter_syscall_x32 |-> sys_enter_syscall_x32,
   sys_enter_kernel_parameter |-> sys_enter_kernel_parameter, sys_exit |-> sys_exit,
   syscall_table_ticker |-> syscall_table_ticker,
   kernel_parameter_ticker |-> kernel_parameter_ticker,
   generic_lsm_func |-> generic_lsm_func, cgroup_sysctl |-> cgroup_sysctl,
   prepare_kernel_cred |-> prepare_kernel_cred]

(* Programs that interrupt, or run in softirq on top of, any task, the    *)
(* idle task included; the others run in a syscall of their process.      *)
AnyContext == {"syscall_table_ticker", "kernel_parameter_ticker", "generic_lsm_func"}

(* The pids a run may find in its process context.  A program fills it     *)
(* from the current task; cgroup_sysctl takes it from a slot of its CPU,   *)
(* which is zero at first and is never emptied afterwards: it may be left  *)
(* from any process that ever accessed a parameter on that CPU.            *)
Context(name, task) == IF name = "cgroup_sysctl" THEN Pid ELSE {task}

(* task: the process a program runs in; pid: the one its context names. *)
Idle == [pc |-> "idle", name |-> "sys_exit", task |-> 0, pid |-> 0, action |-> NOP,
         atStart |-> NOP]

Verdict(name) ==
  LET fetch(e) == IF e = "register_check" THEN fetch_policy_or_log(policies[e])
                                          ELSE fetch_policy_or_block(policies[e])
      found == {fetch(e) : e \in Program[name].events \cap EventType}
  IN  IF Program[name].certain THEN found ELSE found \cup {NOP}

ValidPolicies ==
  {p \in [EventType -> Action] :
     "hooked_syscall_table" \in EventType =>
        p["hooked_syscall_table"] \notin {BLOCK, KILL}}

Init ==
  /\ policies \in ValidPolicies \cap Configurations
  /\ global_kill_switch = [p \in Pid |-> NOP]
  /\ process_kill_switch = [p \in Pid |-> NOP]
  /\ run = [c \in Cpu |-> Idle]
  /\ proc = [p \in Pid |-> "live"]
  /\ punished = {}

(***************************************************************************)
(* The map operations.  An update of a hash map that already holds         *)
(* max_entries other keys fails; neither setter's result is looked at.     *)
(***************************************************************************)
(* Variant: a map without the bound. *)
UpdateUnbounded(m, key, action) == [m EXCEPT ![key] = action]

UpdateOneEntryMap(m, key, action) ==
  IF \E k \in Pid \ {key} : m[k] # NOP THEN m ELSE [m EXCEPT ![key] = action]

set_global_kill_switch(action) ==
  /\ global_kill_switch' = UpdateOneEntryMap(global_kill_switch, 0, action)
  /\ UNCHANGED process_kill_switch

(* Variant: the key is left at 0. *)
SetProcessUnderKeyZero(action, pid) ==
  /\ global_kill_switch' = UpdateOneEntryMap(global_kill_switch, 0, action)
  /\ UNCHANGED process_kill_switch

set_process_kill_switch(action, pid) ==
  /\ global_kill_switch' = UpdateOneEntryMap(global_kill_switch, pid, action)
  /\ UNCHANGED process_kill_switch

get_global_kill_switch == global_kill_switch[0]
get_process_kill_switch(pid) == process_kill_switch[pid]

(***************************************************************************)
(* One program run.  atStart remembers, for the properties, the global     *)
(* switch a run found in force when it started.                            *)
(***************************************************************************)
Start(c, name, task, pid) ==
  /\ run[c].pc = "idle"
  /\ name \in Attached
  /\ proc[task] # "free"
  /\ task = 0 => name \in AnyContext
  /\ filter_krie_runtime_with_pid(pid) => ~ Program[name].filters
  /\ \E verdict \in Verdict(name) :
       run' = [run EXCEPT ![c] =
                 [pc |-> IF Program[name].latches THEN "set"
                         ELSE IF Program[name].heeds THEN "process" ELSE "enforce",
                  name |-> name, task |-> task, pid |-> pid, action |-> verdict,
                  atStart |-> get_global_kill_switch]]
  /\ UNCHANGED <<policies, global_kill_switch, process_kill_switch, proc, punished>>

(* Variant: every enforcing verdict is stored. *)
SetSwitchFromBlock(c) ==
  /\ run[c].pc = "set"
  /\ run' = [run EXCEPT ![c].pc = "process"]
  /\ IF run[c].action >= BLOCK THEN set_process_kill_switch(run[c].action, run[c].pid)
     ELSE UNCHANGED <<global_kill_switch, process_kill_switch>>
  /\ UNCHANGED <<policies, proc, punished>>

(* Variant: a verdict above LOG is taken for KILL. *)
SetSwitchAboveLog(c) ==
  /\ run[c].pc = "set"
  /\ run' = [run EXCEPT ![c].pc = "process"]
  /\ IF run[c].action > LOG THEN set_process_kill_switch(KILL, run[c].pid)
     ELSE UNCHANGED <<global_kill_switch, process_kill_switch>>
  /\ UNCHANGED <<policies, proc, punished>>

SetSwitch(c) ==
  /\ run[c].pc = "set"
  /\ run' = [run EXCEPT ![c].pc = "process"]
  /\ \/ /\ run[c].action = KILL
        /\ set_process_kill_switch(KILL, run[c].pid)
     \/ /\ run[c].action = PARANOID
        /\ set_global_kill_switch(PARANOID)
     \/ /\ run[c].action \notin {KILL, PARANOID}
        /\ UNCHANGED <<global_kill_switch, process_kill_switch>>
  /\ UNCHANGED <<policies, proc, punished>>

HeedProcessSwitch(c) ==
  /\ run[c].pc = "process"
  /\ run' = [run EXCEPT ![c].pc = "global",
                        ![c].action = Larger(@, get_process_kill_switch(run[c].pid))]
  /\ UNCHANGED <<policies, global_kill_switch, process_kill_switch, proc, punished>>

(* Variant: only the process's switch is read. *)
HeedNoGlobalSwitch(c) ==
  /\ run[c].pc = "global"
  /\ run' = [run EXCEPT ![c].pc = "enforce"]
  /\ UNCHANGED <<policies, global_kill_switch, process_kill_switch, proc, punished>>

HeedGlobalSwitch(c) ==
  /\ run[c].pc = "global"
  /\ run' = [run EXCEPT ![c].pc = "enforce",
                        ![c].action = Larger(@, get_global_kill_switch)]
  /\ UNCHANGED <<policies, global_kill_switch, process_kill_switch, proc, punished>>

Enforce(c) ==
  LET r   == run[c]
      out == enforce_policy(r.pid, r.action, Program[r.name].type, Program[r.name].hook)
  IN  /\ r.pc = "enforce"
      /\ run' = [run EXCEPT ![c] = Idle]
      /\ proc' = IF "signal" \in out THEN [proc EXCEPT ![r.task] = "dying"] ELSE proc
      /\ punished' = IF out # {} THEN punished \cup {<<r.task, r.pid>>} ELSE punished
      /\ UNCHANGED <<policies, global_kill_switch, process_kill_switch>>

(* The decision about the parameter refuses the access, whoever makes it:  *)
(* cgroup_sysctl then returns without enforcing its verdict.               *)
Refuse(c) ==
  /\ run[c].pc = "enforce"
  /\ run[c].name = "cgroup_sysctl"
  /\ run' = [run EXCEPT ![c] = Idle]
  /\ UNCHANGED <<policies, global_kill_switch, process_kill_switch, proc, punished>>

Step(c) == SetSwitch(c) \/ HeedProcessSwitch(c) \/ HeedGlobalSwitch(c) \/ Enforce(c) \/ Refuse(c)

(***************************************************************************)
(* The kernel's own steps: a process exits (a SIGKILL is delivered when it *)
(* leaves the kernel, hence when no program runs in it) and its pid is     *)
(* given to a new process, which no map entry is told about.               *)
(***************************************************************************)
Exit(p) ==
  /\ p \notin Exempt
  /\ proc[p] # "free"
  /\ \A c \in Cpu : run[c].pc # "idle" => run[c].task # p
  /\ proc' = [proc EXCEPT ![p] = "free"]
  /\ UNCHANGED <<policies, global_kill_switch, process_kill_switch, run, punished>>

Fork(p) ==
  /\ proc[p] = "free"
  /\ proc' = [proc EXCEPT ![p] = "live"]
  /\ punished' = {h \in punished : h[1] # p}
  /\ UNCHANGED <<policies, global_kill_switch, process_kill_switch, run>>

Next ==
  \/ \E c \in Cpu : Step(c)
  \/ \E c \in Cpu, name \in DOMAIN Program, p \in Pid :
        \E q \in Context(name, p) : Start(c, name, p, q)
  \/ \E p \in Pid : Exit(p) \/ Fork(p)

Spec == Init /\ [][Next]_vars

(***************************************************************************)
(* Fairness: a program that started runs to its end (the verifier admits   *)
(* only terminating programs), and a process that keeps running keeps      *)
(* returning from syscalls, so sys_exit starts in it again and again.      *)
(***************************************************************************)
Fairness ==
  /\ \A c \in Cpu : WF_vars(Step(c))
  /\ \A p \in Pid \ {0} : SF_vars(\E c \in Cpu : Start(c, "sys_exit", p, p))

FairSpec == Spec /\ Fairness

-----------------------------------------------------------------------------
StoredAction == {NOP, KILL, PARANOID}

Run == [pc : {"idle", "set", "process", "global", "enforce"},
        name : DOMAIN Program, task : Pid, pid : Pid, action : Action, atStart : StoredAction]

(* Every variable keeps its type. *)
TypeOK ==
  /\ policies \in [EventType -> Action]
  /\ global_kill_switch \in [Pid -> StoredAction]
  /\ process_kill_switch \in [Pid -> Action]
  /\ run \in [Cpu -> Run]
  /\ proc \in [Pid -> {"free", "live", "dying"}]
  /\ punished \subseteq Pid \X Pid

(* Whatever the policies, the switches and the interleaving, no program    *)
(* signals KRIe's own process, init or idle, although their runs may arm   *)
(* the switches, and none enforces a verdict on them with their own        *)
(* context: a verdict reaches them only as the refusal of a parameter, by  *)
(* cgroup_sysctl with the context of a process that is not exempt.  (What  *)
(* the decision about the parameter refuses them is not a verdict.)        *)
RuntimeSpared ==
  \A p \in Exempt :
    /\ proc[p] = "live"
    /\ \A h \in punished : h[1] = p => h[2] \notin Exempt /\ "cgroup_sysctl" \in Attached

(* Once the global switch is armed (the entry under key 0 holds at least   *)
(* KILL), every program run that starts afterwards and that heeds the      *)
(* switches comes to its enforcement with at least KILL.                   *)
ArmedSwitchHeeded ==
  \A c \in Cpu :
    (run[c].pc = "enforce" /\ run[c].atStart # NOP /\ Program[run[c].name].heeds)
      => run[c].action >= KILL

(* No process is treated more severely than some policy asks for: what a   *)
(* run is about to enforce, and what a switch holds, is an action of a     *)
(* policy, whichever processes and CPUs it went through, so that policies  *)
(* which only log leave every process alone (krie_run_event_check).        *)
Hit(p) == \E h \in punished : h[1] = p
Asked == {NOP} \cup {policies[e] : e \in EventType}
NothingUnasked ==
  /\ \A c \in Cpu : run[c].action \in Asked
  /\ \A p \in Pid : global_kill_switch[p] \in Asked /\ process_kill_switch[p] \in Asked
  /\ \A p \in Pid : /\ Hit(p) => Asked \cap {BLOCK, KILL, PARANOID} # {}
                    /\ proc[p] = "dying" => Asked \cap {KILL, PARANOID} # {}

(* The global switch goes off only for a PARANOID verdict, or for a KILL   *)
(* verdict of a run whose context names pid 0, the switch's own key: a run *)
(* in the idle task, or cgroup_sysctl with a slot nobody has filled yet.   *)
ArmedForCause ==
  [][(global_kill_switch[0] = NOP /\ global_kill_switch'[0] # NOP)
       => \E c \in Cpu :
            /\ run[c].pc = "set"
            /\ \/ run[c].action = PARANOID
               \/ run[c].action = KILL /\ run[c].pid = 0]_vars

(* With bpf_send_signal, an armed global switch brings down every process  *)
(* that is not exempt and keeps making syscalls.                           *)
ArmedSwitchKills ==
  \A p \in Pid \ Exempt :
    (get_global_kill_switch >= KILL /\ SendSignal) ~> (proc[p] # "live")

(* The one-entry map is a latch: the first key written owns it for good,   *)
(* be it a process's pid or the global switch's key 0.                     *)
Entries == {<<p, global_kill_switch[p]>> : p \in {q \in Pid : global_kill_switch[q] # NOP}}

Latch == INSTANCE SwitchLatch WITH
  Key <- Pid, Stored <- {KILL, PARANOID}, slot <- Entries

FirstKeyOwnsSlot == Latch!Spec

-----------------------------------------------------------------------------
(* What a comment of the code says, and its steps refute.                  *)

(* "set process kill switch": a KILL verdict leaves the process's switch   *)
(* set.                                                                    *)
KillVerdictLatched ==
  [][\A c \in Cpu :
       (run[c].pc = "set" /\ run'[c].pc = "process" /\ run[c].action = KILL)
          => process_kill_switch'[run[c].pid] = KILL]_vars
=============================================================================
