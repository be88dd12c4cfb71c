------------------------------- MODULE Probes -------------------------------
(***************************************************************************)
(* Start-up of the eBPF manager (manager.go: startManager, prepareManager; *)
(* events.go: AllProbes and friends): from what KRIe can learn about the   *)
(* host it derives the constants of the programs, the probes it declares,  *)
(* the ones it requires and the ones it excludes, in that order, asking    *)
(* for the host again each time. A question may fail; the first answer is  *)
(* cached for ever (kernel.NewHost).                                       *)
(***************************************************************************)
EXTENDS Host, Sequences, Functions

CONSTANTS Envs,        \* hosts: see EnvOK
          EventSets,   \* sets of activated event types
          MissingSets  \* sets of kernel symbols that cannot be hooked

EventTypes == {"init_module", "delete_module", "bpf", "bpf_filter", "ptrace", "kprobe", "sysctl",
               "hooked_syscall_table", "hooked_syscall", "kernel_parameter",
               "periodic_kernel_parameter", "register_check"}

(* real is the version of the running kernel, os the distribution ("none"  *)
(* when no os-release file is readable), open the kernel's name for the    *)
(* open syscall up to "open". What a source of the version says about the  *)
(* series of the running kernel is true.                                   *)
EnvOK(e) == /\ \A v \in {e.signature, e.debian, e.release} :
                  /\ v.patch \in Int
                  /\ Parses(v) => v.major = e.real.major /\ v.minor = e.real.minor
            /\ e.os \in {"rh7", "rh8", "other", "none"}
            /\ e.arch \in {"x64", "arm64"}
            /\ e.open \in {"SyS_", "sys_", "wrapped"}

ASSUME ProbesAssumption ==
    /\ \A e \in Envs : EnvOK(e)
    /\ EventSets \subseteq SUBSET EventTypes

VARIABLES env, activated, stage, first, attached
vars == <<env, activated, stage, first, attached>>

-----------------------------------------------------------------------------
(* Probes: a point of a kernel symbol; syscalls have one symbol per abi.   *)

Fn(point, symbol) == [point |-> point, symbol |-> symbol, abi |-> "none"]
Sys(point, s, abi) == [point |-> point, symbol |-> s, abi |-> abi]
EntryAndExit(symbols) == {Fn(p, s) : p \in {"kprobe", "kretprobe"}, s \in symbols}

(* An empty list of events contains every event.                           *)
Contains(events, et) == events = {} \/ et \in events

SyscallsOf(et) ==
    CASE et = "init_module" -> {"init_module", "finit_module"}
      [] et = "delete_module" -> {"delete_module"}
      [] et = "bpf" -> {"bpf"}
      [] et = "bpf_filter" -> {"setsockopt"}
      [] et = "ptrace" -> {"ptrace"}
      [] OTHER -> {}

KernelModuleFns == {Fn("kprobe", "do_init_module"), Fn("kprobe", "module_put")}
BPFFns == {Fn("kprobe", "security_bpf_prog"), Fn("kprobe", "security_bpf_map")}
CheckHelperCall == Fn("kprobe", "check_helper_call")
SetSockOptFns == {Fn("kprobe", "sk_attach_filter"), Fn("kprobe", "sk_detach_filter")}
KProbeFns == {Fn("kprobe", "register_kretprobe")}
             \cup EntryAndExit({"register_kprobe", "enable_kprobe", "disable_kprobe",
                                "__unregister_kprobe_top", "write_enabled_file_bool"})
CgroupSysctl == Fn("cgroup", "sysctl")
SysCtlFns == {CgroupSysctl, Fn("kprobe", "proc_sys_call_handler")}
LSMFns == {Fn("lsm", "security")}      \* the 148 LSM hooks, as one
SyscallTicker == Fn("perf_event", "syscall_table_ticker")
ParameterTicker == Fn("perf_event", "kernel_parameter_ticker")
SysEnter == Fn("tracepoint", "sys_enter")
BaseFns == {Fn("tracepoint", "sys_exit"), SysEnter, Fn("kprobe", "prepare_kernel_cred"),
            ParameterTicker}

(* The functions hooked for an event on every kernel, and with those that  *)
(* need a feature of it: they are skipped in silence where it is missing.  *)
PlainFns(et) ==
    CASE et = "init_module" -> KernelModuleFns
      [] et = "bpf" -> BPFFns
      [] et = "bpf_filter" -> SetSockOptFns
      [] et = "kprobe" -> KProbeFns
      [] OTHER -> {}
FnsOf(et) ==
    CASE et = "sysctl" -> SysCtlFns
      [] et = "hooked_syscall_table" -> {SyscallTicker}
      [] et = "hooked_syscall" -> {SysEnter}
      [] et = "periodic_kernel_parameter" -> {ParameterTicker}
      [] OTHER -> PlainFns(et)

Hooked(events) == {et \in EventTypes : Contains(events, et)}
HookedSyscalls(events) == UNION {SyscallsOf(et) : et \in Hooked(events)}

ExpandWithoutIA32Exit(s, arch, h) ==      \* mutant: ia32 exits left to the tracepoint too
    LET exit == IF ShouldUseSyscallExitTracepoints(h) THEN {} ELSE {"kretprobe"}
    IN  {Sys(p, s, abi) : p \in {"kprobe"} \cup exit,
                          abi \in IF arch = "x64" THEN {"native", "ia32"} ELSE {"native"}}

(* The native exit is left to the sys_exit tracepoint on old kernels; the  *)
(* ia32 one never is.                                                      *)
ExpandSyscallProbes(s, arch, h) ==
    {Sys("kprobe", s, "native")}
    \cup (IF ShouldUseSyscallExitTracepoints(h) THEN {} ELSE {Sys("kretprobe", s, "native")})
    \cup (IF arch = "x64" THEN {Sys("kprobe", s, "ia32"), Sys("kretprobe", s, "ia32")} ELSE {})

-----------------------------------------------------------------------------
(* The questions about the host, in the order in which prepareManager      *)
(* asks them. Question i is answered iff i >= first.                       *)

SyscallOrder == <<"init_module", "finit_module", "delete_module", "bpf", "setsockopt", "ptrace">>
LookupsExcludeFirst ==      \* mutant: exclusions decided before anything else
    <<<<"exclude", "sysctl">>, <<"exclude", "ticker">>,
      <<"select", "ticker">>, <<"select", "lsm">>, <<"select", "init_module">>,
      <<"select", "finit_module">>, <<"select", "delete_module">>, <<"select", "bpf">>,
      <<"select", "setsockopt">>, <<"select", "ptrace">>, <<"select", "sysctl">>,
      <<"declare", "lsm">>, <<"declare", "init_module">>, <<"declare", "finit_module">>,
      <<"declare", "delete_module">>, <<"declare", "bpf">>, <<"declare", "setsockopt">>,
      <<"declare", "ptrace">>, <<"declare", "sysctl">>>>
Lookups ==
    <<<<"const", "fallback">>, <<"const", "helper">>, <<"const", "signal">>,
      <<"const", "override">>,
      <<"select", "ticker">>, <<"select", "lsm">>, <<"select", "init_module">>,
      <<"select", "finit_module">>, <<"select", "delete_module">>, <<"select", "bpf">>,
      <<"select", "setsockopt">>, <<"select", "ptrace">>, <<"select", "sysctl">>,
      <<"exclude", "sysctl">>, <<"exclude", "ticker">>,
      <<"declare", "lsm">>, <<"declare", "init_module">>, <<"declare", "finit_module">>,
      <<"declare", "delete_module">>, <<"declare", "bpf">>, <<"declare", "setsockopt">>,
      <<"declare", "ptrace">>, <<"declare", "sysctl">>>>

NewHost(group, topic) ==
    IF \E i \in first..Len(Lookups) : Lookups[i] = <<group, topic>>
    THEN newHost(env) ELSE NoHost

Fallback == ShouldUseSyscallExitTracepoints(NewHost("const", "fallback"))

AllProbes ==
    BaseFns \cup {SyscallTicker}
    \cup (IF IsBPFLSMAvailable(NewHost("declare", "lsm")) THEN LSMFns ELSE {})
    \cup (UNION {PlainFns(et) : et \in Hooked(activated)})
    \cup (IF Contains(activated, "bpf") THEN {CheckHelperCall} ELSE {})
    \cup (UNION {ExpandSyscallProbes(s, env.arch, NewHost("declare", s)) : s \in HookedSyscalls(activated)})
    \cup (IF /\ Contains(activated, "sysctl")
             /\ IsCgroupSysctlProgramAvailable(NewHost("declare", "sysctl"))
          THEN SysCtlFns ELSE {})

(* ProbeSelector and AllOf require every probe, OneOf at least one of its  *)
(* group; BestEffort (LSM hooks, check_helper_call) requires nothing.      *)
Required ==
    BaseFns
    \cup (IF HasOneMillionInstructionsAvailable(NewHost("select", "ticker")) THEN {SyscallTicker} ELSE {})
    \cup (UNION {PlainFns(et) : et \in Hooked(activated)})
    \cup (IF /\ Contains(activated, "sysctl")
             /\ IsCgroupSysctlProgramAvailable(NewHost("select", "sysctl"))
          THEN SysCtlFns ELSE {})
NoGroups == {}      \* mutant: no group of syscall probes is required
OneOf == {ExpandSyscallProbes(s, env.arch, NewHost("select", s)) : s \in HookedSyscalls(activated)}
BestEffort == (IF IsBPFLSMAvailable(NewHost("select", "lsm")) THEN LSMFns ELSE {})
              \cup (IF Contains(activated, "bpf") THEN {CheckHelperCall} ELSE {})
AllProbesSelectors == Required \cup BestEffort \cup UNION OneOf

AllExcludedFunctions ==
    (IF IsCgroupSysctlProgramAvailable(NewHost("exclude", "sysctl")) THEN {} ELSE {CgroupSysctl})
    \cup (IF HasOneMillionInstructionsAvailable(NewHost("exclude", "ticker")) THEN {} ELSE {SyscallTicker})

(* sys_exit_progs: the event types whose exit the tracepoint can handle.   *)
AllTailCallRoutes == {et \in Hooked(activated) : SyscallsOf(et) # {}}

-----------------------------------------------------------------------------
(* Names. The programs of the two assets are generated by macros.          *)

getSyscallPrefix(e) == IF e.open \in {"SyS_", "sys_"} THEN "sys_" ELSE "wrapped"
FetchAssetsLower(e) == IF e.open = "sys_" THEN "probe" ELSE "probe_syscall_wrapper"   \* mutant
fetchAssets(e) == IF e.open \in {"SyS_", "sys_"} THEN "probe" ELSE "probe_syscall_wrapper"

getFunctionNameFromSection(p, e) ==
    IF p.abi = "native" THEN <<p.point, "64", p.symbol>>
    ELSE IF getSyscallPrefix(e) = "sys_" THEN <<p.point, "64_compat", p.symbol>>
    ELSE <<p.point, "32", p.symbol>>

AssetPrograms(asset) ==
    {"kprobe", "kretprobe"} \X (IF asset = "probe" THEN {"64", "64_compat"} ELSE {"64", "32"})
    \X Range(SyscallOrder)

-----------------------------------------------------------------------------
Init == /\ env \in Envs
        /\ activated \in EventSets
        /\ stage = "new" /\ first = Len(Lookups) + 1 /\ attached = {}

(* prepareManager; a host that cannot be detected never answers.           *)
PrepareManager ==
    /\ stage = "new"
    /\ stage' = "prepared"
    /\ first' \in IF HostDetectable(env) THEN 1..Len(Lookups) + 1 ELSE {Len(Lookups) + 1}
    /\ UNCHANGED <<env, activated, attached>>

(* manager.Start: a declared, selected probe that is not excluded is       *)
(* attached unless its symbol is missing; then the selectors are checked.  *)
Running(missing) == {p \in (AllProbes \cap AllProbesSelectors) \ AllExcludedFunctions :
                        <<p.symbol, p.abi>> \notin missing}
Valid(running) == Required \subseteq running /\ \A group \in OneOf : group \cap running # {}

StartManager(missing) ==
    /\ stage = "prepared"
    /\ IF Valid(Running(missing))
       THEN stage' = "started" /\ attached' = Running(missing)
       ELSE stage' = "failed" /\ attached' = {}
    /\ UNCHANGED <<env, activated, first>>

(* KRIE.Stop: manager.Stop(CleanAll).                                      *)
Stop ==
    /\ stage = "started"
    /\ stage' = "stopped"
    /\ attached' = {}
    /\ UNCHANGED <<env, activated, first>>

Next == PrepareManager \/ (\E missing \in MissingSets : StartManager(missing)) \/ Stop
Spec == Init /\ [][Next]_vars

-----------------------------------------------------------------------------
(* Whichever questions about the host fail, a probe that the manager must  *)
(* find running is declared and not excluded: the selectors are computed   *)
(* before the exclusions and the declarations, and an answer stays.        *)
RequiredIsDeclared ==
    stage # "new" => Required \subseteq AllProbes \ AllExcludedFunctions

(* The function name generated for every syscall probe is one the macros   *)
(* generate in the asset that fetchAssets loads.                           *)
ProgramsInAsset ==
    \A p \in AllProbes : p.abi # "none" =>
        getFunctionNameFromSection(p, env) \in AssetPrograms(fetchAssets(env))

(* When no question failed after another was answered, every syscall entry *)
(* that is hooked has its exit handled: by a kretprobe or, for a native    *)
(* call only, by the sys_exit tracepoint and a tail call route.            *)
ExitHandled(s, abi) ==
    \/ Sys("kretprobe", s, abi) \in attached
    \/ /\ abi = "native" /\ Fallback
       /\ Fn("tracepoint", "sys_exit") \in attached
       /\ \E et \in AllTailCallRoutes : s \in SyscallsOf(et)
SyscallExitsHandled ==
    first \in {1, Len(Lookups) + 1} =>
        \A p \in attached : p.point = "kprobe" /\ p.abi # "none" => ExitHandled(p.symbol, p.abi)

(* The running kernel is of a series or of a later one.                    *)
RealAtLeast(major, minor) ==
    \/ env.real.major > major
    \/ env.real.major = major /\ env.real.minor >= minor

(* KRIe does not start without a hook on the entry of each syscall of each *)
(* activated event, by some abi, and without all its other functions, but  *)
(* for two events: sysctl and hooked_syscall_table may be left unhooked by *)
(* a start that succeeds, but only when the host does not answer the       *)
(* question of their selectors or runs a kernel older than 5.2 or 5.3.     *)
Skipped(et) ==
    \/ /\ et = "sysctl"
       /\ NewHost("select", "sysctl") = NoHost \/ ~RealAtLeast(5, 2)
    \/ /\ et = "hooked_syscall_table"
       /\ NewHost("select", "ticker") = NoHost \/ ~RealAtLeast(5, 3)
StartedMeansHooked ==
    stage = "started" => \A et \in Hooked(activated) :
        /\ (FnsOf(et) \subseteq attached) \/ Skipped(et)
        /\ \A s \in SyscallsOf(et) : \E abi \in {"native", "ia32"} : Sys("kprobe", s, abi) \in attached

(* A program that uses a feature is only loaded on a kernel that has it:   *)
(* the encoded version never overstates the real one, sublevels above 255  *)
(* included.                                                               *)
FeaturesSupported ==
    /\ IsBPFSendSignalHelperAvailable(NewHost("const", "signal")) => RealAtLeast(5, 3)
    /\ IsBPFOverrideReturnAvailable(NewHost("const", "override")) => RealAtLeast(4, 16) \/ env.os \in {"rh7", "rh8"}
    /\ GetCheckHelperCallInputType(NewHost("const", "helper")) = 2 => RealAtLeast(5, 14)
    /\ LSMFns \cap attached # {} => RealAtLeast(5, 7)
    /\ CgroupSysctl \in attached => RealAtLeast(5, 2)
    /\ SyscallTicker \in attached => RealAtLeast(5, 3)
=============================================================================
