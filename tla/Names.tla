------------------------------- MODULE Names -------------------------------
(***************************************************************************)
(* The names KRIe gives to numbers in its output (constants.go, events.go, *)
(* syscalls*.go). A name is identified with the number that the kernel's   *)
(* headers, or KRIe's own C headers, give it. A table is a set of pairs    *)
(* <<name, number in Go>>; most are runs of iota. Two names of one number  *)
(* (BPF_PROG_RUN, AF_LOCAL) mean the same and are one name here.           *)
(***************************************************************************)
EXTENDS Integers

Run(kernelFirst, goFirst, count) == {<<kernelFirst + i, goFirst + i>> : i \in 0 .. count - 1}
Same(numbers) == {<<n, n>> : n \in numbers}

BPFAttachType == Run(0, 1, 39)
BPFCmdFromOne == Run(0, 1, 36)      \* mutant: iota + 1, as for the attach types
BPFCmd == Run(0, 0, 36)
BPFHelperFunc == Run(0, 0, 166)
BPFMapType == Run(0, 0, 30)
BPFProgramType == Run(0, 0, 31)
BPFFilterCmd == Same({26, 27, 44})
NotAFamily == -3       \* the name AF_MAX, which is 46 in x/sys/unix
AddressFamily == Same(0 .. 44) \cup {<<NotAFamily, 46>>}
SocketType == Same(1 .. 6 \cup {10})
(* ETH_P numbers; what is sent is the sk_protocol of the socket, which is  *)
(* an IPPROTO number for inet sockets (see Misnamed in Wire).              *)
L3Protocol == Same(0 .. 9 \cup {12, 13, 16, 17, 96, 512, 513, 1536, 2048, 2053, 2054, 2303, 2560,
                   2561, 8944, 17157, 25944, 32821, 32923, 33011, 33024, 33079, 34525, 34824,
                   34825, 34878, 34887, 34888, 34892, 34915, 34916, 34924, 34948, 34958, 34978,
                   34984, 34997, 35006, 35018, 35045, 35047, 35061, 35063, 35064, 35067, 35078,
                   35085, 35092, 35093, 35095, 35119, 35151, 36864, 37120, 37376, 37632, 56026,
                   60734, 64507} \cup 21 .. 28 \cup 245 .. 249 \cup 24576 .. 24583)
PTraceRequest == Same(0 .. 9 \cup {16, 17, 24} \cup 16896 .. 16910)
KProbeCommand == Run(1, 1, 8)
KProbeType == Run(1, 1, 2)
SysCtlAction == Run(0, 0, 5)
ActionConstants == Run(0, 0, 5)
HookPoint == Run(0, 0, 2)
SyscallTable == Run(0, 0, 3)
EventType == Run(1, 1, 13)
NotASyscall == -2      \* the name SysLastSyscall
Syscall == Same(0 .. 334 \cup 424 .. 447) \cup {<<NotASyscall, 448>>}
IA32Syscall == Same(0 .. 450 \ ({113, 134, 149, 166, 222, 223, 251, 285, 415} \cup 387 .. 392))

Tables == [attach_type |-> BPFAttachType, bpf_cmd |-> BPFCmd, helper |-> BPFHelperFunc,
           map_type |-> BPFMapType, prog_type |-> BPFProgramType, filter_cmd |-> BPFFilterCmd,
           family |-> AddressFamily, socket |-> SocketType, protocol |-> L3Protocol,
           ptrace |-> PTraceRequest, kprobe_cmd |-> KProbeCommand, kprobe_type |-> KProbeType,
           sysctl_action |-> SysCtlAction, action |-> ActionConstants, hook_point |-> HookPoint,
           syscall_table |-> SyscallTable, event_type |-> EventType, syscall |-> Syscall,
           ia32_syscall |-> IA32Syscall]

(* The reverse map built by the init functions: a number without a name    *)
(* gives the empty string, or the number itself where String has a default *)
(* case.                                                                   *)
NoName == -1
Numbered == {"event_type", "syscall_table", "syscall", "ia32_syscall"}
String(kind, v) ==
    IF \E pair \in Tables[kind] : pair[2] = v
      THEN (CHOOSE pair \in Tables[kind] : pair[2] = v)[1]
      ELSE IF kind \in Numbered THEN v ELSE NoName
=============================================================================
