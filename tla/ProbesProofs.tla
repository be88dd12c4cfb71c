---------------------------- MODULE ProbesProofs ----------------------------
(***************************************************************************)
(* Proofs about the start-up of the manager, for any host whose version    *)
(* sources are truthful, any events and any missing symbols.               *)
(***************************************************************************)
EXTENDS Probes, TLAPS

(* ParseReleaseString: a version code at least that of a series belongs to *)
(* a kernel of that series or a later one, whatever the sublevel: eight    *)
(* bits never carry into the minor version.                                *)
LEMMA CodeNotOverstated ==
  ASSUME NEW r, Parses(r), r.patch \in Int, NEW major \in Nat, NEW minor \in 0..255,
         ParseReleaseString(r) >= VersionCode(major, minor, 0)
  PROVE  r.major > major \/ (r.major = major /\ r.minor >= minor)
<1> DEFINE a == r.major
           b == r.minor
           p == ClampPatch(a, b, Saturate8(r.patch))
<1>1. a \in Nat /\ b \in 0..255
  BY DEF Parses, Fits8
<1>2. Saturate8(r.patch) \in 0..255
  BY DEF Saturate8
<1>3. p \in 0..255
  BY <1>2 DEF ClampPatch
<1>4. a * 65536 + b * 256 + p >= major * 65536 + minor * 256 + 0
  BY DEF ParseReleaseString, VersionCode
<1> HIDE DEF a, b, p
<1>5. a * 65536 + b * 256 + p >= major * 65536 + minor * 256
  BY <1>1, <1>3, <1>4
<1>6. ASSUME a < major PROVE FALSE
  <2>1. a + 1 <= major
    BY <1>1, <1>6
  <2>2. a * 65536 + 65536 <= major * 65536
    BY <1>1, <2>1
  <2> QED BY <1>1, <1>3, <1>5, <2>2
<1>7. ASSUME a = major, b < minor PROVE FALSE
  <2>1. b * 256 + 256 <= minor * 256
    BY <1>1, <1>7
  <2> QED BY <1>1, <1>3, <1>5, <1>7, <2>1
<1>8. a > major \/ (a = major /\ b >= minor)
  BY <1>1, <1>6, <1>7
<1> QED BY <1>8 DEF a, b

(* Nor is a kernel of that series given a smaller code.                    *)
LEMMA CodeNotUnderstated ==
  ASSUME NEW r, Parses(r), r.patch \in Int, NEW major \in Nat, NEW minor \in 0..255,
         r.major > major \/ (r.major = major /\ r.minor >= minor)
  PROVE  ParseReleaseString(r) >= VersionCode(major, minor, 0)
<1> DEFINE a == r.major
           b == r.minor
           p == ClampPatch(a, b, Saturate8(r.patch))
<1>1. a \in Nat /\ b \in 0..255 /\ (a > major \/ (a = major /\ b >= minor))
  BY DEF Parses, Fits8
<1>2. Saturate8(r.patch) \in 0..255
  BY DEF Saturate8
<1>3. p \in 0..255
  BY <1>2 DEF ClampPatch
<1>4. ParseReleaseString(r) = a * 65536 + b * 256 + p
      /\ VersionCode(major, minor, 0) = major * 65536 + minor * 256 + 0
  BY DEF ParseReleaseString, VersionCode
<1> HIDE DEF a, b, p
<1>5. a * 65536 + b * 256 + p >= major * 65536 + minor * 256 + 0
  <2>1. CASE a > major
    <3>1. a >= major + 1
      BY <1>1, <2>1
    <3>2. a * 65536 >= major * 65536 + 65536
      BY <1>1, <3>1
    <3> QED BY <1>1, <1>3, <3>2
  <2>2. CASE a = major /\ b >= minor
    BY <1>1, <1>3, <2>2
  <2> QED BY <1>1, <2>1, <2>2
<1> QED BY <1>4, <1>5

(* The order of the questions that decide the same probe: the selectors    *)
(* ask first, then the exclusions, then the declarations.                  *)
LEMMA QuestionOrder ==
  /\ Len(Lookups) = 23
  /\ \A i \in 1..23 : Lookups[i] = <<"select", "ticker">> => i = 5
  /\ \A i \in 1..23 : Lookups[i] = <<"select", "sysctl">> => i = 13
  /\ Lookups[14] = <<"exclude", "sysctl">>
  /\ Lookups[15] = <<"exclude", "ticker">>
  /\ Lookups[23] = <<"declare", "sysctl">>
<1>1. Len(Lookups) = 23
  BY DEF Lookups
<1>2. Lookups[14] = <<"exclude", "sysctl">> /\ Lookups[15] = <<"exclude", "ticker">>
      /\ Lookups[23] = <<"declare", "sysctl">>
  BY DEF Lookups
<1>3. ASSUME NEW i \in 1..23, Lookups[i] = <<"select", "ticker">>
      PROVE  i = 5
  BY <1>3 DEF Lookups
<1>4. ASSUME NEW i \in 1..23, Lookups[i] = <<"select", "sysctl">>
      PROVE  i = 13
  BY <1>4 DEF Lookups
<1> QED BY <1>1, <1>2, <1>3, <1>4

-----------------------------------------------------------------------------
(* The inductive invariant. Only a host that can be detected answers, and  *)
(* what is attached is what the manager found running and valid.           *)
StartInv ==
    /\ env \in Envs
    /\ activated \in EventSets
    /\ first \in 1..Len(Lookups) + 1
    /\ first # Len(Lookups) + 1 => HostDetectable(env)
    /\ stage # "started" => attached = {}
    /\ stage = "started" => /\ Valid(attached)
                            /\ \E missing \in MissingSets : attached = Running(missing)

(* Nothing the manager computes changes while the answers stay.            *)
LEMMA SameAnswers ==
  ASSUME UNCHANGED <<env, activated, first>>
  PROVE  /\ Required' = Required
         /\ OneOf' = OneOf
         /\ AllProbes' = AllProbes
         /\ AllProbesSelectors' = AllProbesSelectors
         /\ AllExcludedFunctions' = AllExcludedFunctions
<1>1. \A g, t : NewHost(g, t)' = NewHost(g, t)
  BY DEF NewHost
<1>2. Required' = Required
  BY <1>1 DEF Required
<1>3. OneOf' = OneOf
  BY <1>1 DEF OneOf
<1>4. AllProbes' = AllProbes
  BY <1>1 DEF AllProbes
<1>5. BestEffort' = BestEffort
  BY <1>1 DEF BestEffort
<1>6. AllProbesSelectors' = AllProbesSelectors
  BY <1>2, <1>3, <1>5 DEF AllProbesSelectors
<1>7. AllExcludedFunctions' = AllExcludedFunctions
  BY <1>1 DEF AllExcludedFunctions
<1> QED BY <1>2, <1>3, <1>4, <1>6, <1>7

LEMMA SameStart ==
  ASSUME UNCHANGED <<env, activated, first>>
  PROVE  /\ \A running : Valid(running) => Required' \subseteq running /\ \A group \in OneOf' : group \cap running # {}
         /\ \A missing : Running(missing)' = Running(missing)
BY SameAnswers DEF Valid, Running

LEMMA StartInductive == Spec => []StartInv
<1>1. Init => StartInv
  BY QuestionOrder DEF Init, StartInv
<1>2. StartInv /\ [Next]_vars => StartInv'
  <2> SUFFICES ASSUME StartInv, [Next]_vars PROVE StartInv'
    OBVIOUS
  <2>1. CASE PrepareManager
    BY <2>1, QuestionOrder DEF PrepareManager, StartInv
  <2>2. ASSUME NEW missing \in MissingSets, StartManager(missing) PROVE StartInv'
    <3>1. UNCHANGED <<env, activated, first>> /\ Len(Lookups)' = Len(Lookups)
      BY <2>2 DEF StartManager, Lookups
    <3>2. CASE Valid(Running(missing))
      <4>1. stage' = "started" /\ attached' = Running(missing)
        BY <2>2, <3>2 DEF StartManager
      <4>2. Valid(attached)'
        BY <3>1, <3>2, <4>1, SameStart DEF Valid
      <4>3. attached' = Running(missing)'
        BY <3>1, <4>1, SameStart
      <4> QED BY <3>1, <4>1, <4>2, <4>3 DEF StartInv
    <3>3. CASE ~Valid(Running(missing))
      BY <2>2, <3>1, <3>3 DEF StartManager, StartInv
    <3> QED BY <3>2, <3>3
  <2>3. CASE Stop
    BY <2>3 DEF Stop, StartInv
  <2>4. CASE UNCHANGED vars
    <3>1. UNCHANGED <<env, activated, first, stage, attached>>
      BY <2>4 DEF vars
    <3>2. CASE stage = "started"
      <4>1. Valid(attached)'
        BY <3>1, <3>2, SameStart DEF Valid, StartInv
      <4>2. PICK missing \in MissingSets : attached = Running(missing)
        BY <3>2 DEF StartInv
      <4>3. attached' = Running(missing)'
        BY <3>1, <4>2, SameStart
      <4> QED BY <3>1, <3>2, <4>1, <4>3 DEF StartInv
    <3>3. CASE stage # "started"
      BY <3>1, <3>3 DEF StartInv
    <3> QED BY <3>2, <3>3
  <2> QED BY <2>1, <2>2, <2>3, <2>4 DEF Next
<1> QED BY <1>1, <1>2, PTL DEF Spec

-----------------------------------------------------------------------------
(* What an answer says about the kernel is true of the one that runs.      *)
HasSeries(h, major, minor) == AtLeast(h, major, minor) => RealAtLeast(major, minor)

LEMMA Answers ==
  ASSUME StartInv, NEW group, NEW topic
  PROVE  \/ NewHost(group, topic) = NoHost
         \/ NewHost(group, topic) = newHost(env) /\ HostDetectable(env)
BY QuestionOrder DEF NewHost, StartInv

LEMMA AnswersTrue ==
  ASSUME StartInv, NEW group, NEW topic, NEW major \in Nat, NEW minor \in 0..255
  PROVE  /\ HasSeries(NewHost(group, topic), major, minor)
         /\ NewHost(group, topic).os \in {"none", env.os}
<1> DEFINE h == NewHost(group, topic)
<1>1. CASE h = NoHost
  BY <1>1 DEF NoHost, HasSeries, AtLeast
<1>2. CASE h = newHost(env) /\ HostDetectable(env)
  <2> DEFINE r == HostVersion(env)
  <2>1. r \in {env.signature, env.debian, env.release}
    BY DEF HostVersion
  <2>2. Parses(r) /\ r.patch \in Int /\ r.major = env.real.major /\ r.minor = env.real.minor
    <3>1. Parses(r)
      BY <1>2 DEF HostDetectable
    <3>2. EnvOK(env)
      BY ProbesAssumption DEF StartInv
    <3> QED BY <2>1, <3>1, <3>2 DEF EnvOK
  <2>3. h.known = TRUE /\ h.code = ParseReleaseString(r) /\ h.os = env.os
    BY <1>2 DEF newHost
  <2> HIDE DEF h, r
  <2>4. ASSUME AtLeast(h, major, minor) PROVE RealAtLeast(major, minor)
    <3>1. ParseReleaseString(r) >= VersionCode(major, minor, 0)
      BY <2>3, <2>4 DEF AtLeast
    <3>2. r.major > major \/ (r.major = major /\ r.minor >= minor)
      BY <2>2, <3>1, CodeNotOverstated
    <3> QED BY <2>2, <3>2 DEF RealAtLeast
  <2> QED BY <2>3, <2>4 DEF HasSeries, h
<1> QED BY <1>1, <1>2, Answers

(* An answer that is given does not hide a series either.                  *)
LEMMA AnswersComplete ==
  ASSUME StartInv, NEW group, NEW topic, NEW major \in Nat, NEW minor \in 0..255,
         NewHost(group, topic) # NoHost, RealAtLeast(major, minor)
  PROVE  AtLeast(NewHost(group, topic), major, minor)
<1> DEFINE h == NewHost(group, topic)
           r == HostVersion(env)
<1>1. h = newHost(env) /\ HostDetectable(env)
  BY Answers
<1>2. r \in {env.signature, env.debian, env.release}
  BY DEF HostVersion
<1>3. Parses(r) /\ EnvOK(env)
  BY <1>1, ProbesAssumption DEF HostDetectable, StartInv
<1>4. r.patch \in Int /\ r.major = env.real.major /\ r.minor = env.real.minor
  BY <1>2, <1>3 DEF EnvOK
<1>5. h.known = TRUE /\ h.code = ParseReleaseString(r)
  BY <1>1 DEF newHost
<1> HIDE DEF h, r
<1>6. ParseReleaseString(r) >= VersionCode(major, minor, 0)
  BY <1>3, <1>4, CodeNotUnderstated DEF RealAtLeast
<1> QED BY <1>5, <1>6 DEF AtLeast, h

-----------------------------------------------------------------------------
(* The functions hooked for an event are none of the probes that depend on *)
(* a feature, and syscall probes are none of them either.                  *)
LEMMA PlainFunctions ==
  ASSUME NEW p \in BaseFns \cup (UNION {PlainFns(et) : et \in EventTypes}) \cup {CheckHelperCall}
  PROVE  /\ p.abi = "none"
         /\ p # SyscallTicker /\ p # CgroupSysctl /\ p \notin LSMFns
<1>1. CASE p \in BaseFns \cup {CheckHelperCall}
  BY <1>1 DEF BaseFns, SysEnter, CheckHelperCall, ParameterTicker, SyscallTicker, CgroupSysctl, LSMFns, Fn
<1>2. ASSUME NEW et \in EventTypes, p \in PlainFns(et)
      PROVE  p.abi = "none" /\ p.point \in {"kprobe", "kretprobe"}
  <2>1. p \in KernelModuleFns \cup BPFFns \cup SetSockOptFns \cup KProbeFns
    BY <1>2 DEF PlainFns, EventTypes
  <2> QED BY <2>1 DEF KernelModuleFns, BPFFns, SetSockOptFns, KProbeFns, EntryAndExit, Fn
<1>3. SyscallTicker.point = "perf_event" /\ CgroupSysctl.point = "cgroup"
      /\ \A q \in LSMFns : q.point = "lsm"
  BY DEF SyscallTicker, CgroupSysctl, LSMFns, Fn
<1>4. ASSUME NEW et \in EventTypes, p \in PlainFns(et)
      PROVE  p.abi = "none" /\ p # SyscallTicker /\ p # CgroupSysctl /\ p \notin LSMFns
  <2>1. p.abi = "none" /\ p.point \in {"kprobe", "kretprobe"}
    BY <1>2, <1>4
  <2> QED BY <1>3, <2>1
<1>5. p \in BaseFns \cup {CheckHelperCall} \/ \E et \in EventTypes : p \in PlainFns(et)
  OBVIOUS
<1> QED BY <1>1, <1>4, <1>5

LEMMA SyscallProbes ==
  ASSUME NEW s, NEW arch, NEW h, NEW p \in ExpandSyscallProbes(s, arch, h)
  PROVE  /\ p = Sys(p.point, s, p.abi)
         /\ p.symbol = s
         /\ p.point \in {"kprobe", "kretprobe"}
         /\ p.abi \in {"native", "ia32"}
         /\ p.abi = "ia32" => arch = "x64"
BY DEF ExpandSyscallProbes, Sys

LEMMA SpecialProbes ==
  /\ \A p \in {SyscallTicker, CgroupSysctl} \cup SysCtlFns \cup LSMFns : p.abi = "none"
  /\ \A p \in SysCtlFns \cup LSMFns : p # SyscallTicker
  /\ \A p \in LSMFns \cup {SyscallTicker} : p # CgroupSysctl /\ p \notin SysCtlFns
  /\ SyscallTicker \notin LSMFns
BY DEF SyscallTicker, CgroupSysctl, SysCtlFns, LSMFns, Fn

(* A declared probe of a syscall comes from ExpandSyscallProbes.           *)
LEMMA DeclaredSyscall ==
  ASSUME NEW p \in AllProbes, p.abi # "none"
  PROVE  \E s \in HookedSyscalls(activated) :
            p \in ExpandSyscallProbes(s, env.arch, NewHost("declare", s))
<1>1. p \notin BaseFns \cup (UNION {PlainFns(et) : et \in Hooked(activated)}) \cup {CheckHelperCall}
  BY PlainFunctions DEF Hooked
<1>2. p \notin {SyscallTicker} \cup SysCtlFns \cup LSMFns
  BY SpecialProbes
<1>3. p \in UNION {ExpandSyscallProbes(s, env.arch, NewHost("declare", s)) : s \in HookedSyscalls(activated)}
  BY <1>1, <1>2, Zenon DEF AllProbes
<1> QED BY <1>3, Zenon

-----------------------------------------------------------------------------
(* AllProbesSelectors, AllExcludedFunctions, AllProbes: a required probe   *)
(* is declared and not excluded, whichever questions about the host fail.  *)
THEOREM RequiredAlwaysDeclared == Spec => []RequiredIsDeclared
<1> DEFINE H(g, t) == NewHost(g, t)
<1>1. ASSUME StartInv PROVE RequiredIsDeclared
  <2>1. ASSUME NEW t \in {"ticker", "sysctl"}, H("select", t) # NoHost
        PROVE  /\ H("select", t) = newHost(env) /\ H("exclude", t) = newHost(env)
               /\ t = "sysctl" => H("declare", t) = newHost(env)
    <3>1. PICK i \in first..Len(Lookups) : Lookups[i] = <<"select", t>>
      BY <2>1 DEF NewHost
    <3>2. first \in 1..24 /\ i \in 1..23 /\ i >= first
      BY <3>1, QuestionOrder, <1>1 DEF StartInv
    <3>3. i \in {5, 13}
      BY <3>1, <3>2, QuestionOrder
    <3>4. 14 \in first..Len(Lookups) /\ 15 \in first..Len(Lookups) /\ 23 \in first..Len(Lookups)
      BY <3>2, <3>3, QuestionOrder
    <3> QED BY <3>1, <3>4, QuestionOrder DEF NewHost
  <2>2. ~AtLeast(NoHost, 5, 3) /\ ~AtLeast(NoHost, 5, 2)
    BY DEF AtLeast, NoHost
  <2>3. ASSUME HasOneMillionInstructionsAvailable(H("select", "ticker"))
        PROVE  HasOneMillionInstructionsAvailable(H("exclude", "ticker"))
    BY <2>1, <2>2, <2>3 DEF HasOneMillionInstructionsAvailable
  <2>4. ASSUME IsCgroupSysctlProgramAvailable(H("select", "sysctl"))
        PROVE  /\ IsCgroupSysctlProgramAvailable(H("exclude", "sysctl"))
               /\ IsCgroupSysctlProgramAvailable(H("declare", "sysctl"))
    BY <2>1, <2>2, <2>4 DEF IsCgroupSysctlProgramAvailable
  <2> HIDE DEF H
  <2>5. ASSUME NEW p \in Required PROVE p \in AllProbes /\ p \notin AllExcludedFunctions
    <3>1. CASE p \in BaseFns \cup (UNION {PlainFns(et) : et \in Hooked(activated)})
      <4>1. p # SyscallTicker /\ p # CgroupSysctl
        BY <3>1, PlainFunctions DEF Hooked
      <4> QED BY <3>1, <4>1 DEF AllProbes, AllExcludedFunctions
    <3>2. CASE p = SyscallTicker /\ HasOneMillionInstructionsAvailable(H("select", "ticker"))
      BY <3>2, <2>3, SpecialProbes DEF AllProbes, AllExcludedFunctions, H
    <3>3. CASE /\ p \in SysCtlFns /\ Contains(activated, "sysctl")
               /\ IsCgroupSysctlProgramAvailable(H("select", "sysctl"))
      <4>1. p \in AllProbes
        BY <3>3, <2>4, Zenon DEF AllProbes, H
      <4>2. p # SyscallTicker /\ IsCgroupSysctlProgramAvailable(NewHost("exclude", "sysctl"))
        BY <3>3, <2>4, SpecialProbes DEF H
      <4>3. p \notin AllExcludedFunctions
        BY <4>2, Zenon DEF AllExcludedFunctions
      <4> QED BY <4>1, <4>3
    <3>4. \/ p \in BaseFns \cup (UNION {PlainFns(et) : et \in Hooked(activated)})
          \/ p = SyscallTicker /\ HasOneMillionInstructionsAvailable(H("select", "ticker"))
          \/ /\ p \in SysCtlFns /\ Contains(activated, "sysctl")
             /\ IsCgroupSysctlProgramAvailable(H("select", "sysctl"))
      BY <2>5, Zenon DEF Required, H
    <3> QED BY <3>1, <3>2, <3>3, <3>4, Zenon
  <2> QED BY <2>5 DEF RequiredIsDeclared
<1> QED BY <1>1, StartInductive, PTL

(* kernel/host.go, syscall_helpers.go: no feature is used that the kernel  *)
(* lacks, whatever its version and whichever source tells it.              *)
THEOREM FeaturesAlwaysSupported == Spec => []FeaturesSupported
<1>1. ASSUME StartInv PROVE FeaturesSupported
  <2>1. \A g, t : /\ AtLeast(NewHost(g, t), 5, 2) => RealAtLeast(5, 2)
                  /\ AtLeast(NewHost(g, t), 5, 3) => RealAtLeast(5, 3)
                  /\ AtLeast(NewHost(g, t), 5, 7) => RealAtLeast(5, 7)
                  /\ AtLeast(NewHost(g, t), 5, 14) => RealAtLeast(5, 14)
                  /\ AtLeast(NewHost(g, t), 4, 16) => RealAtLeast(4, 16)
                  /\ NewHost(g, t).os \in {"none", env.os}
    BY <1>1, AnswersTrue DEF HasSeries
  <2>2. ASSUME NEW p \in attached
        PROVE  p \in AllProbes /\ p \notin AllExcludedFunctions
    BY <1>1, <2>2 DEF StartInv, Running
  <2>3. IsBPFSendSignalHelperAvailable(NewHost("const", "signal")) => RealAtLeast(5, 3)
    BY <2>1 DEF IsBPFSendSignalHelperAvailable
  <2>4. IsBPFOverrideReturnAvailable(NewHost("const", "override")) => RealAtLeast(4, 16) \/ env.os \in {"rh7", "rh8"}
    BY <2>1 DEF IsBPFOverrideReturnAvailable, IsRH7Kernel, IsRH8Kernel
  <2>5. GetCheckHelperCallInputType(NewHost("const", "helper")) = 2 => RealAtLeast(5, 14)
    BY <2>1 DEF GetCheckHelperCallInputType
  <2>6. ASSUME LSMFns \cap attached # {} PROVE RealAtLeast(5, 7)
    <3>1. PICK p \in LSMFns : p \in attached
      BY <2>6
    <3>2. p \in AllProbes
      BY <2>2, <3>1
    <3>3. IsBPFLSMAvailable(NewHost("declare", "lsm"))
      <4>1. p \notin BaseFns \cup (UNION {PlainFns(et) : et \in Hooked(activated)}) \cup {CheckHelperCall}
        BY <3>1, PlainFunctions DEF Hooked
      <4>2. p \notin {SyscallTicker} \cup SysCtlFns
        BY <3>1, SpecialProbes
      <4>3. p \notin UNION {ExpandSyscallProbes(s, env.arch, NewHost("declare", s)) : s \in HookedSyscalls(activated)}
        BY <3>1, SpecialProbes, SyscallProbes
      <4> QED BY <3>2, <4>1, <4>2, <4>3, Zenon DEF AllProbes
    <3> QED BY <2>1, <3>3 DEF IsBPFLSMAvailable
  <2>7. ASSUME CgroupSysctl \in attached PROVE RealAtLeast(5, 2)
    <3>1. CgroupSysctl \notin AllExcludedFunctions
      BY <2>2, <2>7
    <3>2. IsCgroupSysctlProgramAvailable(NewHost("exclude", "sysctl"))
      BY <3>1, Zenon DEF AllExcludedFunctions
    <3> QED BY <2>1, <3>2 DEF IsCgroupSysctlProgramAvailable
  <2>8. ASSUME SyscallTicker \in attached PROVE RealAtLeast(5, 3)
    <3>1. SyscallTicker \notin AllExcludedFunctions
      BY <2>2, <2>8
    <3>2. HasOneMillionInstructionsAvailable(NewHost("exclude", "ticker"))
      BY <3>1, Zenon DEF AllExcludedFunctions
    <3> QED BY <2>1, <3>2 DEF HasOneMillionInstructionsAvailable
  <2> QED BY <2>3, <2>4, <2>5, <2>6, <2>7, <2>8 DEF FeaturesSupported
<1> QED BY <1>1, StartInductive, PTL

(* The syscalls of the events are those of SyscallOrder.                   *)
LEMMA SyscallNames ==
  ASSUME NEW s \in HookedSyscalls(activated)
  PROVE  /\ s \in Range(SyscallOrder)
         /\ \E et \in Hooked(activated) : s \in SyscallsOf(et)
<1>1. PICK et \in Hooked(activated) : s \in SyscallsOf(et)
  BY DEF HookedSyscalls
<1>2. s \in {"init_module", "finit_module", "delete_module", "bpf", "setsockopt", "ptrace"}
  BY <1>1 DEF SyscallsOf, Hooked, EventTypes
<1>3. \E i \in 1..6 : s = SyscallOrder[i]
  BY <1>2 DEF SyscallOrder
<1>4. DOMAIN SyscallOrder = 1..6
  BY DEF SyscallOrder
<1> QED BY <1>1, <1>3, <1>4 DEF Range

(* getFunctionNameFromSection, fetchAssets: every syscall probe has its    *)
(* program in the asset that is loaded.                                    *)
THEOREM ProgramsAlwaysInAsset == Spec => []ProgramsInAsset
<1>1. ASSUME NEW p \in AllProbes, p.abi # "none"
      PROVE  getFunctionNameFromSection(p, env) \in AssetPrograms(fetchAssets(env))
  <2>1. PICK s \in HookedSyscalls(activated) :
            p \in ExpandSyscallProbes(s, env.arch, NewHost("declare", s))
    BY <1>1, DeclaredSyscall
  <2>2. /\ p.symbol = s
        /\ p.point \in {"kprobe", "kretprobe"}
        /\ p.abi \in {"native", "ia32"}
    BY <2>1, SyscallProbes
  <2>3. s \in Range(SyscallOrder)
    BY <2>1, SyscallNames
  <2> QED BY <2>2, <2>3 DEF getFunctionNameFromSection, getSyscallPrefix, AssetPrograms, fetchAssets
<1>2. ProgramsInAsset
  BY <1>1 DEF ProgramsInAsset
<1> QED BY <1>2, PTL

-----------------------------------------------------------------------------
(* A missing symbol takes all its probes with it: next to a syscall probe  *)
(* that is attached, one on the same symbol that is declared and selected  *)
(* is attached as well.                                                    *)
LEMMA SameSymbol ==
  ASSUME StartInv, NEW q \in attached, NEW p, p \in AllProbes, p \in AllProbesSelectors,
         p.symbol = q.symbol, p.abi = q.abi, p.abi # "none"
  PROVE  p \in attached
<1>1. PICK missing \in MissingSets : attached = Running(missing)
  BY DEF StartInv
<1>2. p \notin AllExcludedFunctions
  BY SpecialProbes DEF AllExcludedFunctions
<1>3. <<p.symbol, p.abi>> \notin missing
  BY <1>1 DEF Running
<1> QED BY <1>1, <1>2, <1>3 DEF Running

(* The probes of a hooked syscall are declared, and they are selected.     *)
LEMMA SyscallGroup ==
  ASSUME NEW s \in HookedSyscalls(activated), NEW p
  PROVE  /\ p \in ExpandSyscallProbes(s, env.arch, NewHost("declare", s)) => p \in AllProbes
         /\ p \in ExpandSyscallProbes(s, env.arch, NewHost("select", s)) => p \in AllProbesSelectors
<1>1. p \in ExpandSyscallProbes(s, env.arch, NewHost("declare", s)) => p \in AllProbes
  BY Zenon DEF AllProbes
<1>2. p \in ExpandSyscallProbes(s, env.arch, NewHost("select", s)) => p \in AllProbesSelectors
  BY Zenon DEF AllProbesSelectors, OneOf
<1> QED BY <1>1, <1>2

(* manager.Start with AllProbesSelectors: once started, every activated    *)
(* event has its functions and the entry of its syscalls hooked, unless    *)
(* it is one of the two that need a feature, and the host did not answer   *)
(* or is too old for it.                                                   *)
THEOREM StartedAlwaysHooked == Spec => []StartedMeansHooked
<1>1. ASSUME StartInv PROVE StartedMeansHooked
  <2> SUFFICES ASSUME stage = "started", NEW et \in Hooked(activated)
               PROVE  /\ (FnsOf(et) \subseteq attached) \/ Skipped(et)
                      /\ \A s \in SyscallsOf(et) :
                            \E abi \in {"native", "ia32"} : Sys("kprobe", s, abi) \in attached
    BY DEF StartedMeansHooked
  <2>1. et \in Hooked(activated) /\ et \in EventTypes /\ Contains(activated, et)
    BY DEF Hooked
  <2>2. Valid(attached)
    BY <1>1 DEF StartInv
  <2>3. (FnsOf(et) \subseteq attached) \/ Skipped(et)
    <3>1. Required \subseteq attached
      BY <2>2 DEF Valid
    <3>2. CASE et = "sysctl" /\ ~ Skipped(et)
      <4>1. NewHost("select", "sysctl") # NoHost /\ RealAtLeast(5, 2)
        BY <3>2 DEF Skipped
      <4>2. IsCgroupSysctlProgramAvailable(NewHost("select", "sysctl"))
        BY <4>1, <1>1, AnswersComplete DEF IsCgroupSysctlProgramAvailable
      <4>3. SysCtlFns \subseteq attached
        BY <4>2, <3>1, <3>2, <2>1, Zenon DEF Required
      <4> QED BY <4>3, <3>2 DEF FnsOf
    <3>3. CASE et = "hooked_syscall_table" /\ ~ Skipped(et)
      <4>1. NewHost("select", "ticker") # NoHost /\ RealAtLeast(5, 3)
        BY <3>3 DEF Skipped
      <4>2. HasOneMillionInstructionsAvailable(NewHost("select", "ticker"))
        BY <4>1, <1>1, AnswersComplete DEF HasOneMillionInstructionsAvailable
      <4>3. SyscallTicker \in attached
        BY <4>2, <3>1, Zenon DEF Required
      <4> QED BY <4>3, <3>3 DEF FnsOf
    <3>4. CASE et \in {"hooked_syscall", "periodic_kernel_parameter"}
      <4>1. BaseFns \subseteq attached
        BY <3>1, Zenon DEF Required
      <4> QED BY <4>1, <3>4 DEF FnsOf, BaseFns
    <3>5. CASE et \notin {"sysctl", "hooked_syscall_table", "hooked_syscall", "periodic_kernel_parameter"}
      <4>1. PlainFns(et) \subseteq attached
        BY <3>1, <2>1, Zenon DEF Required
      <4> QED BY <4>1, <3>5 DEF FnsOf
    <3> QED BY <3>2, <3>3, <3>4, <3>5
  <2>4. ASSUME NEW s \in SyscallsOf(et)
        PROVE  \E abi \in {"native", "ia32"} : Sys("kprobe", s, abi) \in attached
    <3> DEFINE group == ExpandSyscallProbes(s, env.arch, NewHost("select", s))
    <3>1. s \in HookedSyscalls(activated)
      BY <2>1 DEF HookedSyscalls
    <3>2. group \cap attached # {}
      BY <2>2, <3>1, Zenon DEF Valid, OneOf
    <3>3. PICK q \in group : q \in attached
      BY <3>2
    <3>4. q.symbol = s /\ q.abi \in {"native", "ia32"} /\ (q.abi = "ia32" => env.arch = "x64")
      BY <3>3, SyscallProbes
    <3> DEFINE p == Sys("kprobe", s, q.abi)
    <3>5. p.symbol = s /\ p.abi = q.abi
      BY DEF Sys
    <3>6. \A h : p \in ExpandSyscallProbes(s, env.arch, h)
      BY <3>4 DEF ExpandSyscallProbes
    <3>7. p \in AllProbes /\ p \in AllProbesSelectors
      BY <3>1, <3>6, SyscallGroup
    <3> HIDE DEF p, group
    <3>8. p \in attached
      BY <1>1, <3>3, <3>4, <3>5, <3>7, SameSymbol
    <3> QED BY <3>4, <3>8 DEF p
  <2> QED BY <2>3, <2>4
<1> QED BY <1>1, StartInductive, PTL

(* ExpandSyscallProbes, sys_exit_progs: the exit of every hooked syscall   *)
(* is handled when the host was known from the start or never.             *)
THEOREM ExitsAlwaysHandled == Spec => []SyscallExitsHandled
<1>1. ASSUME StartInv PROVE SyscallExitsHandled
  <2> SUFFICES ASSUME first \in {1, Len(Lookups) + 1}, NEW q \in attached,
                      q.point = "kprobe", q.abi # "none"
               PROVE  ExitHandled(q.symbol, q.abi)
    BY DEF SyscallExitsHandled
  <2> DEFINE s == q.symbol
             abi == q.abi
             p == Sys("kretprobe", s, abi)
  <2>1. stage = "started" /\ Valid(attached) /\ q \in AllProbes
    BY <1>1 DEF StartInv, Running
  <2>2. /\ s \in HookedSyscalls(activated)
        /\ abi \in {"native", "ia32"}
        /\ abi = "ia32" => env.arch = "x64"
    <3>1. PICK x \in HookedSyscalls(activated) :
              q \in ExpandSyscallProbes(x, env.arch, NewHost("declare", x))
      BY <2>1, DeclaredSyscall
    <3> QED BY <3>1, SyscallProbes
  <2>3. \A g \in {"select", "declare"} : NewHost(g, s) = NewHost("const", "fallback")
    <3>1. s \in {"init_module", "finit_module", "delete_module", "bpf", "setsockopt", "ptrace"}
      BY <2>2 DEF HookedSyscalls, SyscallsOf, Hooked, EventTypes
    <3>2. CASE first = 1
      <4>1. \A g \in {"select", "declare"} : \E i \in 1..23 : Lookups[i] = <<g, s>>
        BY <3>1 DEF Lookups
      <4>2. Lookups[1] = <<"const", "fallback">>
        BY DEF Lookups
      <4> QED BY <3>2, <4>1, <4>2, QuestionOrder DEF NewHost
    <3>3. CASE first = Len(Lookups) + 1
      BY <3>3, QuestionOrder DEF NewHost
    <3> QED BY <3>2, <3>3
  <2>4. p.symbol = s /\ p.abi = abi
    BY DEF Sys
  <2>5. CASE abi = "native" /\ Fallback
    <3>1. Fn("tracepoint", "sys_exit") \in attached
      BY <2>1 DEF Valid, Required, BaseFns
    <3>2. \E et \in AllTailCallRoutes : s \in SyscallsOf(et)
      BY <2>2, SyscallNames DEF AllTailCallRoutes
    <3> QED BY <2>5, <3>1, <3>2 DEF ExitHandled
  <2>6. CASE ~(abi = "native" /\ Fallback)
    <3>1. \A g \in {"select", "declare"} : p \in ExpandSyscallProbes(s, env.arch, NewHost(g, s))
      BY <2>2, <2>3, <2>6 DEF ExpandSyscallProbes, Fallback
    <3>2. p \in AllProbes /\ p \in AllProbesSelectors
      BY <2>2, <3>1, SyscallGroup
    <3> HIDE DEF p
    <3>3. p \in attached
      BY <1>1, <2>4, <3>2, SameSymbol
    <3> QED BY <3>3 DEF p, ExitHandled
  <2> QED BY <2>5, <2>6
<1> QED BY <1>1, StartInductive, PTL
=============================================================================
