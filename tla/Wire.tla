-------------------------------- MODULE Wire --------------------------------
(***************************************************************************)
(* An event's way from the buffer of an eBPF program to a line of the      *)
(* output file: the layout of the C structures (events.h, process.h, one   *)
(* per event type), the decoders of pkg/krie/events, which address the     *)
(* buffer by offsets of their own, the one Event that defaultEventHandler  *)
(* reuses for every event, and the serializers, which leave out empty      *)
(* fields and print names (Names) for numbers. The strings at the end of a *)
(* sysctl event are in Sysctl; symbols are in Loader.                      *)
(***************************************************************************)
EXTENDS Names, SequencesExt

CONSTANT Samples      \* values tried for the fields that have names
ASSUME WireAssumption == Samples \subseteq Nat

VARIABLES sent,   \* the event in the perf buffer, or None
          event,  \* KRIE.event: the Go structure all events are decoded into
          last,   \* the event handled last, or None
          line    \* the line written for it, or the error of the handler
vars == <<sent, event, last, line>>

-----------------------------------------------------------------------------
(* C structures: sequences of fields, laid out by the compiler. Nested     *)
(* structures are flattened.                                               *)

U(n, f) == [f |-> f, size |-> n, align |-> n]
Chars(n, f) == [f |-> f, size |-> n, align |-> 1]
Caps(f) == [f |-> f, size |-> 8, align |-> 4]      \* kernel_cap_t is u32[2]
U32s(fs) == [i \in DOMAIN fs |-> U(4, fs[i])]

(* The cgroup array has CGROUP_SUBSYS_COUNT + 1 elements; Go reads         *)
(* CgroupSubsystemMax of them and names them by their index.               *)
Subsystems == <<"cpuset", "cpu", "cpuacct", "io", "memory", "devices", "freezer", "net_cls",
                "perf_event", "net_prio", "hugetlb", "pids", "rdma", "misc">>

kernel_event_t == <<U(8, "timestamp"), U(8, "retval")>> \o U32s(<<"on_cpu", "type", "action", "padding">>)
process_context_t ==
    U32s(<<"cgroup_ns", "ipc_ns", "net_ns", "mnt_ns", "pid_ns", "time_ns", "user_ns", "uts_ns",
           "uid", "gid", "suid", "sgid", "euid", "egid", "fsuid", "fsgid", "securebits", "pad1">>)
    \o <<Caps("cap_inheritable"), Caps("cap_permitted"), Caps("cap_effective"), Caps("cap_bset"),
         Caps("cap_ambient"), Chars(16, "comm")>>
    \o [i \in DOMAIN Subsystems |-> [f |-> Subsystems[i], size |-> 4 + 4 + 128, align |-> 4]]
    \o U32s(<<"pid", "tid">>)

Section(t) ==
    CASE t = 1 -> <<U(4, "loaded_from_memory"), U(4, "pad2"), Chars(56, "name")>>
      [] t = 2 -> <<Chars(56, "name")>>
      [] t = 3 -> <<U(4, "map_id"), U(4, "map_type"), Chars(16, "map_name"),
                    U(4, "prog_id"), U(4, "prog_type"), U(4, "attach_type"), U(4, "pad2"),
                    U(8, "helpers0"), U(8, "helpers1"), U(8, "helpers2"), Chars(16, "prog_name"),
                    Chars(8, "tag"), U(4, "bpf_cmd"), U(4, "pad3")>>
      [] t = 4 -> <<U(2, "family"), U(2, "socket"), U(2, "protocol"), U(2, "prog_len"),
                    U(4, "filter_cmd")>>
      [] t = 5 -> <<U(8, "addr"), U(4, "ptrace"), U(4, "ptrace_pid")>>
      [] t = 6 -> <<U(8, "addr"), U(4, "kprobe_cmd"), U(4, "kprobe_type"), Chars(64, "symbol")>>
      [] t = 7 -> <<U(4, "write_access"), U(4, "file_position"), U(8, "sysctl_action")>>
      [] t \in {8, 9} -> <<U(4, "syscall"), U(4, "syscall_table"), U(8, "init_addr"), U(8, "new_addr")>>
      [] t = 10 -> <<U(4, "event_type")>>
      [] t \in {11, 12} -> <<U(8, "addr"), U(8, "expected_value"), U(8, "actual_value")>>
      [] t = 13 -> <<U(8, "sp"), U(8, "ip"), U(8, "fp"), U(4, "hook_point"), U(4, "register_type")>>
      [] OTHER -> <<>>

CStruct(t) == kernel_event_t \o process_context_t \o Section(t)

AlignUp(n, a) == ((n + a - 1) \div a) * a
Offsets(s) == LET Place(offsets, c) == Append(offsets, AlignUp(Last(offsets), c.align) + c.size)
                  ends == FoldLeft(Place, <<0>>, s)      \* where each field ends
              IN  [i \in DOMAIN s |-> ends[i + 1] - s[i].size]
SizeOf(s) == LET o == Offsets(s) IN AlignUp(o[Len(s)] + s[Len(s)].size, 8)

-----------------------------------------------------------------------------
(* Go decoders: parts that need a number of bytes, read fields at offsets  *)
(* of the part and move the cursor.                                        *)

Part(need, read, fields) == [need |-> need, read |-> read, fields |-> fields]
Consecutive(fs, size) == [i \in DOMAIN fs |-> <<fs[i], (i - 1) * size, size>>]

KernelEvent == Part(32, 32, {<<"timestamp", 0, 8>>, <<"retval", 8, 8>>, <<"on_cpu", 16, 4>>,
                             <<"type", 20, 4>>, <<"action", 24, 4>>})
NamespaceContext ==
    Part(32, 32, Range(Consecutive(<<"cgroup_ns", "ipc_ns", "net_ns", "mnt_ns", "pid_ns", "time_ns",
                                     "user_ns", "uts_ns">>, 4)))
CredentialsContext ==
    Part(80, 80, Range(Consecutive(<<"uid", "gid", "suid", "sgid", "euid", "egid", "fsuid", "fsgid",
                                     "securebits">>, 4))
                 \cup {<<"cap_inheritable", 40, 8>>, <<"cap_permitted", 48, 8>>,
                       <<"cap_effective", 56, 8>>, <<"cap_bset", 64, 8>>, <<"cap_ambient", 72, 8>>})
CgroupContext(i) == Part(136, 136, {<<Subsystems[i], 0, 136>>})
ProcessContext ==
    <<NamespaceContext, CredentialsContext, Part(16, 16, {<<"comm", 0, 16>>})>>
    \o [i \in DOMAIN Subsystems |-> CgroupContext(i)]
    \o <<Part(8, 8, {<<"pid", 0, 4>>, <<"tid", 4, 4>>})>>

InitModuleEvent == <<Part(64, 64, {<<"loaded_from_memory", 0, 4>>, <<"name", 8, 56>>})>>
DeleteModuleEvent == <<Part(56, 56, {<<"name", 0, 56>>})>>
BPFMap == Part(24, 24, {<<"map_id", 0, 4>>, <<"map_type", 4, 4>>, <<"map_name", 8, 16>>})
BPFProgram == Part(64, 64, {<<"prog_id", 0, 4>>, <<"prog_type", 4, 4>>, <<"attach_type", 8, 4>>,
                            <<"helpers0", 16, 8>>, <<"helpers1", 24, 8>>, <<"helpers2", 32, 8>>,
                            <<"prog_name", 40, 16>>, <<"tag", 56, 8>>})
BPFEvent == <<BPFMap, BPFProgram, Part(4, 4, {<<"bpf_cmd", 0, 4>>})>>
BPFFilterEvent == <<Part(16, 16, {<<"family", 0, 2>>, <<"socket", 2, 2>>, <<"protocol", 4, 2>>,
                                  <<"prog_len", 6, 2>>, <<"filter_cmd", 8, 4>>})>>
PTraceEvent == <<Part(16, 16, {<<"addr", 0, 8>>, <<"ptrace", 8, 4>>, <<"ptrace_pid", 12, 4>>})>>
KProbeEvent == <<Part(80, 80, {<<"addr", 0, 8>>, <<"kprobe_cmd", 8, 4>>, <<"kprobe_type", 12, 4>>,
                               <<"symbol", 16, 64>>})>>
SysCtlEvent == <<Part(16, 32, {<<"write_access", 0, 4>>, <<"file_position", 4, 4>>,
                               <<"sysctl_action", 8, 8>>})>>
HookedSyscallEvent == <<Part(24, 24, {<<"syscall", 0, 4>>, <<"syscall_table", 4, 4>>,
                                      <<"init_addr", 8, 8>>, <<"new_addr", 16, 8>>})>>
EventCheckEvent == <<Part(4, 4, {<<"event_type", 0, 4>>})>>
KernelParameterEvent == <<Part(24, 24, {<<"addr", 0, 8>>, <<"expected_value", 8, 8>>,
                                        <<"actual_value", 16, 8>>})>>
RegisterCheckEvent == <<Part(28, 28, {<<"sp", 0, 8>>, <<"ip", 8, 8>>, <<"fp", 16, 8>>,
                                      <<"hook_point", 24, 4>>})>>

Decoder == <<InitModuleEvent, DeleteModuleEvent, BPFEvent, BPFFilterEvent, PTraceEvent, KProbeEvent,
             SysCtlEvent, HookedSyscallEvent, HookedSyscallEvent, EventCheckEvent,
             KernelParameterEvent, KernelParameterEvent, RegisterCheckEvent>>
Parts(t) == <<KernelEvent>> \o ProcessContext
            \o (IF t \in DOMAIN Decoder THEN Decoder[t] ELSE <<>>)

Types == 1 .. 13 \ {12}      \* the programs never send EVENT_PERIODIC_KERNEL_PARAMETER
Layout == [t \in Types |-> Offsets(CStruct(t))]
Cursors(parts) == FoldLeft(LAMBDA cursors, p : Append(cursors, Last(cursors) + p.read), <<0>>, parts)

(* The C field whose bytes a Go field reads; "garbage" when they are not   *)
(* the bytes of one field.                                                 *)
FieldAt(t, offset, size) ==
    LET Hit(i) == Layout[t][i] = offset /\ CStruct(t)[i].size = size
    IN  IF \E i \in DOMAIN Layout[t] : Hit(i)
          THEN CStruct(t)[CHOOSE i \in DOMAIN Layout[t] : Hit(i)].f ELSE "garbage"
Reads(t) == UNION {{<<g[1], Cursors(Parts(t))[i] + g[2], g[3]>> : g \in Parts(t)[i].fields}
                   : i \in DOMAIN Parts(t)}
Source == [t \in Types |-> LET reads == Reads(t) IN
              [g \in {r[1] : r \in reads} |->
                  LET r == CHOOSE r \in reads : r[1] = g IN FieldAt(t, r[2], r[3])]]
Short == {t \in Types : \E i \in DOMAIN Parts(t) :
                           Cursors(Parts(t))[i] + Parts(t)[i].need > SizeOf(CStruct(t))}

-----------------------------------------------------------------------------
(* Sent events: one field in focus with a value of its own, the others all *)
(* zero or all one. A word of helpers with value n > 0 has bit n - 1 set;  *)
(* a tag has two bytes here, <<1, 16>> and <<17, 0>> among them.           *)

None == [type |-> 0]
Garbage == -9
Tags == {0, 1, 1 * 256 + 16, 17 * 256 + 0}
Kind(f) ==
    CASE f = "type" -> "event_type"
      [] f \in {"helpers0", "helpers1", "helpers2"} -> "helper"
      [] f \in DOMAIN Tables -> f
      [] OTHER -> "none"
Values(f) == IF f = "tag" THEN Tags
             ELSE IF Kind(f) = "none" THEN {0, 1}
             ELSE IF Kind(f) = "helper" THEN {0, 1, 2, 64}
             ELSE {v \in Samples : \E pair \in Tables[Kind(f)] : pair[2] >= v - 1}
Value(e, f) == IF f = "type" THEN e.type ELSE IF f = e.focus THEN e.v
               ELSE IF f = "garbage" THEN Garbage ELSE e.base
FieldsOf(s) == {s[i].f : i \in DOMAIN s}
Events == UNION {UNION {{[type |-> t, base |-> d, focus |-> f, v |-> v] : v \in Values(f), d \in {0, 1}}
                        : f \in FieldsOf(Section(t)) \cup {"action"}} : t \in Types}

(* The section of the Go structure a type is decoded into.                 *)
SectionOf(t) == IF t = 9 THEN 8 ELSE IF t = 12 THEN 11 ELSE t
eventZero == [s \in 0 .. 13 |-> <<>>]
HeaderFields == FieldsOf(kernel_event_t) \cup FieldsOf(process_context_t)
Old(section, f) == IF f \in DOMAIN section THEN section[f] ELSE 0

(* Two flags are set only when the number is 1. The tag is a text that     *)
(* each byte is appended to, in hexadecimal without padding. A text is the *)
(* number its digits make behind a leading 1; the empty one is 0.          *)
Hex(b) == IF b < 16 THEN <<b>> ELSE <<b \div 16, b % 16>>
AppendHex(text, b) == FoldLeft(LAMBDA t, digit : 16 * t + digit, IF text = 0 THEN 1 ELSE text, Hex(b))
AppendTag(text, raw) == IF raw = Garbage THEN Garbage
                        ELSE AppendHex(AppendHex(text, raw \div 256), raw % 256)
Assign(old, f, raw) == IF f \in {"loaded_from_memory", "write_access"}
                         THEN IF raw = 1 THEN 1 ELSE old
                       ELSE IF f = "tag" THEN AppendTag(old, raw) ELSE raw
UnmarshalInto(section, e, fields) ==
    [g \in fields |-> Assign(Old(section, g), g, Value(e, Source[e.type][g]))]

zeroEventKept == event      \* mutant: the structure is not cleared
zeroEvent == eventZero
Unmarshal(e) ==
    LET fields == DOMAIN Source[e.type] IN
    [zeroEvent EXCEPT ![0] = UnmarshalInto(@, e, fields \cap HeaderFields),
                      ![SectionOf(e.type)] = UnmarshalInto(@, e, fields \ HeaderFields)]

-----------------------------------------------------------------------------
(* The serializers: fields always written and fields written unless empty. *)

Json(always, omitempty) == [always |-> always, omitempty |-> omitempty]
KernelEventSerializer == Json({"timestamp", "retval", "on_cpu", "type", "action"}, {})
NamespaceContextJson ==
    Json({"cgroup_ns", "ipc_ns", "net_ns", "mnt_ns", "pid_ns", "time_ns", "user_ns", "uts_ns"}, {})
CredentialsContextJson ==
    Json({"uid", "gid", "suid", "sgid", "euid", "egid", "fsuid", "fsgid", "securebits",
          "cap_inheritable", "cap_permitted", "cap_effective", "cap_bset", "cap_ambient"}, {})
CgroupsContext == Json(Range(Subsystems), {})
ProcessContextSerializer == Json({"comm", "pid", "tid"}, {})
InitModuleEventSerializer == Json({"loaded_from_memory", "name"}, {})
DeleteModuleEventSerializer == Json({"name"}, {})
BPFMapJson == Json({"map_id"}, {"map_type", "map_name"})
BPFProgramJson == Json({"prog_id"}, {"prog_type", "attach_type", "helpers0", "helpers1", "helpers2",
                                     "prog_name", "tag"})
BPFEventSerializer == Json({"bpf_cmd"}, {})
BPFFilterEventSerializer == Json({}, {"filter_cmd", "family", "socket", "protocol", "prog_len"})
PtraceEventSerializer == Json({"ptrace"}, {"addr", "ptrace_pid"})
KProbeEventSerializer == Json({"kprobe_cmd", "kprobe_type"}, {"addr", "symbol"})
SysCtlEventEventSerializer == Json({"write_access", "file_position", "sysctl_action"}, {})
KernelSymbol(f) == Json({}, {f})      \* resolved to a symbol; the address is left out when zero
HookedSyscallEventSerializer == Json({"syscall", "syscall_table"}, {})
EventCheckEventSerializer == Json({"event_type"}, {})
KernelParameterEventSerializer == Json({"expected_value", "actual_value"}, {})
RegisterCheckEventSerializer == Json({"sp", "ip", "fp", "hook_point"}, {})

NewBPFEventSerializer(section) ==      \* a part without an id is left out
    {BPFEventSerializer} \cup (IF section["map_id"] > 0 THEN {BPFMapJson} ELSE {})
                        \cup (IF section["prog_id"] > 0 THEN {BPFProgramJson} ELSE {})
NewProcessContextSerializer ==
    {ProcessContextSerializer, NamespaceContextJson, CredentialsContextJson, CgroupsContext}
NewHookedSyscallEventSerializer ==
    {HookedSyscallEventSerializer, KernelSymbol("init_addr"), KernelSymbol("new_addr")}
SectionSerializers(t, section) ==
    CASE t = 1 -> {InitModuleEventSerializer}
      [] t = 2 -> {DeleteModuleEventSerializer}
      [] t = 3 -> NewBPFEventSerializer(section)
      [] t = 4 -> {BPFFilterEventSerializer}
      [] t = 5 -> {PtraceEventSerializer}
      [] t = 6 -> {KProbeEventSerializer}
      [] t = 7 -> {SysCtlEventEventSerializer}
      [] t \in {8, 9} -> NewHookedSyscallEventSerializer
      [] t = 10 -> {EventCheckEventSerializer}
      [] t \in {11, 12} -> {KernelParameterEventSerializer, KernelSymbol("addr")}
      [] t = 13 -> {RegisterCheckEventSerializer}
      [] OTHER -> {}

(* The bit i of the three words is the helper number i.                    *)
parseHelpers(f, bits) == (CASE f = "helpers0" -> 0 [] f = "helpers1" -> 64 [] f = "helpers2" -> 128)
                         + bits - 1
MarshalJSON(f, v, section) ==
    CASE Kind(f) = "none" -> v
      [] Kind(f) = "helper" -> String("helper", parseHelpers(f, v))
      [] f = "protocol" /\ v = 0 -> Garbage      \* no bytes at all
      [] f = "syscall" /\ section["syscall_table"] = 2 -> String("ia32_syscall", v)
      [] OTHER -> String(Kind(f), v)
Encode(serializers, section) ==
    LET shown == UNION {j.always \cup {f \in j.omitempty : section[f] # 0} : j \in serializers}
    IN  [f \in shown |-> MarshalJSON(f, section[f], section)]
HeaderSerializers(t) == {KernelEventSerializer}
                        \cup (IF t = 8 THEN {} ELSE NewProcessContextSerializer)
NewEventSerializer(ev) ==
    LET t == ev[0]["type"] IN
    Encode(HeaderSerializers(t), ev[0])
    @@ Encode(SectionSerializers(t, ev[SectionOf(t)]), ev[SectionOf(t)])

-----------------------------------------------------------------------------
NoLine == <<>>
Init == sent = None /\ event = eventZero /\ last = None /\ line = NoLine

(* A program outputs its event; one that finds the buffer full is lost     *)
(* without a trace here.                                                   *)
Send(e) ==
    /\ sent = None
    /\ sent' = e
    /\ UNCHANGED <<event, last, line>>

defaultEventHandler ==
    /\ sent # None
    /\ sent.type \notin Short
    /\ event' = Unmarshal(sent)
    /\ line' = NewEventSerializer(event')
    /\ last' = sent /\ sent' = None

(* An event too short for a decoder ends the handler with an error, as     *)
(* does an output file that cannot be written, or none.                    *)
HandlerFails ==
    /\ sent # None
    /\ event' = IF sent.type \in Short THEN eventZero ELSE Unmarshal(sent)
    /\ line' = NoLine
    /\ last' = IF sent.type \in Short THEN sent ELSE None
    /\ sent' = None

Next == (\E e \in Events : Send(e)) \/ defaultEventHandler \/ HandlerFails
Spec == Init /\ [][Next]_vars

-----------------------------------------------------------------------------
Paddings == {"padding", "pad1", "pad2", "pad3", "register_type"}
Unidentified(e) ==      \* BPF objects without an id, as those of refused calls
    (IF e.type = 3 /\ Value(e, "map_id") = 0 THEN {"map_id", "map_type", "map_name"} ELSE {})
    \cup (IF e.type = 3 /\ Value(e, "prog_id") = 0
          THEN {"prog_id", "prog_type", "attach_type", "helpers0", "helpers1", "helpers2",
                "prog_name", "tag"} ELSE {})
Reported(e) == ((HeaderFields \ (IF e.type = 8 THEN FieldsOf(process_context_t) ELSE {}))
                \cup FieldsOf(Section(e.type))) \ (Paddings \cup Unidentified(e))

(* What a field without a name is shown as: its value, but for the tag,    *)
(* whose digits are run together. Two tags can give one text.              *)
Text(f, v) == IF f = "tag" THEN AppendTag(0, v) ELSE v

(* Every event that was sent is decoded, none is refused for its length,   *)
(* and its line shows it and nothing of the events before it: every field  *)
(* of the C structure is there with the value sent (the tag of a program   *)
(* as the unpadded digits of its bytes, which do not determine it), or was *)
(* zero (decoders and serializers of pkg/krie, which keep one Event and    *)
(* address the buffer by hand-written offsets).                            *)
LineFaithful ==
    last # None =>
        /\ line # NoLine
        /\ DOMAIN line \subseteq Reported(last)
        /\ \A f \in Reported(last) \ DOMAIN line : Value(last, f) = 0
        /\ \A f \in DOMAIN line : Kind(f) = "none" => line[f] = Text(f, Value(last, f))

(* The number a field stands for, and whether KRIe has a name for it.      *)
Number(e, f) == IF Kind(f) = "helper" THEN parseHelpers(f, Value(e, f)) ELSE Value(e, f)
TableOf(e, f) == IF f = "syscall" /\ Value(e, "syscall_table") = 2 THEN "ia32_syscall" ELSE Kind(f)

(* What KRIe names wrongly: the table of attach types starts at 1, that of *)
(* protocols has the ETH_P numbers although the programs send sk_protocol, *)
(* and two tables name the end of their range.                             *)
Misnamed(f) == CASE f \in {"attach_type", "protocol"} -> Nat
                 [] f = "syscall" -> {448}
                 [] f = "family" -> {46}
                 [] OTHER -> {}

(* Outside of these a name in a line is the kernel's name of the number    *)
(* that was sent, by the table of its own syscall table and with the word  *)
(* of its own helper, and is missing only when the table has none          *)
(* (constants.go, String).                                                 *)
NamesTrue ==
    line # NoLine =>
        \A f \in DOMAIN line : (Kind(f) # "none" /\ Number(last, f) \notin Misnamed(f)) =>
            \/ line[f] = Number(last, f)
            \/ line[f] = NoName /\ \A pair \in Tables[TableOf(last, f)] : pair[1] # Number(last, f)
=============================================================================
