# A TLA+ model of KRIe

KRIe detects Linux kernel exploits with eBPF. A Go program (`src/pkg/krie`,
started by `src/cmd/krie`) loads a set of eBPF programs (`src/ebpf/krie`), gives
them policies, symbols and parameters through BPF maps, and prints the events
they send. The eBPF programs run inside the kernel on every CPU, at syscall
entry and exit, in kprobes, in LSM hooks, in a cgroup/sysctl hook and in two
periodic perf events; each ends in a *verdict* (`nop`, `log`, `block`, `kill`,
`paranoid`) that is enforced on the current process.

What makes this hard to test is that nothing in it is sequential: the same
program runs on every CPU at once, and its only shared state is a handful of BPF
maps that are read, compared and written in separate steps, with no lock. The
models of the checks, of the verdict and of the syscall cache keep those steps;
where a model takes several accesses as one, its section below says so.

## Inventory

| Component | State | Operations | Hard behaviour | What makes it correct |
|---|---|---|---|---|
| Policies and enforcement (`krie/policy.h`, `filter_krie_runtime.h`) | `policies` map | fetch a policy, enforce an action | the effect depends on program type, hook type and kernel helpers; KRIe, init and idle are exempt by the pid of the context a program has | exempt processes are not punished |
| Kill switches (`krie/krie.h`, `krie/kill_switch.h`, `krie/event_check.h`) | `global_kill_switch` (one entry), `process_kill_switch` | store a KILL/PARANOID verdict, raise a verdict to the switches | runs of several CPUs; the update of a full map fails silently | an armed switch stays armed and is heeded by every later run |
| Syscall table checks (`krie/syscall_check.h`, `hooks/raw_syscalls.h`, `hooks/krie_ticker.h`) | `syscall_table`, `syscall_table_lock`, the kernel's tables | sweep a table, check one syscall | check-then-write of shared entries from all CPUs, retry after a failed send, full maps | a hook that stays is reported; no alert on kernel text |
| Kernel parameter checks (`krie/kernel_parameter.h`, `kernel_parameters.go`) | `kernel_parameters` (with `last_sent`), kernel memory | compare each parameter, limit the rate | check-then-set of `last_sent`, partial reads, u64 time | a mismatch is reported with the value found (once per ticker, the configuration says) |
| Syscall hooks and the syscall cache (`syscall_cache.h`, `hooks/ptrace.h`, `hooks/setsockopt.h`, `hooks/kernel_module.h`, `hooks/kprobe.h`, `hooks/bpf.h`) | `syscalls` LRU map, one entry per thread | cache at entry, pop at return, send the event | nested hooked functions share the one entry; eviction; writes through pointers looked up before; refused calls | an event carries the data of its own call |
| BPF object tracking (`hooks/bpf.h`) | `tgid_fd_map_id`, `tgid_fd_prog_id`, `bpf_maps`, `bpf_progs` (LRU) | remember fd -> id, id -> description | stale descriptors, evicted entries | an event names the object it is about |
| Sysctl hook (`hooks/sysctl.h`, `pkg/krie/sysctl.go`) | `sysctl_parameters`, `sysctl_default`, per-CPU process cache | decide a read or write, override the value | cache filled in one program and read in another, never emptied | a blocked access is refused, an override holds |
| Kernel symbols (`pkg/krie/kallsyms.go`) | `kptr_restrict`, symbol tables, `kallsyms` map | lower/restore `kptr_restrict`, parse, resolve | failure between lowering and restoring; reload on every module event | the host's setting is restored |
| Loader and event handler (`pkg/krie/krie.go`, `manager.go`, `events/events.go`, `cmd/krie/run`) | activated events, attached probes, BTF cache | start, select probes, load filters, handle events, stop | order of loading, partial failures, kills, partial downloads | no program runs before its maps are filled |
| Kernel version and features (`pkg/kernel`, `events/syscall_helpers.go`) | the cached host | parse a version, test a feature | the host is asked again for each decision and may fail and then answer | the decisions of one start agree; no feature is overstated |
| Event serialization (`events/*.go`, `*_easyjson.go`, tables of constants) | the one `Event` of the handler | decode a buffer by offsets, print it with names | offsets counted by hand, one structure for all events | a line shows its event and nothing else |

The components meet in the BPF maps and in the verdict: the checks (syscall
table, syscall, kernel parameter, event, task) each compute a verdict, and every
program hands it to the same pipeline (`krie_run_*`, then `enforce_policy`).

## Modules

| Module | Models | Role |
|---|---|---|
| `Policy` | `policy.h`, `filter_krie_runtime.h` | actions, policy lookup, `enforce_policy` as the set of effects on the current process |
| `KillSwitch` (extends `Policy`) | `krie.h`, `kill_switch.h`, `event_check.h`, and the verdict of every program under `hooks/` that has one | the verdict pipeline on several CPUs |
| `SwitchLatch` | nothing: an abstract specification | a slot that the first key written owns for good |
| `SyscallCheck` | `syscall_check.h` | hooked syscall detection on several CPUs |
| `Baseline` | nothing: an abstract specification | initial addresses that are learnt and never altered, and alerts drawn from them |
| `KernelParameter` | `kernel_parameter.h`, `kernel_parameters.go` | rate limited parameter detection |
| `SyscallCache` | `syscall_cache.h`, entry and return probes of `hooks/` | one cache entry per thread over nested calls |
| `ThreadSlots` | nothing: an abstract specification | a private slot per thread, and a hand with what was taken out of it |
| `BpfObjects` | `hooks/bpf.h` | which object a `bpf()` event is about |
| `Sysctl` (extends `Policy`) | `hooks/sysctl.h`, `pkg/krie/sysctl.go`, `events/sysctl.go` | decision, override, packed strings, per-CPU process context |
| `Host` | `pkg/kernel`, feature tests of `syscall_helpers.go` | pure functions: version parsing and features |
| `Probes` (extends `Host`) | `manager.go`, `events.go`, the `add*Probes` functions, `syscall_helpers.go` | which probes are declared, required, excluded, attached |
| `Kallsyms` | `kallsyms.go` | steps of a symbol load, resolution of an address |
| `Loader` (extends `Kallsyms`) | `krie.go`, `manager.go`, `utils.go`, `cmd/krie/run/krie.go` | the life of the process, with failures, kills and restarts |
| `Names` | `constants.go`, `syscalls*.go`, `ia32_syscalls*.go`, `events.go` | tables of names as pairs of numbers |
| `Wire` (extends `Names`) | `events.h`, `process.h`, decoders, `krie.go`, encoders of `*_easyjson.go` | from a C structure to a line of the output |
| `MC*` | | instances for TLC |
| `KillSwitchProofs`, `SyscallCheckProofs`, `KernelParameterProofs`, `SyscallCacheProofs`, `BpfObjectsProofs`, `SysctlProofs`, `ProbesProofs`, `LoaderProofs` | | theorems about the module each is named after |

**What a step is.** A tracing program is not interrupted by another tracing
program on its CPU, but other CPUs run between any two of its accesses to shared
memory. So a program run is a record per CPU with a program counter (`run[c].pc`),
and each lookup, update, read or write of a BPF map, of an element reached by a
pointer, or of kernel memory is one action. Computation on local variables
belongs to the action before it. This holds of `KillSwitch`, `SyscallCheck` and
`KernelParameter`, and of `SyscallCache` but for the entry probe of a syscall
(update, and delete when the call is refused) and for a pop (lookup and delete),
whose two accesses under the thread's own key are one step: an eviction between
them leaves what one right after them leaves. In `BpfObjects` and `Sysctl` a
program is one step, with other threads and CPUs between programs.

**`KillSwitch`.** `Program` has one row per program: which policies its check
reads, whether the check always yields the policy's action or only on a
detection, whether the verdict is stored (`krie_run_event_check` and the
detections) or only raised (`krie_run_context_check` of the LSM hooks) or
neither (`run_task_check`), and whether the program leaves KRIe's own process
alone before its check (the return hooks). What a check detects is left open:
`Verdict` is the set of actions it may return. `Start` is the check, `SetSwitch`
lines 65-73 of `krie.h`, `HeedProcessSwitch` and `HeedGlobalSwitch` the two
lookups, `Enforce` the call of `enforce_policy`. The three programs chained by
tail calls at syscall entry are three rows that start independently, which
allows more orders than the chain does. A run has the task it runs in and the pid
of the context it decides with. They differ only for `cgroup_sysctl`, which takes
its context from a slot of its CPU that is never emptied (`sysctl.h:93` deletes an
element of an array, which fails): `Context` lets it be any pid, 0 when nobody has
filled the slot. Its own decision about the parameter, which may refuse the access
of anybody before the verdict is enforced, is `Refuse` here and the subject of
`Sysctl`. A kill switch map is a function from
pids to actions with NOP for an absent entry. `Exit` and `Fork` are the kernel:
pids are reused and no map entry is told. `atStart` and `punished` are history.

**`SyscallCheck`.** `syscall_table[k]` is the sequence of the elements ever
allocated for key `k`: the last is in the map, the others were replaced by a
racing `BPF_ANY` update but may still be written through a pointer (`run[c].p`).
The lock is modelled as the code has it: a set of numbers that only grows, whose
boolean reads TRUE when the number was already there or the map is full. The
three tables share the lock's keys. `LoseEvent` is a failed
`bpf_perf_event_output`. The environment overwrites slots of the tables
(`ChangeHandler`) and passes any syscall number of `Nr`. One simplification: the
kernel may reuse a replaced element for another key while a run still holds a
pointer to it; here it stays with its key.

**`KernelParameter`.** A u64 is the function of its bytes, because the code reads
`size & 7` bytes into a buffer that is cleared once per run, not once per
parameter. A read of address 0 (a symbol that was not found) zeroes the bytes it
was to fill. Time is the clock since boot and `Threshold` computes modulo `Word`,
as u64 does. `fresh`, `held` and `reported` are history.

**`SyscallCache`.** The elements of the LRU map are separate from the entries: an
update takes a free element or evicts any entry, a deleted element keeps its
content until it is taken again, and `pop_syscall` keeps a pointer to the element
it has freed; `send_event` reads through it in a later step. A thread's stack
holds the hooked calls it is in. `sys_enter` is the entry of any hooked syscall,
with its removal when the verdict is above LOG; `kprobe_function` and
`register_kretprobe` are the kernel functions a module calls from inside a hooked
syscall or from a context of its own; `write_enabled_file_bool` is the file that
arms all kprobes, whose entry probe caches nothing when the input cannot be parsed
("bogus_write") and whose return probe pops all the same. Entries are completed
through a pointer, in steps of their own: a kprobe function looks its entry up,
inserts one when there is none, looks it up again (`peek_again`), and writes
(`write_through`); the hooks inside a syscall (`trace_module`, the security hooks,
the socket filters) are `peek_inside` and the same write. Between a lookup and its
write another thread may take the element: the write then lands in that thread's
entry, or in what its return probe is about to read. Return probes of the threads
in `Exempt` pop and send nothing. The number of a call stands for its data;
`spoiled` marks the calls of other threads that an update or a late write hits.

**`BpfObjects`.** The descriptors of one process, shared by its threads. A call is
three steps: the entry probe, the kernel's work (with `check_helper_call` and the
security hook where the command makes a descriptor) and the return probe, which
reads the descriptors again. `close`, `open` and the kernel's use are external.
Commands are grouped by what `save_obj_fd` and `populate_map_id_and_prog_id` do
with them; `PROG_DETACH`, `PROG_QUERY` and `TASK_FD_QUERY` are looked up by the
descriptor of a target, and the two `GET_NEXT_ID` commands by the id they start
from. The four maps are LRU maps filled by all processes: `evict_fd` and
`evict_object` take any entry at any time. Helpers are numbers, and `Bit` is the
shift that puts one in the three words of the entry. `settled` is history:
descriptors whose making KRIe has seen.

**`Sysctl`.** Strings are sequences of bytes and the buffer is an array, because
the program packs three strings at masked offsets that the Go side finds again
by counting NULs; `L` scales 256. A sysctl access is two actions, one per
program, and the process may be overtaken or migrate between them. What follows an
event in the ring buffer is any of `Paddings`: the decoder is given the padding of
the record too, and for a read it looks for a third string there.

**`Host`, `Probes`.** `PrepareManager` picks the question about the host from
which on lookups succeed (`first`): selectors, exclusions and declarations ask
in the order of `prepareManager` (`Lookups`), and an answer stays. `EnvOK` states
what is assumed of a host: a source of the version that parses gives the series
of the running kernel; its sublevel may be anything. Probes are records of a
hook point, a symbol and an ABI; the 148 LSM hooks are one. `StartManager` is the
manager library as KRIe uses it: it attaches what is declared, selected and not
excluded, and then checks the selectors. `FnsOf` has the functions each event type
needs, the cgroup hook of `sysctl` and the ticker of `hooked_syscall_table`
included; these two are left out without a word when a feature test fails, which
`Skipped` states.

**`Kallsyms`, `Loader`.** `loadKernelSymbols` is cut at each access to the host
(check, parse, reset, push); every step may fail and the process may be killed
between any two. The BTF cache file and `kptr_restrict` survive the process.
A module is changed in the middle of a call whose event is sent when it returns
(`calls`), and only if the caller is not exempt, the event type is activated and
no hooked function called inside took the cache entry: `Notify` has a `Reported`
and an `Unreported` outcome. Events wait in a queue of `QueueCap`; the handler
loads the symbols again.
A kernel module is one symbol; `resolveFuncSymbol` yields every symbol that
covers the address, since the code takes the first one in the order of a Go map.

**`Names`, `Wire`.** A name is the number the kernel gives it, so a table is a set
of pairs of numbers and a shift shows. `Misnamed` in `Wire` has the numbers KRIe
names wrongly. The tag of a program is shown as the code prints it, each byte in
hexadecimal without padding, so that two tags can give one text (`AppendTag`).
Structures are laid out by the rules of
the C compiler (`Offsets`); decoders are tables of hand-written offsets, and
`Source` computes which C field each Go field really reads. An event has one
field in focus with a sample value, the others are all 0 or all 1.

## Runs

Passing runs:

| Run | Instance | Shows |
|---|---|---|
| `kill_switch` | 2 CPUs; idle, KRIe and one process; 6 configurations of two event types; the cgroup/sysctl program, the periodic check, an LSM hook and the syscall exit hook; with fairness | exempt processes are never signalled, and a verdict costs them at most an access that cgroup/sysctl decided with the context of another process (`RuntimeSpared`); a run that started under an armed switch enforces at least KILL (`ArmedSwitchHeeded`); no verdict, switch or punishment exceeds what some policy asks for (`NothingUnasked`); the global switch goes off only for a PARANOID verdict or a KILL verdict whose context names pid 0 (`ArmedForCause`); refinement of `SwitchLatch` (`FirstKeyOwnsSlot`); an armed switch kills every process that is not exempt (`ArmedSwitchKills`) |
| `syscall_check` | 2 CPUs, both kinds of checks, 2 syscall numbers of which one is swept, maps of one entry, 1 change, 1 lost event | no NULL entry is followed, even when updates fail (`TypeOK`); the lock map and the entry map stay in step (`EntryImpliesLock`); an entry is created at most once per CPU (`RecreationBounded`); refinement of `Baseline`: recorded initial addresses are never altered, and alerts are about addresses outside the text, next to one recorded for the slot (`BaselineKept`) |
| `syscall_sweep` | 1 CPU, only the sweep, two tables of two syscalls, fairness | a hook that stays is reported, lost events included (`HookReported`) |
| `syscall_called` | 2 CPUs, both kinds, fairness | a hooked syscall that keeps being called is reported (`HookedCallReported`) |
| `kernel_parameter` | 1 CPU, parameters of 1 and 2 bytes in registers of 4, 3 units of time, 2 changes, 1 lost event, fairness | events carry the bytes the parameter held (`NoFalseAlarm`); a mismatch is reported or changes again (`MismatchReported`) |
| `syscall_cache` | 2 threads, one of them exempt, 2 elements, 4 calls, nested and denied | one entry per thread (`TypeOK`); an event carries the data of its own call unless another thread took the element or wrote into it late, none is sent for a denied call, and a bogus write is reported only in a thread whose `register_kretprobe` ended early (`EventsOfTheirCall`); a call whose element was not spoiled and that made no hooked call itself is reported (`ReturnsReported`); a probe is reported with its own kind unless a `register_kretprobe` of the thread ended early (`KindTrue`); refinement of `ThreadSlots` (`SlotsPrivate`) |
| `bpf_objects` | 2 threads, 1 descriptor, 1 map, 2 programs, 1 eviction, a helper beyond the three words | a call on a descriptor names the object the kernel used, if KRIe saw the descriptor being made and it was not reused meanwhile, or no object after an eviction (`ObjectNamed`); helpers are those of the program or none, but for the ones from 192 on, each of which is shown as one between 128 and 191 (`HelpersTrue`) |
| `sysctl` | 2 CPUs, KRIe and a process, 4 configurations, strings around the limit, padding or none behind the event | the strings of a regular access are decoded as written, and the new value of a read is what the padding holds (`DecodeFaithful`); the context is the caller's unless it was overtaken or moved (`ContextOfCaller`); blocked writes change nothing (`BlockedKept`); only the override, an exempt writer or a strayed context changes an overridden parameter (`OverrideHeld`) |
| `probes` | 69 hosts, 4 sets of events, 6 sets of missing symbols, every point at which lookups begin to succeed | required probes are declared and not excluded (`RequiredIsDeclared`); names of programs exist in the asset (`ProgramsInAsset`); hooked syscalls have their exit handled when the host never changed from unknown to known (`SyscallExitsHandled`); no start with an activated event unhooked, except the two that are skipped when their feature test fails (`StartedMeansHooked`); no feature the kernel lacks (`FeaturesSupported`) |
| `loader` | 2 starts, 2 modules, 4 addresses, 4 hosts, 3 configurations, 2 changes, a queue of 1, fairness of the handler | `kptr_restrict` is restored (`RestrictionRestored`); programs run with all maps and a complete specification (`RunningIsReady`); loaded modules resolve once the events of all changes were handled and no change went unreported (`LoadedModulesResolved`); a good cache file is kept (`GoodCacheKept`); module events are handled (`EventsHandled`) |
| `wire` | every event type, a field in focus, values at the ends of the tables, any sequence | every event is decoded, its line shows its fields, the tag as its run-together digits, and nothing of an earlier event (`LineFaithful`); names are the kernel's, except the ones in `Misnamed` (`NamesTrue`) |

One run refutes a comment: `kill_verdict`. `krie.h:65` says "set process kill
switch"; the KILL verdict is written to the global map (`kill_switch.h:42`) and
the process switch is never set.

The scope of a property is visible in its comment and in the constants of its
run: `HookReported` holds on one CPU that only sweeps, and `MismatchReported` is
checked on one CPU. What the texts promise beyond that, and the code does not
keep, is in the next section.

## Disagreements

Places where a text of the repository and the code disagree, met while modelling.
The models follow the code, and the properties leave these cases out in their
hypotheses or in the constants of their runs.

* `krie.h:70` "set global kill switch": after a KILL verdict the only slot of the
  map is taken and a PARANOID verdict leaves the switch off.
* `kernel_parameter.go:85` "periodic_action cannot be set to block or kill": the
  ticker decides with the non-periodic policy (`krie.h:177`) and kills the process
  it interrupted.
* `syscall_check.h:90` "someone else has the lock": the lock's boolean is
  inverted; the first check of a number, alone, gives up.
* `syscall_check.h:117` "make sure we'll retry": a sweep of a second CPU that
  compares the entry between the loss and the reset finds the hooked address
  recorded, raises no alert, and stores it again after the reset. The hook is then
  recorded as seen and was never reported. A check at entry does the same.
* `default_config.yaml:56` "at most one event every [ticker] second(s)": two CPUs
  that compare `last_sent` before either writes it (`kernel_parameter.h:71`) both
  send; and until the machine has been up for a ticker the threshold wraps around
  (`kernel_parameter.h:44`) and every check sends. No property states the limit.
* `README.md:86`, `README.md:102`: "action taken when" an event is detected; with
  `sysctl` or `hooked_syscall_table` activated KRIe starts with the event unhooked,
  and without a message, when a feature test fails (`events/sysctl.go:57`,
  `events.go:293`).
* `cgroup_sysctl` decides with a context that may be another process's
  (`sysctl.h:92`): it can refuse KRIe or init an access for a process that is not
  exempt, and `block_write_access` refuses them without looking at the process
  (`sysctl.h:146`).
* `kernel_parameters.go:51` "will be ignored": the parameter is pushed with
  address 0, reads as zero and is reported.
* `constants.go:1753`: attach types start at `iota + 1` where the kernel starts at
  0, so every name is that of the number before (`Misnamed` in `Wire`); 448 is
  printed as a syscall, and 46 as the address family `AF_MAX` (`constants.go:469`).
* `setsockopt.h:128` sends `sk_protocol`, an IPPROTO number for inet sockets, and
  the ETH_P table names it: a TCP socket shows `ETH_P_DDCMP`.
* `bpf.go:177` prints the bytes of a tag with `%x` and no padding: `01 10` and
  `11 00` are both `110`, and no tag of a program with a byte below 16 is what
  bpftool shows.
* `README.md:91`, `default_config.yaml:35`: `sysctl_default` and
  `sysctl_parameters` are not the keys the code reads (`events/sysctl.go:155`).
* A refused `BPF_PROG_LOAD` or `BPF_MAP_CREATE` has no id, so its metadata, which
  the program fills from the arguments, never reaches the output (`bpf.go:223`).
* `bpf.h:418`: helpers from 192 on are shifted by 64 or more and come out as ones
  between 128 and 191, which the program may not call. `PROG_DETACH`, `PROG_QUERY`
  and `TASK_FD_QUERY` are looked up by the descriptor of their target as if it
  were of a map or program. The maps of descriptors and descriptions evict (4096
  entries for the whole host): an evicted object is reported with id 0 or no name.
* `sysctl.h:158-163`: the results `SYSCTL_EINVAL` and `SYSCTL_ERANGE` are
  overwritten at once; an override also replaces the SHOT of a blocked write. An
  empty value shifts the offsets by -EINVAL, and an unterminated name makes the
  decoder slice behind its data (`Regular` excludes both). For a read the decoder
  takes the padding of the record for a new value (`events/sysctl.go:105`).
* `register_kretprobe` that fails before it calls `register_kprobe` leaves an
  entry that turns the thread's next kprobe into a kretprobe, and that the return
  of a bogus write to the kprobes file reports (`kprobe.h:360`), although the entry
  probe says "ignore this is a bogus request" (`kprobe.h:331`).
* A module that registers a kprobe in its init function leaves its own
  `init_module` unreported, as do exempt processes and event types that are not
  activated: KRIe then does not load the symbols again.
* `kprobe.h:52`, `kernel_module.h:65`: the write through a looked-up pointer may
  land in the entry of the thread that took the element in between.
* A failed parse leaves `kptr_restrict` at 0; the saved value is never forgotten,
  so a later load undoes a change of the administrator. The status of the BTF
  download is not looked at, so an error page stays in the cache and every later
  start fails.

**Bounds.** Two CPUs give every race of the code, which are all between pairs of
accesses to one element. Three pids are the idle task, KRIe and a process subject
to enforcement. `MCConfigurations` has every policy of the cgroup/sysctl check, and
KILL next to PARANOID, which are the two verdicts that compete for the one slot of
the map; the proofs are for all configurations. Two addresses, one inside and one outside the text, are all the
comparisons tell apart, and changes go both ways. `MaxHooks`, `MaxLost`,
`MaxChanges`, `MaxTime` bound the environment only: no run of a check is cut.
`MaxTime` leaves a ticker after the last change, so that a bounded clock refutes
no promise. `Width` 4 leaves room for two partial sizes, and the instances read
parameters of one and two bytes in that order. `SizesFit` states which lists of
sizes the promise is made for; a full-width size (which `size & 7` reads as
nothing) and a size smaller than the one before it are outside it and are not
run.

For the newer modules: two threads and two cache elements make every eviction
happen (four calls nest a module's `register_kretprobe` in its `init_module` and
leave one for the other thread; with no free element left, either thread's update
takes the element the other is about to write or read). One descriptor is what its reuse is about, with
a map and two programs; one eviction is enough to forget a descriptor or an object
between two steps of a call, and the helper 192 is the first that wraps. `L` = 4 has names of one to four bytes, among them the
last accepted one and the first refused one, and values that are empty, regular
and too big. `MCEnvs` has a kernel on each side of each version threshold, with
sublevels above 255 and every source of the version. Two starts, two changes and
a queue of one reach a poisoned cache, a saved setting that is stale, an address
reused by another module and a lost event. `MCSamples` are the first and last
numbers of the tables and the numbers behind them; two events in sequence are
enough for one to show through the other, and the run goes on with any number.

**Fairness.** The verifier admits only programs that end, hence weak fairness of
a run in progress. The periodic perf events fire on every CPU for as long as KRIe
runs, and the sweep's pick of a table by the clock falls on each of them again
and again: strong fairness of the sweep of each table, weak fairness of the
parameter check. For the switch, a process that keeps running keeps returning
from syscalls: strong fairness of the exit hook per process. `syscall_called`
assumes that the hooked syscall keeps being called. In `Loader` the goroutine of
the event handler is scheduled (weak fairness of `HandlerStep`); signals, kills
and module events need not come. No fairness is assumed of the environment,
except that time passes.

Deadlock is not checked in the runs of `Probes`, `Loader`, `Wire`, `Sysctl`,
`SyscallCache` and `BpfObjects`: KRIe may be stopped, and bounded environments
end.

## Proofs

Every safety property of the runs is also a theorem, for every value of the
constants that their assumptions allow, except the two of `Wire`. Each proof
module has the same shape: an inductive invariant made of named parts, lemmas
about the operators, one step (or lemma) per action, and last the theorems,
which only unfold the invariant.

**Assumptions on the constants.** Numbers are naturals and bounds are not
negative; sets that are counted are finite; names that the code keeps apart
(event types, kernel functions, the free key) are different. Those that say more:
pids include 0 and KRIe's, which is not 0 (`KillSwitchAssumption`); at least one
parameter is listed (`KernelParameterAssumption`; the module's comment says what
an empty list does); modules loaded before KRIe have addresses of their own
(`LoaderAssumption`); strings have no NUL inside (`SysctlAssumption`: they are C
strings); a version source tells the true series (`ProbesAssumption`).

**`KillSwitchProofs`**, for any CPUs, pids, event types, attached programs and
configurations:

* `TypeCorrect`: type correctness, one step per action.
* `RuntimeAlwaysSpared`: `ExemptUntouched` says that enforcement has no effect on an
  exempt pid, but the pid is that of the context. `ContextInv` adds that the
  context is the task's own, except for `cgroup_sysctl`, whose program type never
  sends a signal.
* `SwitchesNeverDisarmed`, `GlobalSwitchArmedForCause`: action properties, from
  `UpdateKeeps` (an update of the one-entry map removes nothing and changes only
  its key) and type correctness. `NeverDisarmed` itself is stated in the proof
  module: the refinement of the latch contains it for the global map.
* `NeverUnasked`: what a run enforces, what a switch holds and what a process has
  suffered is covered by some policy. The three parts are inductive only together:
  verdicts feed the switches, the switches raise the verdicts of other processes,
  and both end in `enforce_policy` (`VerdictAsked`, `EffectsOfActions`).
* `ArmedSwitchAlwaysHeeded`: not inductive as it stands. The strengthening
  `ArmedInv` adds that a run that started under an armed switch finds the switch
  still armed at each step before its lookup; it needs that switches are never
  disarmed.
* `ArmedRunsAlwaysKill`, the safety half of `ArmedSwitchKills`: with
  `bpf_send_signal`, such a run signals its process unless it is exempt. Fairness is
  needed only for the run to happen. `ProgramsSignal` goes through the table of
  programs: none is of the type that cannot send a signal.
* `ImplementsLatch`: `KillSwitch` refines `SwitchLatch`. The invariant `OneKey`
  (at most one key of the map is present) is what makes an update either a
  write of the latch or a stutter.

**`SyscallCheckProofs`**, for any finite set of CPUs, syscall numbers, addresses
and map capacity:

* `TypeCorrect`, `LockNeverMissing`, `AlertsAlwaysJustified` share one invariant.
  The properties say nothing of a run in progress; `RunInv` adds what each step of
  a run knows: its pointer is at most the number of elements and positive where it
  is followed, the number it works on is locked, and an address it is about to
  report is outside the text. It stays true under other CPUs because locks and
  elements are never removed (lemmas about what every step keeps).
* `RecreationAlwaysBounded`: `CreationInv` counts. Once there is an element for a
  key, the number of elements and of CPUs that looked the key up before there was
  one (`Creating`) is at most the number of CPUs: each update moves one CPU from
  the second count to the first, and no later lookup adds to it.
* `ImplementsBaseline`: `SyscallCheck` refines `Baseline`. The baseline of a slot
  is the sequence of the initial addresses in its elements, the alerts are the
  events. The creation of an entry is `Learn`, whose bound per slot is
  `RecreationAlwaysBounded` and whose room is the map's capacity; sending is
  `Alert`, with the element the run points to as the witness; every other step is
  a stutter, also the stores through pointers to replaced elements, because they
  change only the last address (`StoreLast`, `BaseUntouched`).

**`KernelParameterProofs`**, for any list of parameters and any contents:

* `TypeCorrect`.
* `AlarmsAlwaysTrue`, on any number of CPUs. `BufferInv`: above the size of the
  parameter a run is at, its buffer is still zero, and below it is what memory held
  at some time. This is where `SizesFit` (a hypothesis of the property) is used: a
  smaller size after a larger one would leave bytes of the earlier parameter.

**`SyscallCacheProofs`**, for any threads, size of the map and number of calls, on
one invariant:

* `OneEntry` (no two elements with one thread's key) is what everything rests on.
  `StackInv`: only the innermost call can be in a probe, and every call around it
  is marked nested. `ReadInv`: the element a return probe has freed is still free
  and holds the data of its call, unless it was taken or written meanwhile, which
  marks the call spoiled. `WriteInv`: a probe about to write points to the entry of
  its thread, or the thread has lost its entry. `ContentInv`, `EntryInv`: the
  thread's entry and what is in it, by the innermost call.
* `TypeCorrect`, `EventsAlwaysOfTheirCall`, `ReturnsAlwaysReported` and
  `KindAlwaysTrue` follow. The lemmas `OthersKept` and `StepKeeps` say what an
  action of one thread may do to the entries of another: take them, and then the
  call is spoiled.
* `ImplementsThreadSlots`: `SyscallCache` refines `ThreadSlots`. The slot of a
  thread is the set of contents of the entries with its key, which `OneEntry` makes
  empty or a singleton; its hand is the content of the element its return probe
  points to. `pop_syscall` is `Take`, the return `LetGo`, and every update of the map
  a `Store` that may cost one other thread its entry (an eviction) and may overwrite
  a freed element that other threads still point to. A late write of a thread that
  lost its entry is a step of `ThreadSlots` too, allowed only to such a thread.

**`BpfObjectsProofs`**, for any threads, descriptors and helpers:

* `ObjectAlwaysNamed` needs `SettledInv` (a descriptor KRIe was shown is recorded
  with its object or marked as evicted) and `CallInv` (what a call in progress has in its cache entry is
  what the kernel used).
* `HelpersAlwaysTrue` needs `DescribedInv` and `MadeInv`: ids are given without
  gaps, so that a new object is never mistaken for an old one, and its description
  is the bits of its helpers, none, or evicted. `BitValue` is the arithmetic of the
  shift.

**`SysctlProofs`**, for any configurations, strings, CPUs and length `L`:

* `BlockedAlwaysKept`, an action property, for all configurations.
* `OverrideAlwaysHeld`, `AlwaysDecodedFaithfully`: with `OverridesFit`, that is, no
  configured override is longer than `L` bytes. `MarshalBinary`
  (`events/sysctl.go:140`) cuts a longer one, and then neither what the kernel gets
  nor what the event shows is the configured string.
* The decoding is a chain of lemmas about sequences of any length: a padded string
  ends at its first NUL (`PaddedInjective`, `ReadBack`), the three strings lie one
  behind the other (`Layout`), so each cursor of the Go side is where the program
  put the next string (`Decoded`). `Regular` is used for the masks not to change an
  offset. For a read the third cursor stands at the padding, and what it finds there
  is what the event shows.
* `ContextAlwaysOfCaller`: `StateInv` says that a call that was neither overtaken
  nor moved finds its own process in the slot of its CPU.

**`ProbesProofs`**, for any hosts, events and missing symbols:

* `CodeNotOverstated` is about all numbers: the encoding of a version never exceeds
  that of its series plus 255, whatever the sublevel. `FeaturesAlwaysSupported`
  follows, since only a host that was detected answers.
* `RequiredAlwaysDeclared`: `QuestionOrder` gives the places of the questions about
  one probe; an answer to the selector implies the same answer to the exclusion and
  the declaration, which are asked later.
* `StartedAlwaysHooked`, `ExitsAlwaysHandled`: `StartInv` says that what is attached
  is what `manager.Start` found running and valid for some set of missing symbols;
  and the two events in `Skipped` are by cases on their feature tests; `SameSymbol`
  says that a missing symbol takes all probes on it, so an attached exit
  comes with its entry and an entry with its exit.
* `ProgramsAlwaysInAsset`: by cases on the prefix, the ABI and the syscall.

**`LoaderProofs`**, for any modules, hosts, configurations and number of starts,
with a failure or a kill possible at every step:

* `RunsOnlyWhenReady`: the programs run only on filled maps and a complete BTF
  specification. The property speaks of one stage and is not inductive;
  `StepInv` says of each stage which maps are already filled, and that every stage
  after the choice of the specification has a complete one.
* `GoodCacheNeverLost`: an action property, which needs `CopyInv` (the download
  is only written to the file it has just created).
* `RestrictionAlwaysRestored`: `KptrInv` strengthens it with what holds in the
  middle of a load. `ValuesInv`: the setting and the saved copy are 0 or a value
  the administrator chose. `ProcessInv`: a load is under way only at the two
  stages that start one, and a process that is off has saved nothing.
  `RestoreInv`: without a failure, a kill or a change by the administrator, the
  saved copy is 0 or the value he wants, and it is that value whenever the setting
  is lowered. The lemmas `OutsideLoad` and `ProcessEnds` cover the steps that do
  not load, `InsideLoad` the ones that do.
* `ModulesAlwaysResolved`: `FreshInv` says that after a parse the table has every
  symbol of the kernel as it is now, or a call that changed a module has not returned
  yet, or an event is waiting, or a load that has not parsed yet is under way, or a
  change went unreported. A fresh table resolves because the
  size of a symbol never reaches the next one (`SizesApart`; `Min` of a set of
  addresses exists because naturals are well-founded).

What is only model-checked: the liveness properties (fairness and `ENABLED` are
out of the prover's reach) and the two invariants of `Wire`. `LineFaithful`
depends on the layout of structures, which `Offsets` computes by folding over the
fields: an induction over data. `NamesTrue` is about what those decoders read and
about long tables of constants, of which the run samples the ends.

## Not modelled

* The filling of a process context from kernel structures (`process.h`), the
  conversion of time (`time_resolver.go`), log messages.
* The decoders of `*_easyjson.go` and `ParseSyscallName`, which KRIe never calls.
* The command line's flags, the test tool `ktool`, the example programs, the
  vendored headers and the `ebpf-manager` library beyond how KRIe uses it.
* Concurrency between the two goroutines that load symbols: the handler only
  runs once the programs are attached, after the loading at start-up.
* Processes that share descriptors (`fork`, `SCM_RIGHTS`): the maps are keyed by
  tgid and one process has all their hazards.

## Plan

Done: 1. `Policy`, `KillSwitch`, `SwitchLatch`; 2. `SyscallCheck`;
3. `KernelParameter`; 4. `SyscallCache`; 5. `Sysctl`; 6. `Host` and `Probes`;
7. `Kallsyms` and `Loader`; 8. `BpfObjects`; 9. `Names` and `Wire`; 10. the proofs
of each of them but the last; 11. the abstract specifications `ThreadSlots` and
`Baseline` and the refinements.

Left: what the prover cannot do (liveness, and the layouts of `Wire`), and what
"Not modelled" lists.
