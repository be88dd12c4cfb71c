------------------------------- MODULE Loader -------------------------------
(***************************************************************************)
(* The life of the KRIe process: configuration, NewKRIE, startManager and  *)
(* its steps, the event handler that loads the symbols again after a       *)
(* module event, Stop; with failures and kills at every step, and what     *)
(* outlives the process: the BTF cache file and the host's                 *)
(* kernel.kptr_restrict.                                                   *)
(***************************************************************************)
EXTENDS Kallsyms, Sequences

CONSTANTS Hosts,        \* what a host lets the process do: [syslog, perf, ia32]
          BootModules,  \* modules loaded before KRIe, and where
          Configs,      \* configurations: [valid, btf, events] (see ParseConfig)
          QueueCap,     \* bound: events waiting in the perf buffer
          MaxStarts,    \* bound: starts of the process
          MaxChanges    \* bound: changes by the kernel and the administrator

ASSUME LoaderAssumption ==
    /\ {QueueCap, MaxStarts, MaxChanges} \subseteq Nat
    /\ \A f \in BootModules : /\ f \in [Modules -> (Addr \ {1}) \cup {NotLoaded}]
                              /\ \A m, n \in Modules : f[m] = f[n] => m = n \/ f[m] = NotLoaded

VARIABLES stage,     \* the next step of the main goroutine
          config,    \* the configuration of this start
          file,      \* the BTF cache file under /tmp
          spec,      \* the BTF specification in use
          maps,      \* the eBPF maps that have been filled
          calls,     \* module syscalls whose entry is cached and that have not returned
          queue,     \* module events that the handler has not seen
          starts, changes,
          (* history *)
          chosen,    \* every value the administrator gave kptr_restrict
          wanted,    \* the last of them
          trouble    \* what went wrong or changed since the first start

pvars == <<stage, config, file, spec, maps, calls, queue, starts, changes, chosen, wanted, trouble>>
vars == <<kvars, pvars>>

NoConfig == [valid |-> FALSE, btf |-> "none", events |-> {}]
Files == {"absent", "partial", "page", "good"}
Troubles == {"load", "kill", "admin", "lost"}

-----------------------------------------------------------------------------
Init ==
    /\ kptr \in {0, 1, 2} /\ wanted = kptr /\ chosen = {kptr}
    /\ mods \in BootModules
    /\ host \in Hosts
    /\ saved = 0 /\ table = [a \in Addr |-> NoSymbol] /\ phase = "idle"
    /\ stage = "off" /\ config = NoConfig /\ file = "absent" /\ spec = "none"
    /\ maps = {} /\ calls = 0 /\ queue = 0 /\ starts = 0 /\ changes = 0 /\ trouble = {}

(* The process ends; its memory, programs and maps are gone.               *)
Exit(reason) ==
    /\ stage' = "off" /\ config' = NoConfig /\ spec' = "none" /\ maps' = {}
    /\ calls' = 0 /\ queue' = 0
    /\ saved' = 0 /\ table' = [a \in Addr |-> NoSymbol] /\ phase' = "idle"
    /\ trouble' = (trouble \ {"lost"}) \cup reason

Go(next) == stage' = next

(* parseConfig and NewKRIE, which refuses an invalid configuration.        *)
ParseConfig ==
    /\ stage = "off" /\ starts < MaxStarts
    /\ starts' = starts + 1
    /\ config' \in Configs
    /\ stage' = "new"
    /\ UNCHANGED <<kvars, file, spec, maps, calls, queue, changes, chosen, wanted, trouble>>

NewKRIE ==
    /\ stage = "new" /\ config.valid
    /\ Go("vmlinux")
    /\ UNCHANGED <<kvars, config, file, spec, maps, calls, queue, starts, changes, chosen, wanted, trouble>>

(* fetchAssets and prepareManager (module Probes), then loadVMLinux.       *)
LoadVMLinux ==
    /\ stage = "vmlinux"
    /\ Go(IF config.btf = "hub" THEN "stat" ELSE "init")
    /\ spec' = IF config.btf = "hub" THEN spec ELSE "good"
    /\ UNCHANGED <<kvars, config, file, maps, calls, queue, starts, changes, chosen, wanted, trouble>>

(* loadSpecFromBTFHub: the cache is used when the file exists; otherwise   *)
(* it is created, then filled with whatever the server answers.            *)
StatAbsent == TRUE      \* mutant: the cache is never used
CacheMiss == file = "absent"
StatCache ==
    /\ stage = "stat"
    /\ \/ ~CacheMiss /\ Go("read") /\ UNCHANGED file
       \/ CacheMiss /\ Go("copy") /\ file' = "partial"
    /\ UNCHANGED <<kvars, config, spec, maps, calls, queue, starts, changes, chosen, wanted, trouble>>

CopyBody ==
    /\ stage = "copy"
    /\ file' \in {"good", "page"}
    /\ Go("read")
    /\ UNCHANGED <<kvars, config, spec, maps, calls, queue, starts, changes, chosen, wanted, trouble>>

(* createBTFReaderFromTarball fails on anything but the whole archive.     *)
ReadsAnything == TRUE      \* mutant: a truncated archive is accepted
Decodes == file = "good"
ReadSpec ==
    /\ stage = "read" /\ Decodes
    /\ spec' = file
    /\ Go("init")
    /\ UNCHANGED <<kvars, config, file, maps, calls, queue, starts, changes, chosen, wanted, trouble>>

(* InitWithOptions and selectMaps; then loadFilters.                       *)
InitManager ==
    /\ stage = "init"
    /\ Go("symbols")
    /\ phase' = "check"
    /\ UNCHANGED <<kptr, mods, host, saved, table, config, file, spec, maps, calls, queue,
                   starts, changes, chosen, wanted, trouble>>

(* One step of loadKernelSymbols, at start-up or in the event handler.     *)
LoadSymbols ==
    /\ stage \in {"symbols", "running"}
    /\ loadKernelSymbols
    /\ trouble' = IF phase' = "failed" THEN trouble \cup {"load"} ELSE trouble
    /\ UNCHANGED <<stage, config, file, spec, maps, calls, queue, starts, changes, chosen, wanted>>

SymbolsLoaded ==
    /\ stage = "symbols" /\ phase = "done"
    /\ Go("policies")
    /\ phase' = "idle" /\ maps' = maps \cup {"kallsyms"}
    /\ UNCHANGED <<kptr, mods, host, saved, table, config, file, spec, calls, queue,
                   starts, changes, chosen, wanted, trouble>>

(* loadPolicies, loadKernelParameters, loadSysCtlParameters.               *)
FilterOrder == <<"policies", "parameters", "sysctl", "attach">>
LoadFilter(i) ==
    /\ stage = FilterOrder[i] /\ i < Len(FilterOrder)
    /\ maps' = maps \cup {stage}
    /\ Go(FilterOrder[i + 1])
    /\ UNCHANGED <<kvars, config, file, spec, calls, queue, starts, changes, chosen, wanted, trouble>>

(* manager.Start.                                                          *)
Attach ==
    /\ stage = "attach"
    /\ Go("running")
    /\ UNCHANGED <<kvars, config, file, spec, maps, calls, queue, starts, changes, chosen, wanted, trouble>>

(* Any step may fail; krieCmd then returns without calling Stop.           *)
StartFails ==
    /\ \/ stage \in {"vmlinux", "copy", "init", "policies", "parameters", "sysctl", "attach"}
       \/ stage = "new" /\ ~config.valid
       \/ stage = "stat" /\ CacheMiss
       \/ stage = "read" /\ ~Decodes
       \/ stage = "symbols" /\ phase = "failed"
    /\ Exit({})
    /\ UNCHANGED <<kptr, mods, host, file, starts, changes, chosen, wanted>>

(* SIGINT is the only signal wait() catches: Stop, then exit.              *)
Stop ==
    /\ stage = "running" /\ phase = "idle"
    /\ Exit({})
    /\ UNCHANGED <<kptr, mods, host, file, starts, changes, chosen, wanted>>

Killed ==
    /\ stage # "off"
    /\ Exit(IF phase = "idle" THEN {} ELSE {"kill"})
    /\ UNCHANGED <<kptr, mods, host, file, starts, changes, chosen, wanted>>

-----------------------------------------------------------------------------
(* defaultEventHandler on an init_module or delete_module event: load the  *)
(* symbols again, ignore the error, write the line.                        *)
HandleModuleEvent ==
    /\ stage = "running" /\ phase = "idle" /\ queue > 0
    /\ queue' = queue - 1
    /\ phase' = "check"
    /\ UNCHANGED <<kptr, mods, host, saved, table, stage, config, file, spec, maps, calls,
                   starts, changes, chosen, wanted, trouble>>

EventHandledOnSuccess ==      \* mutant: the handler waits for a load that succeeds
    /\ stage = "running" /\ phase = "done"
    /\ phase' = "idle"
    /\ UNCHANGED <<kptr, mods, host, saved, table, stage, config, file, spec, maps, calls, queue,
                   starts, changes, chosen, wanted, trouble>>

EventHandled ==
    /\ stage = "running" /\ phase \in {"done", "failed"}
    /\ phase' = "idle"
    /\ UNCHANGED <<kptr, mods, host, saved, table, stage, config, file, spec, maps, calls, queue,
                   starts, changes, chosen, wanted, trouble>>

(* A module is loaded or unloaded while KRIe is starting or running (see   *)
(* BootModules for earlier ones). An activated event is sent when the call *)
(* returns, long after the module is there, and lost when the buffer is    *)
(* full. None is sent when the event is not activated or the programs are  *)
(* not attached yet, for KRIe, init and the idle task, and when a nested   *)
(* hook has taken the cached entry of the call (module SyscallCache).      *)
Reported(et) ==
    /\ stage = "running" /\ et \in config.events
    /\ calls' = calls + 1 /\ UNCHANGED trouble
Unreported ==
    /\ trouble' = IF table[1] # NoSymbol THEN trouble \cup {"lost"} ELSE trouble
    /\ UNCHANGED calls
Notify(et) ==
    /\ stage # "off"
    /\ changes < MaxChanges /\ changes' = changes + 1
    /\ Reported(et) \/ Unreported
    /\ UNCHANGED <<stage, config, file, spec, maps, queue, starts, chosen, wanted>>

KernelLoads(m, a) == LoadModule(m, a) /\ Notify("init_module")
KernelUnloads(m) == UnloadModule(m) /\ Notify("delete_module")

ModuleCallReturns ==
    /\ calls > 0 /\ calls' = calls - 1
    /\ \/ queue < QueueCap /\ queue' = queue + 1 /\ UNCHANGED trouble
       \/ queue = QueueCap /\ trouble' = trouble \cup {"lost"} /\ UNCHANGED queue
    /\ UNCHANGED <<kvars, stage, config, file, spec, maps, starts, changes, chosen, wanted>>

AdminSets(v) ==
    /\ changes < MaxChanges /\ changes' = changes + 1
    /\ SetRestriction(v)
    /\ wanted' = v /\ chosen' = chosen \cup {v}
    /\ trouble' = IF starts > 0 THEN trouble \cup {"admin"} ELSE trouble
    /\ UNCHANGED <<stage, config, file, spec, maps, calls, queue, starts>>

-----------------------------------------------------------------------------
MainStep == ParseConfig \/ NewKRIE \/ LoadVMLinux \/ StatCache \/ CopyBody \/ ReadSpec
            \/ InitManager \/ SymbolsLoaded \/ (\E i \in DOMAIN FilterOrder : LoadFilter(i)) \/ Attach
            \/ StartFails
HandlerStep == HandleModuleEvent \/ LoadSymbols \/ EventHandled
Environment == \/ \E m \in Modules, a \in Addr : KernelLoads(m, a)
               \/ \E m \in Modules : KernelUnloads(m)
               \/ ModuleCallReturns
               \/ \E v \in {0, 1, 2} : AdminSets(v)

Next == MainStep \/ HandlerStep \/ Stop \/ Killed \/ Environment

(* The scheduler runs both goroutines; signals and changes need not come.  *)
Spec == Init /\ [][Next]_vars /\ WF_vars(HandlerStep)

-----------------------------------------------------------------------------
(* kptr_restrict is lowered only for the time of a load: unless a load     *)
(* failed, was killed or raced the administrator, the host has the value   *)
(* the administrator wants again before the addresses are pushed. Whatever *)
(* fails, the host has 0 or a value the administrator chose at some time.  *)
RestrictionRestored ==
    /\ kptr \in chosen \cup {0}
    /\ (trouble \cap {"load", "kill", "admin"} = {} /\ phase \notin {"parse", "reset"})
         => kptr = wanted

(* The programs run only once every map they decide with has been filled   *)
(* and their types come from a complete BTF specification, whatever a      *)
(* previous start left in the cache.                                       *)
RunningIsReady ==
    stage = "running" => /\ maps = {"kallsyms", "policies", "parameters", "sysctl"}
                         /\ spec = "good"

(* A complete cache file is never downloaded again or damaged.             *)
GoodCacheKept == [][file = "good" => file' = "good"]_vars

(* When the calls that changed the modules have returned, their events     *)
(* have been handled and no change went unreported (Unreported lists the   *)
(* ways), the address of a loaded module resolves to it; any other answer  *)
(* is a symbol that the kernel does not have any more.                     *)
Settled == /\ stage = "running" /\ phase = "idle" /\ calls = 0 /\ queue = 0
           /\ trouble \cap {"load", "lost"} = {}
LoadedModulesResolved ==
    Settled => \A m \in Modules : mods[m] # NotLoaded =>
        /\ mods[m] \in resolveFuncSymbol(mods[m])
        /\ table[mods[m]].owner = m
        /\ \A a \in resolveFuncSymbol(mods[m]) \ {mods[m]} : ~SymbolAt(a)

(* A module event that reached the buffer is handled, or KRIe ends.        *)
EventsHandled == (stage = "running" /\ queue > 0) ~> (queue = 0 \/ stage = "off")
=============================================================================
