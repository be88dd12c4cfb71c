---------------------------- MODULE LoaderProofs ----------------------------
(***************************************************************************)
(* Proofs about the life of the process, for any modules, hosts,           *)
(* configurations and number of starts.                                    *)
(***************************************************************************)
EXTENDS Loader, WellFoundedInduction, TLAPS

(* The maps that loadFilters has filled when the main goroutine comes to a *)
(* step, and the steps that come after the BTF specification is chosen.    *)
Filled(s) == CASE s = "policies" -> {"kallsyms"}
               [] s = "parameters" -> {"kallsyms", "policies"}
               [] s = "sysctl" -> {"kallsyms", "policies", "parameters"}
               [] s \in {"attach", "running"} -> {"kallsyms", "policies", "parameters", "sysctl"}
               [] OTHER -> {}
Specified == {"init", "symbols", "policies", "parameters", "sysctl", "attach", "running"}

(* RunningIsReady is not inductive: a step to "running" relies on what the *)
(* steps before it have left. This says it of each of them.                *)
StepInv == /\ maps = Filled(stage)
           /\ stage \in Specified => spec = "good"

(* A run of the programs begins only after loadFilters has filled every    *)
(* map and a complete BTF specification was read, whatever failed before.  *)
THEOREM RunsOnlyWhenReady == Spec => []RunningIsReady
<1>1. Init => StepInv
  BY DEF Init, StepInv, Filled, Specified
<1>2. StepInv /\ [Next]_vars => StepInv'
  <2> SUFFICES ASSUME StepInv, [Next]_vars PROVE StepInv'
    OBVIOUS
  <2> USE DEF StepInv, Specified
  <2>1. ASSUME maps' = {}, stage' \notin Specified PROVE StepInv'
    BY <2>1 DEF Filled
  <2>2. ASSUME UNCHANGED <<stage, maps, spec>> PROVE StepInv'
    BY <2>2 DEF Filled
  <2>3. CASE ParseConfig
    BY <2>3 DEF ParseConfig, Filled
  <2>4. CASE NewKRIE
    BY <2>4 DEF NewKRIE, Go, Filled
  <2>5. CASE LoadVMLinux
    BY <2>5 DEF LoadVMLinux, Go, Filled
  <2>6. CASE StatCache
    BY <2>6 DEF StatCache, Go, Filled
  <2>7. CASE CopyBody
    BY <2>7 DEF CopyBody, Go, Filled
  <2>8. CASE ReadSpec
    BY <2>8 DEF ReadSpec, Decodes, Go, Filled
  <2>9. CASE InitManager
    BY <2>9 DEF InitManager, Go, Filled
  <2>10. CASE SymbolsLoaded
    BY <2>10 DEF SymbolsLoaded, Go, Filled
  <2>11. ASSUME NEW i \in DOMAIN FilterOrder, LoadFilter(i) PROVE StepInv'
    <3>1. i \in 1..3 /\ Len(FilterOrder) = 4
      BY <2>11 DEF LoadFilter, FilterOrder
    <3>2. CASE i = 1
      BY <2>11, <3>2 DEF LoadFilter, FilterOrder, Go, Filled
    <3>3. CASE i = 2
      BY <2>11, <3>3 DEF LoadFilter, FilterOrder, Go, Filled
    <3>4. CASE i = 3
      BY <2>11, <3>4 DEF LoadFilter, FilterOrder, Go, Filled
    <3> QED BY <3>1, <3>2, <3>3, <3>4
  <2>12. CASE Attach
    BY <2>12 DEF Attach, Go, Filled
  <2>13. CASE StartFails \/ Stop \/ Killed
    BY <2>13, <2>1 DEF StartFails, Stop, Killed, Exit
  <2>14. CASE HandlerStep
    BY <2>14, <2>2 DEF HandlerStep, HandleModuleEvent, LoadSymbols, EventHandled
  <2>15. CASE Environment
    BY <2>15, <2>2 DEF Environment, KernelLoads, KernelUnloads, ModuleCallReturns, AdminSets, Notify
  <2>16. CASE UNCHANGED vars
    BY <2>16, <2>2 DEF vars, pvars
  <2> QED
    BY <2>3, <2>4, <2>5, <2>6, <2>7, <2>8, <2>9, <2>10, <2>11, <2>12, <2>13, <2>14, <2>15, <2>16
    DEF Next, MainStep
<1>3. StepInv => RunningIsReady
  BY DEF StepInv, RunningIsReady, Filled, Specified
<1> QED
  BY <1>1, <1>2, <1>3, PTL DEF Spec

(* The action property alone does not follow from a step: CopyBody writes  *)
(* to the file. It only ever runs on the file it has just created.         *)
CopyInv == stage = "copy" => file = "partial"

(* loadSpecFromBTFHub never writes to a cache file that is complete: no    *)
(* failure, kill or restart of the process damages it.                     *)
THEOREM GoodCacheNeverLost == Spec => GoodCacheKept
<1>1. Init => CopyInv
  BY DEF Init, CopyInv
<1>2. ASSUME CopyInv, [Next]_vars PROVE CopyInv' /\ (file = "good" => file' = "good")
  <2> USE <1>2 DEF CopyInv
  <2>1. ASSUME UNCHANGED file, stage' # "copy" \/ UNCHANGED stage
        PROVE  CopyInv' /\ (file = "good" => file' = "good")
    BY <2>1
  <2>2. CASE StatCache
    BY <2>2 DEF StatCache, CacheMiss, Go
  <2>3. CASE CopyBody
    BY <2>3 DEF CopyBody, Go
  <2>4. CASE ParseConfig \/ NewKRIE \/ ReadSpec \/ InitManager \/ SymbolsLoaded \/ Attach
    BY <2>1, <2>4 DEF ParseConfig, NewKRIE, ReadSpec, InitManager, SymbolsLoaded, Attach, Go
  <2>5. CASE LoadVMLinux
    BY <2>1, <2>5 DEF LoadVMLinux, Go
  <2>6. ASSUME NEW i \in DOMAIN FilterOrder, LoadFilter(i)
        PROVE  CopyInv' /\ (file = "good" => file' = "good")
    <3>1. UNCHANGED file
      BY <2>6 DEF LoadFilter
    <3>2. stage' # "copy"
      BY <2>6 DEF LoadFilter, FilterOrder, Go
    <3> QED BY <2>1, <3>1, <3>2
  <2>7. CASE StartFails \/ Stop \/ Killed
    BY <2>1, <2>7 DEF StartFails, Stop, Killed, Exit
  <2>8. CASE HandlerStep
    BY <2>1, <2>8 DEF HandlerStep, HandleModuleEvent, LoadSymbols, EventHandled
  <2>9. CASE Environment
    BY <2>1, <2>9 DEF Environment, KernelLoads, KernelUnloads, ModuleCallReturns, AdminSets, Notify
  <2>10. CASE UNCHANGED vars
    BY <2>1, <2>10 DEF vars, pvars
  <2> QED
    BY <2>2, <2>3, <2>4, <2>5, <2>6, <2>7, <2>8, <2>9, <2>10 DEF Next, MainStep
<1> QED
  BY <1>1, <1>2, PTL DEF Spec, GoodCacheKept

-----------------------------------------------------------------------------
(* Where the setting is when it is not the administrator's: lowered by the *)
(* load in progress, which has saved it. A saved value is one the          *)
(* administrator chose, and the last one unless he changed it meanwhile.   *)
Clean == trouble \cap {"load", "kill", "admin"} = {}
Loading == {"parse", "reset"}
ValuesInv == kptr \in chosen \cup {0} /\ saved \in chosen \cup {0}
ProcessInv == /\ starts \in Nat
              /\ starts = 0 => stage = "off"
              /\ stage = "off" => saved = 0
              /\ phase # "idle" => stage \in {"symbols", "running"}
              /\ phase = "failed" => ~Clean
RestoreInv == Clean => /\ saved \in {0, wanted}
                       /\ phase \in Loading => kptr = wanted \/ (kptr = 0 /\ saved = wanted)
                       /\ phase \notin Loading => kptr = wanted
KptrInv == ValuesInv /\ ProcessInv /\ RestoreInv

(* A step of the process that is not part of a load leaves the setting and *)
(* what is known about it alone.                                           *)
LEMMA OutsideLoad ==
  ASSUME KptrInv, UNCHANGED <<kptr, saved, phase, starts, chosen, wanted, trouble>>,
         phase = "idle", stage # "off", stage' # "off"
  PROVE  KptrInv'
BY DEF KptrInv, ValuesInv, ProcessInv, RestoreInv, Clean, Loading

(* loadKernelSymbols: each of its steps, in the loader or in the handler.  *)
LEMMA InsideLoad ==
  ASSUME KptrInv, LoadSymbols
  PROVE  KptrInv'
<1> USE DEF KptrInv, ValuesInv, ProcessInv, RestoreInv, Clean, Loading
<1>1. CASE CheckAccess
  BY <1>1 DEF LoadSymbols, CheckAccess, saveKernelKPTRRestrict
<1>2. CASE ParseSymbols
  BY <1>2 DEF LoadSymbols, ParseSymbols
<1>3. CASE ResetRestriction
  BY <1>3 DEF LoadSymbols, ResetRestriction
<1>4. CASE PushSymbols
  BY <1>4 DEF LoadSymbols, PushSymbols
<1>5. CASE LoadFails
  BY <1>5 DEF LoadSymbols, LoadFails
<1> QED BY <1>1, <1>2, <1>3, <1>4, <1>5 DEF LoadSymbols, loadKernelSymbols

(* The process ends: outside a load, in a load that failed, or killed in a *)
(* load, which counts as trouble.                                          *)
LEMMA ProcessEnds ==
  ASSUME KptrInv, NEW reason, Exit(reason), UNCHANGED <<kptr, starts, chosen, wanted>>,
         phase = "idle" \/ (phase = "failed" /\ ~Clean) \/ reason = {"kill"}
  PROVE  KptrInv'
BY DEF KptrInv, ValuesInv, ProcessInv, RestoreInv, Clean, Loading, Exit

(* resetKernelKPTRRestrict gives the host back the administrator's value;  *)
(* RestrictionRestored holds in every state of any number of starts.       *)
THEOREM RestrictionAlwaysRestored == Spec => []RestrictionRestored
<1>1. Init => KptrInv
  BY DEF Init, KptrInv, ValuesInv, ProcessInv, RestoreInv, Clean, Loading
<1>2. KptrInv /\ [Next]_vars => KptrInv'
  <2> SUFFICES ASSUME KptrInv, [Next]_vars PROVE KptrInv'
    OBVIOUS
  <2>1. CASE ParseConfig
    BY <2>1 DEF ParseConfig, kvars, KptrInv, ValuesInv, ProcessInv, RestoreInv, Clean, Loading
  <2>2. CASE NewKRIE \/ LoadVMLinux \/ StatCache \/ CopyBody \/ ReadSpec \/ Attach
    BY <2>2, OutsideLoad
    DEF NewKRIE, LoadVMLinux, StatCache, CopyBody, ReadSpec, Attach, Go, kvars, KptrInv, ProcessInv
  <2>3. ASSUME NEW i \in DOMAIN FilterOrder, LoadFilter(i) PROVE KptrInv'
    <3>1. /\ stage \in {"policies", "parameters", "sysctl"} /\ stage' # "off"
          /\ UNCHANGED <<kvars, starts, chosen, wanted, trouble>>
      BY <2>3 DEF LoadFilter, FilterOrder, Go
    <3> QED BY <3>1, OutsideLoad DEF kvars, KptrInv, ProcessInv
  <2>4. CASE InitManager \/ SymbolsLoaded
    BY <2>4 DEF InitManager, SymbolsLoaded, Go, KptrInv, ValuesInv, ProcessInv, RestoreInv, Clean, Loading
  <2>5. CASE HandleModuleEvent \/ EventHandled
    BY <2>5 DEF HandleModuleEvent, EventHandled, KptrInv, ValuesInv, ProcessInv, RestoreInv, Clean, Loading
  <2>6. CASE LoadSymbols
    BY <2>6, InsideLoad
  <2>7. CASE StartFails \/ Stop
    <3>1. Exit({}) /\ UNCHANGED <<kptr, starts, chosen, wanted>>
      BY <2>7 DEF StartFails, Stop
    <3>2. phase = "idle" \/ phase = "failed"
      BY <2>7 DEF StartFails, Stop, KptrInv, ProcessInv
    <3>3. phase = "failed" => ~Clean
      BY DEF KptrInv, ProcessInv
    <3> QED BY <3>1, <3>2, <3>3, ProcessEnds
  <2>8. CASE Killed
    <3>1. CASE phase = "idle"
      <4>1. Exit({})
        BY <2>8, <3>1 DEF Killed, Exit
      <4> QED BY <2>8, <3>1, <4>1, ProcessEnds DEF Killed
    <3>2. CASE phase # "idle"
      <4>1. Exit({"kill"})
        BY <2>8, <3>2 DEF Killed, Exit
      <4> QED BY <2>8, <3>2, <4>1, ProcessEnds DEF Killed
    <3> QED BY <3>1, <3>2
  <2>9. CASE Environment
    <3>1. ASSUME NEW et, Notify(et), UNCHANGED <<kptr, saved, phase>> PROVE KptrInv'
      <4>1. UNCHANGED <<stage, starts, chosen, wanted>> /\ trouble' \in {trouble, trouble \cup {"lost"}}
        BY <3>1 DEF Notify, Reported, Unreported
      <4> QED BY <3>1, <4>1 DEF KptrInv, ValuesInv, ProcessInv, RestoreInv, Clean, Loading
    <3>3. CASE ModuleCallReturns
      <4>1. /\ UNCHANGED <<kvars, stage, starts, chosen, wanted>>
            /\ trouble' \in {trouble, trouble \cup {"lost"}}
        BY <3>3 DEF ModuleCallReturns
      <4> QED BY <4>1 DEF kvars, KptrInv, ValuesInv, ProcessInv, RestoreInv, Clean, Loading
    <3>2. ASSUME NEW v \in {0, 1, 2}, AdminSets(v) PROVE KptrInv'
      BY <3>2 DEF AdminSets, SetRestriction, KptrInv, ValuesInv, ProcessInv, RestoreInv, Clean, Loading
    <3> QED
      BY <2>9, <3>1, <3>2, <3>3 DEF Environment, KernelLoads, KernelUnloads, LoadModule, UnloadModule
  <2>10. CASE UNCHANGED vars
    BY <2>10 DEF vars, kvars, pvars, KptrInv, ValuesInv, ProcessInv, RestoreInv, Clean, Loading
  <2> QED
    BY <2>1, <2>2, <2>3, <2>4, <2>5, <2>6, <2>7, <2>8, <2>9, <2>10 DEF Next, MainStep, HandlerStep
<1>3. KptrInv => RestrictionRestored
  BY DEF KptrInv, ValuesInv, RestoreInv, Clean, Loading, RestrictionRestored
<1> QED
  BY <1>1, <1>2, <1>3, PTL DEF Spec

-----------------------------------------------------------------------------
(* kernelAddresses is fresh when it has every symbol of the kernel as it   *)
(* is now. It is, from the end of a parse on, unless a module came or went *)
(* since: then its call has not returned, its event waits, was lost or     *)
(* never sent, or the load that answers it is still to parse.              *)
Fresh == \A a \in SymbolAddrs : table[a] = [owner |-> OwnerAt(a), size |-> SizeAt(a)]
Parsed == \/ stage \in {"policies", "parameters", "sysctl", "attach", "running"}
          \/ phase \in {"reset", "push", "done"}
ModsInv == /\ mods \in [Modules -> (Addr \ {1}) \cup {NotLoaded}]
           /\ \A m, n \in Modules : mods[m] = mods[n] => m = n \/ mods[m] = NotLoaded
FreshInv == trouble \cap {"load", "lost"} = {} /\ Parsed
              => Fresh \/ calls > 0 \/ queue > 0 \/ phase \in {"check", "parse"}
HandlerInv == /\ queue \in 0..QueueCap /\ calls \in Nat
              /\ queue > 0 \/ calls > 0 => stage = "running"
              /\ DOMAIN table = Addr
              /\ Parsed => table[1] # NoSymbol
              /\ phase = "failed" => "load" \in trouble
              /\ phase # "idle" => stage \in {"symbols", "running"}
TableInv == ModsInv /\ HandlerInv /\ FreshInv

(* A nonempty set of addresses has a least one, which is its Min.          *)
LEMMA LeastIsMin ==
  ASSUME NEW S, S \subseteq Nat, S # {}
  PROVE  Min(S) \in S /\ \A y \in S : Min(S) <= y
<1> DEFINE R == {ss \in Nat \X Nat : ss[1] < ss[2]}
<1>1. IsWellFoundedOn(R, Nat)
  BY NatLessThanWellFounded DEF OpToRel
<1> HIDE DEF R
<1>2. PICK x \in S : \A y \in S : ~(<<y, x>> \in R)
  BY <1>1, WFMin
<1>3. ASSUME NEW y \in S PROVE x <= y
  <2>1. ASSUME y < x PROVE FALSE
    <3>1. <<y, x>> \in R
      BY <2>1 DEF R
    <3> QED BY <1>2, <3>1
  <2> QED BY <2>1
<1> QED BY <1>3 DEF Min

(* The size of a symbol: at least 1, and never past the next symbol.       *)
LEMMA SizesApart ==
  ASSUME NEW a \in SymbolAddrs
  PROVE  /\ SizeAt(a) \in Nat \ {0}
         /\ \A k \in SymbolAddrs : k > a => a + SizeAt(a) <= k
<1> DEFINE above == {b \in SymbolAddrs : b > a}
<1>1. a \in Nat /\ SymbolAddrs \subseteq Nat
  BY DEF SymbolAddrs, Addr
<1>2. CASE above = {}
  <2>1. SizeAt(a) = 1
    BY <1>2 DEF SizeAt
  <2> QED BY <1>2, <2>1
<1>3. CASE above # {}
  <2> DEFINE least == Min(above)
  <2>1. SizeAt(a) = least - a
    BY <1>3 DEF SizeAt
  <2>2. least \in above /\ \A y \in above : least <= y
    <3>1. above \subseteq Nat
      BY <1>1
    <3> HIDE DEF above
    <3> QED BY <1>3, <3>1, LeastIsMin
  <2> HIDE DEF least
  <2>3. least \in Nat /\ least > a
    BY <1>1, <2>2
  <2> QED BY <1>1, <2>1, <2>2, <2>3
<1> QED BY <1>2, <1>3

(* No module at the kernel's own address, and no two at one address: the   *)
(* owner of an address is the module loaded there.                         *)
LEMMA OwnerIsModule ==
  ASSUME ModsInv, NEW m \in Modules, mods[m] # NotLoaded
  PROVE  mods[m] \in SymbolAddrs /\ OwnerAt(mods[m]) = m
<1>1. mods[m] \in Addr /\ mods[m] # 1
  BY DEF ModsInv
<1>2. \A n \in Modules : mods[n] = mods[m] => n = m
  BY DEF ModsInv
<1>3. OwnerAt(mods[m]) = m
  BY <1>1, <1>2 DEF OwnerAt
<1> QED BY <1>1, <1>3 DEF SymbolAddrs, SymbolAt

(* A fresh table resolves every loaded module.                             *)
LEMMA FreshResolves ==
  ASSUME ModsInv, Fresh, NEW m \in Modules, mods[m] # NotLoaded
  PROVE  /\ mods[m] \in resolveFuncSymbol(mods[m])
         /\ table[mods[m]].owner = m
         /\ \A a \in resolveFuncSymbol(mods[m]) \ {mods[m]} : ~SymbolAt(a)
<1> DEFINE k == mods[m]
<1>1. k \in SymbolAddrs /\ OwnerAt(k) = m
  BY OwnerIsModule
<1>2. k \in Addr /\ k \in Nat
  BY <1>1 DEF SymbolAddrs, Addr
<1> HIDE DEF k
<1>3. table[k] = [owner |-> OwnerAt(k), size |-> SizeAt(k)]
  BY <1>1 DEF Fresh
<1>4. table[k].owner = m /\ table[k].size \in Nat \ {0}
  BY <1>1, <1>3, SizesApart
<1>5. k \in resolveFuncSymbol(k)
  <2>1. table[k] # NoSymbol
    BY <1>4 DEF NoSymbol
  <2> QED BY <1>2, <1>4, <2>1 DEF resolveFuncSymbol
<1>6. ASSUME NEW a \in resolveFuncSymbol(k), a # k, SymbolAt(a) PROVE FALSE
  <2>1. a \in Addr /\ a <= k /\ k < a + table[a].size
    BY <1>6 DEF resolveFuncSymbol
  <2>2. a \in SymbolAddrs /\ a \in Nat /\ k > a
    BY <1>2, <1>6, <2>1 DEF SymbolAddrs, Addr
  <2>3. table[a].size = SizeAt(a)
    <3>1. table[a] = [owner |-> OwnerAt(a), size |-> SizeAt(a)]
      BY <2>2 DEF Fresh
    <3> QED BY <3>1
  <2>4. SizeAt(a) \in Nat /\ a + SizeAt(a) <= k
    BY <1>1, <2>2, SizesApart
  <2> QED BY <1>2, <2>1, <2>2, <2>3, <2>4
<1> QED BY <1>4, <1>5, <1>6 DEF k

(* parseKallsyms leaves a fresh table that has the kernel's own symbol.    *)
LEMMA ParseIsFresh ==
  ASSUME table' = ParsedTable, UNCHANGED mods
  PROVE  Fresh' /\ DOMAIN table' = Addr /\ table'[1] # NoSymbol
<1>1. \A a : SymbolAt(a)' = SymbolAt(a) /\ OwnerAt(a)' = OwnerAt(a)
  BY DEF SymbolAt, OwnerAt
<1>2. SymbolAddrs' = SymbolAddrs
  BY <1>1 DEF SymbolAddrs
<1>3. \A a : SizeAt(a)' = SizeAt(a)
  BY <1>2 DEF SizeAt
<1>4. ASSUME NEW a \in SymbolAddrs
      PROVE  table'[a] = [owner |-> OwnerAt(a), size |-> SizeAt(a)]
  BY DEF ParsedTable, SymbolAddrs
<1>5. Fresh'
  BY <1>1, <1>2, <1>3, <1>4 DEF Fresh
<1>6. 1 \in SymbolAddrs
  BY KallsymsAssumption DEF SymbolAddrs, SymbolAt, Addr
<1>7. table'[1].size \in Nat \ {0}
  <2>1. table'[1] = [owner |-> OwnerAt(1), size |-> SizeAt(1)]
    BY <1>4, <1>6
  <2>2. SizeAt(1) \in Nat \ {0}
    BY <1>6, SizesApart
  <2> QED BY <2>1, <2>2
<1>8. DOMAIN table' = Addr
  BY DEF ParsedTable
<1> QED BY <1>5, <1>7, <1>8 DEF NoSymbol

(* Without a parse and without a change of the modules nothing changes.    *)
LEMMA SameTable ==
  ASSUME UNCHANGED <<mods, table>>
  PROVE  Fresh' = Fresh
<1>1. \A a : SymbolAt(a)' = SymbolAt(a) /\ OwnerAt(a)' = OwnerAt(a)
  BY DEF SymbolAt, OwnerAt
<1>2. SymbolAddrs' = SymbolAddrs
  BY <1>1 DEF SymbolAddrs
<1>3. \A a : SizeAt(a)' = SizeAt(a)
  BY <1>2 DEF SizeAt
<1> QED BY <1>1, <1>2, <1>3 DEF Fresh

(* Steps of the main goroutine and of the handler outside loadKernelSymbols *)
(* that do not end the process.                                            *)
LEMMA QuietStep ==
  ASSUME TableInv, UNCHANGED <<mods, table, calls, trouble>>,
         queue' \in 0..QueueCap, queue' > 0 \/ calls > 0 => stage' = "running",
         Parsed' => Parsed,
         phase' = "failed" => phase = "failed",
         phase' # "idle" => stage' \in {"symbols", "running"},
         UNCHANGED <<queue, phase>> \/ phase' = "check" \/ (phase = "done" /\ UNCHANGED queue)
                                    \/ (phase = "failed" /\ UNCHANGED queue)
  PROVE  TableInv'
<1>1. Fresh' = Fresh
  BY SameTable
<1>2. ModsInv'
  BY DEF TableInv, ModsInv
<1>3. HandlerInv'
  BY DEF TableInv, HandlerInv
<1>4. FreshInv'
  BY <1>1 DEF TableInv, FreshInv, HandlerInv
<1> QED BY <1>2, <1>3, <1>4 DEF TableInv

LEMMA LoadStep ==
  ASSUME TableInv, LoadSymbols
  PROVE  TableInv'
<1>1. /\ UNCHANGED <<stage, calls, queue, mods>>
      /\ trouble' = IF phase' = "failed" THEN trouble \cup {"load"} ELSE trouble
  BY DEF LoadSymbols, loadKernelSymbols, CheckAccess, ParseSymbols, ResetRestriction, PushSymbols, LoadFails
<1>2. ModsInv'
  BY <1>1 DEF TableInv, ModsInv
<1>3. stage \in {"symbols", "running"}
  BY DEF LoadSymbols
<1>4. CASE ParseSymbols
  <2>1. phase' = "reset" /\ table' = ParsedTable
    BY <1>4 DEF ParseSymbols
  <2>2. Fresh' /\ DOMAIN table' = Addr /\ table'[1] # NoSymbol
    BY <1>1, <2>1, ParseIsFresh
  <2>3. HandlerInv'
    BY <1>1, <1>3, <2>1, <2>2 DEF TableInv, HandlerInv
  <2> QED BY <1>2, <2>2, <2>3 DEF TableInv, FreshInv
<1>5. CASE CheckAccess \/ ResetRestriction \/ PushSymbols
  <2>1. /\ UNCHANGED table
        /\ \/ phase = "check" /\ phase' = "parse"
           \/ phase \in {"reset", "push"} /\ phase' \in {"push", "done"}
    BY <1>5 DEF CheckAccess, ResetRestriction, PushSymbols
  <2>2. Fresh' = Fresh
    BY <1>1, <2>1, SameTable
  <2>3. HandlerInv'
    BY <1>1, <1>3, <2>1 DEF TableInv, HandlerInv, Parsed
  <2>4. FreshInv'
    BY <1>1, <2>1, <2>2 DEF TableInv, FreshInv, Parsed
  <2> QED BY <1>2, <2>3, <2>4 DEF TableInv
<1>6. CASE LoadFails
  <2>1. UNCHANGED table /\ phase' = "failed" /\ "load" \in trouble'
    BY <1>1, <1>6 DEF LoadFails
  <2>2. HandlerInv'
    BY <1>1, <1>3, <2>1 DEF TableInv, HandlerInv, Parsed
  <2> QED BY <1>2, <2>1, <2>2 DEF TableInv, FreshInv
<1> QED BY <1>4, <1>5, <1>6 DEF LoadSymbols, loadKernelSymbols

(* A module comes or goes: its call is to return, or is not reported.      *)
LEMMA ModuleStep ==
  ASSUME TableInv, ModsInv', NEW et, Notify(et), UNCHANGED <<table, phase>>
  PROVE  TableInv'
<1>1. /\ stage # "off" /\ UNCHANGED <<stage, queue>>
      /\ \/ stage = "running" /\ calls' = calls + 1 /\ UNCHANGED trouble
         \/ Unreported
  BY DEF Notify, Reported
<1>2. queue \in 0..QueueCap /\ calls \in Nat
  BY DEF TableInv, HandlerInv
<1>3. CASE stage = "running" /\ calls' = calls + 1 /\ UNCHANGED trouble
  <2>1. HandlerInv' /\ calls' > 0
    BY <1>1, <1>2, <1>3 DEF TableInv, HandlerInv, Parsed
  <2> QED BY <2>1 DEF TableInv, FreshInv
<1>4. CASE Unreported
  <2>1. HandlerInv'
    BY <1>1, <1>2, <1>4 DEF Unreported, TableInv, HandlerInv, Parsed
  <2>2. CASE table[1] # NoSymbol
    BY <1>4, <2>1, <2>2 DEF Unreported, TableInv, FreshInv
  <2>3. CASE table[1] = NoSymbol
    <3>1. ~Parsed
      BY <2>3 DEF TableInv, HandlerInv
    <3>2. ~Parsed'
      BY <1>1, <3>1 DEF Parsed
    <3> QED BY <2>1, <3>2 DEF TableInv, FreshInv
  <2> QED BY <2>2, <2>3
<1> QED BY <1>1, <1>3, <1>4

(* The call returns: its event waits, or was lost.                         *)
LEMMA ReturnStep ==
  ASSUME TableInv, ModuleCallReturns
  PROVE  TableInv'
<1>1. /\ UNCHANGED <<mods, table, phase, stage>> /\ calls > 0 /\ calls' = calls - 1
      /\ \/ queue < QueueCap /\ queue' = queue + 1 /\ UNCHANGED trouble
         \/ trouble' = trouble \cup {"lost"} /\ UNCHANGED queue
  BY DEF ModuleCallReturns, kvars
<1>2. queue \in 0..QueueCap /\ calls \in Nat /\ QueueCap \in Nat
  BY LoaderAssumption DEF TableInv, HandlerInv
<1>3. ModsInv' /\ HandlerInv'
  BY <1>1, <1>2 DEF TableInv, ModsInv, HandlerInv, Parsed
<1>4. queue' > 0 \/ "lost" \in trouble'
  BY <1>1, <1>2
<1> QED BY <1>3, <1>4 DEF TableInv, FreshInv

LEMMA ModulesApart ==
  ASSUME ModsInv, NEW m \in Modules
  PROVE  /\ UnloadModule(m) => ModsInv'
         /\ \A a \in Addr : LoadModule(m, a) => ModsInv'
<1>1. ASSUME UnloadModule(m) PROVE ModsInv'
  BY <1>1 DEF ModsInv, UnloadModule, NotLoaded
<1>2. ASSUME NEW a \in Addr, LoadModule(m, a) PROVE ModsInv'
  <2>1. a # 1 /\ \A n \in Modules : mods[n] # a
    BY <1>2 DEF LoadModule, SymbolAt
  <2> QED BY <1>2, <2>1 DEF ModsInv, LoadModule
<1> QED BY <1>1, <1>2

(* parseKallsyms, resolveFuncSymbol, defaultEventHandler: once every call  *)
(* that changed the modules was reported and its event handled, an address *)
(* of a loaded module resolves to it.                                      *)
THEOREM ModulesAlwaysResolved == Spec => []LoadedModulesResolved
<1>1. Init => TableInv
  BY LoaderAssumption DEF Init, TableInv, ModsInv, HandlerInv, FreshInv, Parsed
<1>2. TableInv /\ [Next]_vars => TableInv'
  <2> SUFFICES ASSUME TableInv, [Next]_vars PROVE TableInv'
    OBVIOUS
  <2>1. /\ queue \in 0..QueueCap /\ QueueCap \in Nat /\ calls \in Nat
        /\ queue > 0 \/ calls > 0 => stage = "running"
        /\ phase # "idle" => stage \in {"symbols", "running"}
    BY LoaderAssumption DEF TableInv, HandlerInv
  <2>2. CASE ParseConfig \/ NewKRIE \/ LoadVMLinux \/ StatCache \/ CopyBody \/ ReadSpec \/ InitManager \/ Attach
    BY <2>1, <2>2, QuietStep
    DEF ParseConfig, NewKRIE, LoadVMLinux, StatCache, CopyBody, ReadSpec, InitManager, Attach, Go, kvars, Parsed
  <2>3. CASE SymbolsLoaded
    BY <2>1, <2>3, QuietStep DEF SymbolsLoaded, Go, Parsed
  <2>4. ASSUME NEW i \in DOMAIN FilterOrder, LoadFilter(i) PROVE TableInv'
    <3>1. /\ stage \in {"policies", "parameters", "sysctl"} /\ stage' \in {"parameters", "sysctl", "attach"}
          /\ UNCHANGED <<kvars, calls, queue, trouble>>
      BY <2>4 DEF LoadFilter, FilterOrder, Go
    <3> QED BY <2>1, <3>1, QuietStep DEF kvars, Parsed
  <2>5. CASE HandleModuleEvent \/ EventHandled
    BY <2>1, <2>5, QuietStep DEF HandleModuleEvent, EventHandled, Parsed
  <2>6. CASE LoadSymbols
    BY <2>6, LoadStep
  <2>7. CASE StartFails \/ Stop \/ Killed
    <3>1. stage' = "off" /\ phase' = "idle" /\ calls' = 0 /\ queue' = 0 /\ DOMAIN table' = Addr /\ UNCHANGED mods
      BY <2>7 DEF StartFails, Stop, Killed, Exit
    <3> QED BY <2>1, <3>1 DEF TableInv, ModsInv, HandlerInv, FreshInv, Parsed
  <2>8. CASE Environment
    <3>1. ASSUME NEW m \in Modules, NEW a \in Addr, KernelLoads(m, a) PROVE TableInv'
      BY <3>1, ModulesApart, ModuleStep DEF KernelLoads, LoadModule, TableInv
    <3>2. ASSUME NEW m \in Modules, KernelUnloads(m) PROVE TableInv'
      BY <3>2, ModulesApart, ModuleStep DEF KernelUnloads, UnloadModule, TableInv
    <3>3. ASSUME NEW v \in {0, 1, 2}, AdminSets(v) PROVE TableInv'
      <4>1. UNCHANGED <<mods, table, phase, calls, queue, stage>> /\ (trouble' = trouble \/ trouble' = trouble \cup {"admin"})
        BY <3>3 DEF AdminSets, SetRestriction
      <4>2. Fresh' = Fresh
        BY <4>1, SameTable
      <4>3. HandlerInv' /\ ModsInv'
        BY <4>1 DEF TableInv, HandlerInv, ModsInv, Parsed
      <4>4. FreshInv'
        BY <4>1, <4>2 DEF TableInv, FreshInv, Parsed
      <4> QED BY <4>3, <4>4 DEF TableInv
    <3>4. CASE ModuleCallReturns
      BY <3>4, ReturnStep
    <3> QED BY <2>8, <3>1, <3>2, <3>3, <3>4 DEF Environment
  <2>9. CASE UNCHANGED vars
    BY <2>1, <2>9, QuietStep DEF vars, kvars, pvars, Parsed
  <2> QED
    BY <2>2, <2>3, <2>4, <2>5, <2>6, <2>7, <2>8, <2>9 DEF Next, MainStep, HandlerStep
<1>3. ASSUME TableInv PROVE LoadedModulesResolved
  <2>1. ASSUME Settled PROVE Fresh
    BY <1>3, <2>1 DEF Settled, TableInv, FreshInv, Parsed, HandlerInv
  <2> QED BY <1>3, <2>1, FreshResolves DEF LoadedModulesResolved, TableInv
<1> QED BY <1>1, <1>2, <1>3, PTL DEF Spec
=============================================================================
