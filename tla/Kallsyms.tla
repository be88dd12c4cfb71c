------------------------------ MODULE Kallsyms ------------------------------
(***************************************************************************)
(* Kernel symbols (kallsyms.go): loadKernelSymbols lowers                  *)
(* kernel.kptr_restrict when the addresses are hidden, parses              *)
(* /proc/kallsyms, restores the setting and pushes the addresses of the    *)
(* syscall tables to the programs; events are later attributed to the      *)
(* symbol, hence the module, that covers an address. The setting belongs   *)
(* to the host: it outlives KRIe, and the administrator changes it too.    *)
(***************************************************************************)
EXTENDS Integers, FiniteSets, FiniteSetsExt

CONSTANTS Modules,   \* kernel modules, each with one function symbol
          MaxAddr    \* addresses are 1..MaxAddr; 1 is the kernel's own text

ASSUME KallsymsAssumption == MaxAddr \in Nat /\ MaxAddr > 1 /\ "system" \notin Modules

Addr == 1..MaxAddr
NotLoaded == 0
NoSymbol == [owner |-> "none", size |-> 0]

VARIABLES kptr,       \* the host's kernel.kptr_restrict
          mods,       \* where the kernel has loaded each module
          host,       \* what the process may do: [syslog, perf, ia32]
          saved,      \* e.kernelKPTRRestrict, 0 when empty
          table,      \* e.kernelAddresses
          phase       \* progress of loadKernelSymbols

kvars == <<kptr, mods, host, saved, table, phase>>

(* /proc/kallsyms. Addresses read as 0 unless the setting and the          *)
(* capabilities of the reader allow it.                                    *)
SymbolAt(a) == a = 1 \/ \E m \in Modules : mods[m] = a
OwnerAt(a) == IF a = 1 THEN "system" ELSE CHOOSE m \in Modules : mods[m] = a
SymbolAddrs == {a \in Addr : SymbolAt(a)}
AddressesVisible == \/ kptr = 0 /\ (host.perf \/ host.syslog)
                    \/ kptr = 1 /\ host.syslog

-----------------------------------------------------------------------------
(* symbolAddressesAccessCheck.                                             *)
SaveZero(val) == saved' = 0      \* mutant: nothing remembered
saveKernelKPTRRestrict(val) == saved' = val
Hidden == kptr = 2 \/ (kptr = 1 /\ ~host.syslog)

CheckAccess ==
    /\ phase = "check"
    /\ phase' = "parse"
    /\ \/ Hidden /\ saveKernelKPTRRestrict(kptr) /\ kptr' = 0
       \/ ~Hidden /\ UNCHANGED <<saved, kptr>>
    /\ UNCHANGED <<mods, host, table>>

(* parseKallsyms: every symbol is added again, none is removed; a function *)
(* extends to the next symbol, the last one has size 1.                    *)
SizeAt(a) ==
    LET above == {b \in SymbolAddrs : b > a}
    IN  IF above = {} THEN 1 ELSE Min(above) - a

OnlyNewSymbols ==      \* mutant: a known address is not parsed again
    [a \in Addr |-> IF SymbolAt(a) /\ table[a] = NoSymbol THEN [owner |-> OwnerAt(a), size |-> SizeAt(a)]
                    ELSE table[a]]
ParsedTable == [a \in Addr |-> IF SymbolAt(a) THEN [owner |-> OwnerAt(a), size |-> SizeAt(a)]
                               ELSE table[a]]

ParseSymbols ==
    /\ phase = "parse"
    /\ AddressesVisible
    /\ table' = ParsedTable
    /\ phase' = "reset"
    /\ UNCHANGED <<kptr, mods, host, saved>>

(* resetKernelKPTRRestrict: the saved value is written even when this load *)
(* did not lower the setting.                                              *)
ResetRestriction ==
    /\ phase = "reset"
    /\ phase' = "push"
    /\ kptr' = IF saved # 0 THEN saved ELSE kptr
    /\ UNCHANGED <<mods, host, saved, table>>

(* pushKernelSymbols: the x32 table is optional, the others are not.       *)
PushSymbols ==
    /\ phase = "push"
    /\ host.ia32
    /\ phase' = "done"
    /\ UNCHANGED <<kptr, mods, host, saved, table>>

(* The early returns: the file cannot be read or shows no address, a       *)
(* setting cannot be written, a table is missing or cannot be put in the   *)
(* map.                                                                    *)
LoadFails ==
    /\ \/ phase \in {"check", "parse", "push"}
       \/ phase = "reset" /\ saved # 0
    /\ phase' = "failed"
    /\ saved' \in {saved} \cup (IF phase = "check" /\ Hidden THEN {kptr} ELSE {})
    /\ UNCHANGED <<kptr, mods, host, table>>

loadKernelSymbols == CheckAccess \/ ParseSymbols \/ ResetRestriction \/ PushSymbols \/ LoadFails

(* resolveFuncSymbol walks a Go map, in any order: any symbol that covers  *)
(* the address may be the answer.                                          *)
resolveFuncSymbol(k) ==
    {a \in Addr : table[a] # NoSymbol /\ a <= k /\ k < a + table[a].size}

(* The kernel loads and unloads modules, the administrator sets the        *)
(* restriction.                                                            *)
LoadModule(m, a) ==
    /\ mods[m] = NotLoaded /\ ~SymbolAt(a)
    /\ mods' = [mods EXCEPT ![m] = a]
    /\ UNCHANGED <<kptr, host, saved, table, phase>>
UnloadModule(m) ==
    /\ mods[m] # NotLoaded
    /\ mods' = [mods EXCEPT ![m] = NotLoaded]
    /\ UNCHANGED <<kptr, host, saved, table, phase>>
SetRestriction(v) ==
    /\ kptr # v /\ kptr' = v
    /\ UNCHANGED <<mods, host, saved, table, phase>>
=============================================================================
