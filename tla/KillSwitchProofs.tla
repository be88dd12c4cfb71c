-------------------------- MODULE KillSwitchProofs --------------------------
(***************************************************************************)
(* Proofs about KillSwitch for any set of CPUs, pids, event types,         *)
(* attached programs and configurations.                                   *)
(***************************************************************************)
EXTENDS KillSwitch, TLAPS

Starts(c) == \E name \in DOMAIN Program, p \in Pid :
               \E o \in Context(name, p) : Start(c, name, p, o)

(***************************************************************************)
(* Facts about the operators.                                              *)
(***************************************************************************)

(* fetch_policy_or_block, fetch_policy_or_log: whatever a check finds, its *)
(* verdict is one of the five actions.                                     *)
LEMMA VerdictType ==
  ASSUME policies \in [EventType -> Action], NEW name, NEW v \in Verdict(name)
  PROVE  v \in Action
BY DEF Verdict, Action, fetch_policy_or_block, fetch_policy_or_log, NOP, LOG, BLOCK, Missing

(* The comparisons of krie_run_event_check keep an action an action, and   *)
(* never lower it.                                                         *)
LEMMA LargerType ==
  ASSUME NEW a \in Action, NEW b \in Action
  PROVE  /\ Larger(a, b) \in Action
         /\ Larger(a, b) >= a
         /\ Larger(a, b) >= b
BY DEF Larger, Action

(* enforce_policy does nothing to KRIe, init or idle.                      *)
LEMMA ExemptUntouched ==
  ASSUME NEW pid \in Exempt, NEW action, NEW type, NEW hook
  PROVE  enforce_policy(pid, action, type, hook) = {}
BY DEF Exempt, enforce_policy, filter_krie_runtime_with_pid, NOP, BLOCK, KILL, PARANOID

(* Whatever process a context is of, it has a pid.                         *)
LEMMA ContextType == ASSUME NEW name, NEW p \in Pid PROVE Context(name, p) \subseteq Pid
BY DEF Context

(* An update of the one-entry map never removes an entry, changes at most  *)
(* the key it is given, and keeps the map's type.                          *)
LEMMA UpdateKeeps ==
  ASSUME NEW m \in [Pid -> StoredAction], NEW key \in Pid,
         NEW action \in {KILL, PARANOID}
  PROVE  LET n == UpdateOneEntryMap(m, key, action)
         IN  /\ n \in [Pid -> StoredAction]
             /\ \A p \in Pid : m[p] # NOP => n[p] # NOP
             /\ \A p \in Pid \ {key} : n[p] = m[p]
BY DEF UpdateOneEntryMap, StoredAction, NOP, KILL, PARANOID

(* A run that moves on with a raised action is still a run.                *)
LEMMA RaisedRun ==
  ASSUME run \in [Cpu -> Run], NEW c \in Cpu, NEW a \in Action,
         NEW pc \in {"idle", "set", "process", "global", "enforce"}
  PROVE  [run EXCEPT ![c] = [run[c] EXCEPT !.pc = pc, !.action = a]] \in [Cpu -> Run]
<1>1. [run[c] EXCEPT !.pc = pc, !.action = a] \in Run
  BY DEF Run
<1> QED
  BY <1>1

-----------------------------------------------------------------------------
(* Every variable keeps its type, in every reachable state.                *)
THEOREM TypeCorrect == Spec => []TypeOK
<1>1. Init => TypeOK
  BY KillSwitchAssumption
  DEF Init, TypeOK, ValidPolicies, Run, Idle, Action, StoredAction, NOP, Program
<1>2. TypeOK /\ [Next]_vars => TypeOK'
  <2> SUFFICES ASSUME TypeOK, [Next]_vars PROVE TypeOK'
    OBVIOUS
  <2>1. ASSUME NEW c \in Cpu, NEW name \in DOMAIN Program, NEW p \in Pid,
               NEW o \in Context(name, p), Start(c, name, p, o)
        PROVE  TypeOK'
    <3>1. PICK v \in Verdict(name) :
            run' = [run EXCEPT ![c] =
                 [pc |-> IF Program[name].latches THEN "set"
                         ELSE IF Program[name].heeds THEN "process" ELSE "enforce",
                  name |-> name, task |-> p, pid |-> o, action |-> v,
                  atStart |-> get_global_kill_switch]]
      BY <2>1 DEF Start
    <3>2. v \in Action
      BY VerdictType DEF TypeOK
    <3>3. get_global_kill_switch \in StoredAction
      BY KillSwitchAssumption DEF TypeOK, get_global_kill_switch
    <3>4. run' \in [Cpu -> Run]
      BY <3>1, <3>2, <3>3, ContextType DEF TypeOK, Run
    <3> QED
      BY <2>1, <3>4 DEF Start, TypeOK
  <2>2. ASSUME NEW c \in Cpu, SetSwitch(c) PROVE TypeOK'
    <3>1. run[c] \in Run /\ run[c].pid \in Pid
      BY DEF TypeOK, Run
    <3>2. global_kill_switch' \in [Pid -> StoredAction] /\ UNCHANGED process_kill_switch
      BY <2>2, <3>1, UpdateKeeps, KillSwitchAssumption
      DEF SetSwitch, TypeOK, set_process_kill_switch, set_global_kill_switch
    <3>3. run' \in [Cpu -> Run]
      BY <2>2, <3>1 DEF SetSwitch, TypeOK, Run
    <3> QED
      BY <2>2, <3>2, <3>3 DEF SetSwitch, TypeOK
  <2>3. ASSUME NEW c \in Cpu, HeedProcessSwitch(c) PROVE TypeOK'
    <3>1. Larger(run[c].action, get_process_kill_switch(run[c].pid)) \in Action
      BY LargerType DEF TypeOK, Run, get_process_kill_switch
    <3>2. run' \in [Cpu -> Run]
      <4>1. run' = [run EXCEPT ![c] = [run[c] EXCEPT !.pc = "global",
                      !.action = Larger(run[c].action, get_process_kill_switch(run[c].pid))]]
        BY <2>3 DEF HeedProcessSwitch
      <4> QED
        BY <4>1, <3>1, RaisedRun DEF TypeOK
    <3> QED
      BY <2>3, <3>2 DEF HeedProcessSwitch, TypeOK
  <2>4. ASSUME NEW c \in Cpu, HeedGlobalSwitch(c) PROVE TypeOK'
    <3>1. get_global_kill_switch \in Action
      BY KillSwitchAssumption DEF TypeOK, get_global_kill_switch, Action, StoredAction, NOP, KILL, PARANOID
    <3>2. Larger(run[c].action, get_global_kill_switch) \in Action
      BY <3>1, LargerType DEF TypeOK, Run
    <3>3. run' \in [Cpu -> Run]
      <4>1. run' = [run EXCEPT ![c] = [run[c] EXCEPT !.pc = "enforce",
                      !.action = Larger(run[c].action, get_global_kill_switch)]]
        BY <2>4 DEF HeedGlobalSwitch
      <4> QED
        BY <4>1, <3>2, RaisedRun DEF TypeOK
    <3> QED
      BY <2>4, <3>3 DEF HeedGlobalSwitch, TypeOK
  <2>5. ASSUME NEW c \in Cpu, Enforce(c) PROVE TypeOK'
    <3>1. Idle \in Run
      BY KillSwitchAssumption DEF Idle, Run, Program, Action, StoredAction, NOP
    <3>2. run[c].pid \in Pid /\ run[c].task \in Pid
      BY DEF TypeOK, Run
    <3> QED
      BY <2>5, <3>1, <3>2 DEF Enforce, TypeOK
  <2>8. ASSUME NEW c \in Cpu, Refuse(c) PROVE TypeOK'
    <3>1. Idle \in Run
      BY KillSwitchAssumption DEF Idle, Run, Program, Action, StoredAction, NOP
    <3> QED
      BY <2>8, <3>1 DEF Refuse, TypeOK
  <2>6. ASSUME NEW p \in Pid, Exit(p) \/ Fork(p) PROVE TypeOK'
    BY <2>6 DEF Exit, Fork, TypeOK
  <2>7. CASE UNCHANGED vars
    BY <2>7 DEF vars, TypeOK
  <2> QED
    BY <2>1, <2>2, <2>3, <2>4, <2>5, <2>6, <2>7, <2>8 DEF Next, Step
<1> QED
  BY <1>1, <1>2, PTL DEF Spec

-----------------------------------------------------------------------------
(* A run is one of an attached program, with a context that program can    *)
(* find; only cgroup_sysctl may find one of another process, and it is the *)
(* program type that never signals.                                        *)
ContextInv ==
  \A c \in Cpu : run[c].pc # "idle" =>
    run[c].name \in Attached /\ run[c].pid \in Context(run[c].name, run[c].task)

LEMMA NoSignalBySysctl ==
  ASSUME NEW pid, NEW action
  PROVE  "signal" \notin enforce_policy(pid, action, Program["cgroup_sysctl"].type,
                                        Program["cgroup_sysctl"].hook)
<1>1. cgroup_sysctl.type = "cgroup_sysctl"
  BY DEF cgroup_sysctl, Check
<1>2. Program["cgroup_sysctl"] = cgroup_sysctl
  BY DEF Program
<1> QED
  BY <1>1, <1>2 DEF enforce_policy

LEMMA ContextStep == ASSUME ContextInv, TypeOK, [Next]_vars PROVE ContextInv'
<1> SUFFICES ASSUME NEW d \in Cpu, run'[d].pc # "idle"
             PROVE  run'[d].name \in Attached /\ run'[d].pid \in Context(run'[d].name, run'[d].task)
  BY DEF ContextInv, Context
<1>0. run[d] \in Run /\ run \in [Cpu -> Run]
  BY DEF TypeOK
<1>1. ASSUME NEW c \in Cpu, NEW name \in DOMAIN Program, NEW p \in Pid,
             NEW o \in Context(name, p), Start(c, name, p, o)
      PROVE  run'[d].name \in Attached /\ run'[d].pid \in Context(run'[d].name, run'[d].task)
  <2>1. CASE c = d
    <3>1. run'[d].name = name /\ run'[d].task = p /\ run'[d].pid = o /\ name \in Attached
      BY <1>0, <1>1, <2>1 DEF Start
    <3> QED
      BY <3>1
  <2>2. CASE c # d
    <3>1. run'[d] = run[d]
      BY <1>0, <1>1, <2>2 DEF Start
    <3> QED
      BY <3>1 DEF ContextInv
  <2> QED
    BY <2>1, <2>2
<1>2. ASSUME NEW c \in Cpu, SetSwitch(c) \/ HeedProcessSwitch(c) \/ HeedGlobalSwitch(c)
      PROVE  run'[d].name \in Attached /\ run'[d].pid \in Context(run'[d].name, run'[d].task)
  <2>1. run[d].pc # "idle"
    BY <1>0, <1>2 DEF SetSwitch, HeedProcessSwitch, HeedGlobalSwitch
  <2>2. /\ run'[d].name = run[d].name /\ run'[d].pid = run[d].pid /\ run'[d].task = run[d].task
    BY <1>0, <1>2 DEF SetSwitch, HeedProcessSwitch, HeedGlobalSwitch, Run
  <2> QED
    BY <2>1, <2>2 DEF ContextInv
<1>3. ASSUME NEW c \in Cpu, Enforce(c) \/ Refuse(c)
      PROVE  run'[d].name \in Attached /\ run'[d].pid \in Context(run'[d].name, run'[d].task)
  <2>1. run' = [run EXCEPT ![c] = Idle] /\ Idle.pc = "idle"
    BY <1>3 DEF Enforce, Refuse, Idle
  <2>2. run'[d] = run[d]
    BY <1>0, <2>1
  <2> QED
    BY <2>2 DEF ContextInv
<1>4. ASSUME (\E p \in Pid : Exit(p) \/ Fork(p)) \/ UNCHANGED vars
      PROVE  run'[d].name \in Attached /\ run'[d].pid \in Context(run'[d].name, run'[d].task)
  BY <1>4 DEF Exit, Fork, vars, ContextInv
<1> QED
  BY <1>1, <1>2, <1>3, <1>4 DEF Next, Step

(* KRIe's own process, init and idle are never signalled, and denied only  *)
(* the access to a parameter, with the context of another process, for any *)
(* policies, kill switch contents and interleaving.                        *)
THEOREM RuntimeAlwaysSpared == Spec => []RuntimeSpared
<1>1. Init => RuntimeSpared /\ ContextInv
  BY DEF Init, RuntimeSpared, Exempt, ContextInv, Idle
<1>2. RuntimeSpared /\ ContextInv /\ TypeOK /\ [Next]_vars => RuntimeSpared'
  <2> SUFFICES ASSUME RuntimeSpared, ContextInv, TypeOK, [Next]_vars PROVE RuntimeSpared'
    OBVIOUS
  <2> DEFINE Spared(h) == h[1] \in Exempt => h[2] \notin Exempt /\ "cgroup_sysctl" \in Attached
  <2>0. /\ Exempt \subseteq Pid /\ \A p \in Exempt : proc[p] = "live"
        /\ \A h \in punished : Spared(h)
    BY DEF RuntimeSpared, Exempt
  <2>1. (\A p \in Exempt : proc'[p] = "live") /\ (\A h \in punished' : Spared(h)) => RuntimeSpared'
    BY DEF RuntimeSpared, Exempt
  <2>2. ASSUME NEW c \in Cpu, Enforce(c) PROVE RuntimeSpared'
    <3> DEFINE out == enforce_policy(run[c].pid, run[c].action,
                        Program[run[c].name].type, Program[run[c].name].hook)
    <3>1. /\ run[c].pc = "enforce" /\ run[c].task \in Pid /\ run[c].pid \in Pid
          /\ proc' = IF "signal" \in out THEN [proc EXCEPT ![run[c].task] = "dying"] ELSE proc
          /\ punished' = IF out # {} THEN punished \cup {<<run[c].task, run[c].pid>>} ELSE punished
      BY <2>2 DEF Enforce, TypeOK, Run
    <3>2. run[c].pid \in Exempt => out = {}
      BY ExemptUntouched
    <3>3. run[c].name = "cgroup_sysctl" => "signal" \notin out
      BY NoSignalBySysctl
    <3>4. /\ run[c].name \in Attached
          /\ run[c].name # "cgroup_sysctl" => run[c].pid = run[c].task
      BY <3>1 DEF ContextInv, Context
    <3> HIDE DEF out
    <3>5. "signal" \in out => run[c].task \notin Exempt
      BY <3>2, <3>3, <3>4
    <3>6. \A p \in Exempt : proc'[p] = "live"
      BY <3>1, <3>5, <2>0 DEF TypeOK
    <3>7. out # {} => Spared(<<run[c].task, run[c].pid>>)
      BY <3>2, <3>4
    <3>8. \A h \in punished' : Spared(h)
      BY <3>1, <3>7, <2>0
    <3> QED
      BY <3>6, <3>8, <2>1
  <2>3. ASSUME NEW p \in Pid, Exit(p) \/ Fork(p) PROVE RuntimeSpared'
    <3>1. punished' \subseteq punished /\ \A q \in Exempt : proc'[q] = "live"
      BY <2>3, <2>0 DEF Exit, Fork, TypeOK
    <3> QED
      BY <3>1, <2>0, <2>1
  <2>4. ASSUME NEW c \in Cpu,
               \/ SetSwitch(c) \/ HeedProcessSwitch(c) \/ HeedGlobalSwitch(c) \/ Refuse(c)
               \/ Starts(c)
        PROVE  RuntimeSpared'
    <3>1. UNCHANGED <<proc, punished>>
      BY <2>4 DEF SetSwitch, HeedProcessSwitch, HeedGlobalSwitch, Refuse, Start, Starts
    <3> QED
      BY <3>1, <2>0, <2>1
  <2>5. CASE UNCHANGED vars
    BY <2>5, <2>0, <2>1 DEF vars
  <2> QED
    BY <2>2, <2>3, <2>4, <2>5 DEF Next, Step, Starts
<1> QED
  BY <1>1, <1>2, ContextStep, TypeCorrect, PTL DEF Spec

-----------------------------------------------------------------------------
(* A step changes the global map only as an update under one key.          *)
LEMMA GlobalMapStep ==
  ASSUME TypeOK, [Next]_vars
  PROVE  \/ UNCHANGED global_kill_switch
         \/ \E c \in Cpu :
              /\ run[c].pc = "set"
              /\ \/ /\ run[c].action = KILL
                    /\ global_kill_switch' =
                         UpdateOneEntryMap(global_kill_switch, run[c].pid, KILL)
                 \/ /\ run[c].action = PARANOID
                    /\ global_kill_switch' =
                         UpdateOneEntryMap(global_kill_switch, 0, PARANOID)
BY DEF Next, Step, vars, Start, SetSwitch, HeedProcessSwitch, HeedGlobalSwitch,
       Enforce, Refuse, Exit, Fork, set_process_kill_switch, set_global_kill_switch

(* A kill switch entry stays from one state to the next.                   *)
LEMMA EntriesStay ==
  ASSUME TypeOK, [Next]_vars
  PROVE  \A p \in Pid : /\ global_kill_switch[p] # NOP => global_kill_switch'[p] # NOP
                        /\ process_kill_switch'[p] = process_kill_switch[p]
<1>1. \A p \in Pid : global_kill_switch[p] # NOP => global_kill_switch'[p] # NOP
  <2>1. CASE UNCHANGED global_kill_switch
    BY <2>1
  <2>2. ASSUME NEW c \in Cpu, NEW k \in Pid, NEW a \in {KILL, PARANOID},
               global_kill_switch' = UpdateOneEntryMap(global_kill_switch, k, a)
        PROVE  \A p \in Pid : global_kill_switch[p] # NOP => global_kill_switch'[p] # NOP
    BY <2>2, UpdateKeeps DEF TypeOK
  <2>3. \A c \in Cpu : run[c].pid \in Pid
    BY DEF TypeOK, Run
  <2> QED
    BY <2>1, <2>2, <2>3, GlobalMapStep, KillSwitchAssumption
<1>2. UNCHANGED process_kill_switch
  BY DEF Next, Step, vars, Start, SetSwitch, HeedProcessSwitch, HeedGlobalSwitch,
         Enforce, Refuse, Exit, Fork, set_process_kill_switch, set_global_kill_switch
<1> QED
  BY <1>1, <1>2

(* The switches only ever harden: no program run, on any CPU and in any    *)
(* order, removes an entry of a kill switch map.                           *)
NeverDisarmed ==
  [][\A p \in Pid :
       /\ global_kill_switch[p] # NOP => global_kill_switch'[p] # NOP
       /\ process_kill_switch[p] # NOP => process_kill_switch'[p] # NOP]_vars

(* No reachable step removes a kill switch entry.                          *)
THEOREM SwitchesNeverDisarmed == Spec => NeverDisarmed
<1>1. TypeOK /\ [Next]_vars =>
        [\A p \in Pid :
           /\ global_kill_switch[p] # NOP => global_kill_switch'[p] # NOP
           /\ process_kill_switch[p] # NOP => process_kill_switch'[p] # NOP]_vars
  BY EntriesStay
<1> QED
  BY <1>1, TypeCorrect, PTL DEF Spec, NeverDisarmed

(* The global switch is armed only by a PARANOID verdict or by a KILL      *)
(* verdict whose context names pid 0.                                      *)
THEOREM GlobalSwitchArmedForCause == Spec => ArmedForCause
<1> DEFINE Cause ==
      (global_kill_switch[0] = NOP /\ global_kill_switch'[0] # NOP)
        => \E c \in Cpu :
             /\ run[c].pc = "set"
             /\ \/ run[c].action = PARANOID
                \/ run[c].action = KILL /\ run[c].pid = 0
<1>1. TypeOK /\ [Next]_vars => Cause
  <2> SUFFICES ASSUME TypeOK, [Next]_vars PROVE Cause
    OBVIOUS
  <2>1. CASE UNCHANGED global_kill_switch
    BY <2>1
  <2>2. ASSUME NEW c \in Cpu, run[c].pc = "set", run[c].action = KILL,
               global_kill_switch' =
                 UpdateOneEntryMap(global_kill_switch, run[c].pid, KILL)
        PROVE  Cause
    <3>1. run[c].pid \in Pid
      BY DEF TypeOK, Run
    <3>2. 0 # run[c].pid => global_kill_switch'[0] = global_kill_switch[0]
      BY <2>2, <3>1, KillSwitchAssumption DEF TypeOK, UpdateOneEntryMap
    <3> QED
      BY <2>2, <3>2
  <2>3. ASSUME NEW c \in Cpu, run[c].pc = "set", run[c].action = PARANOID
        PROVE  Cause
    BY <2>3
  <2> QED
    BY <2>1, <2>2, <2>3, GlobalMapStep
<1> QED
  BY <1>1, TypeCorrect, PTL DEF Spec, ArmedForCause

-----------------------------------------------------------------------------
(* Every verdict is the action of a policy, or NOP.                        *)
LEMMA VerdictAsked ==
  ASSUME policies \in [EventType -> Action], NEW name \in DOMAIN Program, NEW v \in Verdict(name)
  PROVE  v \in Asked
<1>1. \A e \in EventType : /\ fetch_policy_or_log(policies[e]) = policies[e]
                           /\ fetch_policy_or_block(policies[e]) = policies[e]
  BY DEF fetch_policy_or_log, fetch_policy_or_block, Missing, Action
<1>2. v = NOP \/ \E e \in EventType : v = fetch_policy_or_log(policies[e])
                                      \/ v = fetch_policy_or_block(policies[e])
  BY DEF Verdict
<1> QED
  BY <1>1, <1>2 DEF Asked

(* enforce_policy denies from BLOCK on, and signals from KILL on.          *)
LEMMA EffectsOfActions ==
  ASSUME NEW pid, NEW action, NEW type, NEW hook
  PROVE  LET out == enforce_policy(pid, action, type, hook)
         IN  /\ out # {} => action \in {BLOCK, KILL, PARANOID}
             /\ "signal" \in out => action \in {KILL, PARANOID}
BY DEF enforce_policy, NOP, BLOCK, KILL, PARANOID

(* No verdict, switch or punishment goes beyond what the policies ask for, *)
(* for any policies and interleaving (krie_run_event_check).               *)
THEOREM NeverUnasked == Spec => []NothingUnasked
<1>1. Init => NothingUnasked
  BY DEF Init, NothingUnasked, Asked, Idle, Hit
<1>2. NothingUnasked /\ TypeOK /\ [Next]_vars => NothingUnasked'
  <2> SUFFICES ASSUME NothingUnasked, TypeOK, [Next]_vars PROVE NothingUnasked'
    OBVIOUS
  <2> DEFINE Runs == \A c \in Cpu : run[c].action \in Asked
             Switches == \A p \in Pid : global_kill_switch[p] \in Asked /\ process_kill_switch[p] \in Asked
             Punished == \A p \in Pid : /\ Hit(p) => Asked \cap {BLOCK, KILL, PARANOID} # {}
                                        /\ proc[p] = "dying" => Asked \cap {KILL, PARANOID} # {}
  <2>1. Runs /\ Switches /\ Punished
    BY DEF NothingUnasked
  <2>2. Asked' = Asked
    <3>1. UNCHANGED policies
      BY DEF Next, Step, vars, Start, SetSwitch, HeedProcessSwitch, HeedGlobalSwitch, Enforce, Refuse, Exit, Fork
    <3> QED
      BY <3>1 DEF Asked
  <2>3. run \in [Cpu -> Run] /\ NOP \in Asked /\ \A c \in Cpu : run[c].pid \in Pid
    BY DEF TypeOK, Run, Asked
  <2>4. ASSUME NEW c \in Cpu, NEW name \in DOMAIN Program, NEW p \in Pid,
               NEW o \in Context(name, p), Start(c, name, p, o)
        PROVE  NothingUnasked'
    <3>1. PICK v \in Verdict(name) :
            run' = [run EXCEPT ![c] =
                 [pc |-> IF Program[name].latches THEN "set"
                         ELSE IF Program[name].heeds THEN "process" ELSE "enforce",
                  name |-> name, task |-> p, pid |-> o, action |-> v,
                  atStart |-> get_global_kill_switch]]
      BY <2>4 DEF Start
    <3>2. v \in Asked
      BY VerdictAsked DEF TypeOK
    <3>3. Runs'
      BY <3>1, <3>2, <2>1, <2>2, <2>3
    <3>4. UNCHANGED <<global_kill_switch, process_kill_switch, proc, punished>>
      BY <2>4 DEF Start
    <3> QED
      BY <3>3, <3>4, <2>1, <2>2 DEF NothingUnasked, Hit
  <2>5. ASSUME NEW c \in Cpu, SetSwitch(c) PROVE NothingUnasked'
    <3>1. run' = [run EXCEPT ![c] = [run[c] EXCEPT !.pc = "process"]]
      BY <2>5, <2>3 DEF SetSwitch
    <3>2. [run[c] EXCEPT !.pc = "process"].action = run[c].action
      BY <2>3 DEF Run
    <3>3. Runs'
      BY <3>1, <3>2, <2>1, <2>2, <2>3
    <3>4. run[c].action \in Asked /\ UNCHANGED <<process_kill_switch, proc, punished>>
      BY <2>1, <2>5 DEF SetSwitch, set_process_kill_switch, set_global_kill_switch
    <3>5. \/ UNCHANGED global_kill_switch
          \/ \E k \in Pid : global_kill_switch' = UpdateOneEntryMap(global_kill_switch, k, run[c].action)
      BY <2>5, <2>3, KillSwitchAssumption DEF SetSwitch, set_process_kill_switch, set_global_kill_switch
    <3>6. \A p \in Pid : global_kill_switch'[p] \in {global_kill_switch[p], run[c].action}
      BY <3>5 DEF UpdateOneEntryMap, TypeOK
    <3>7. Switches'
      BY <3>4, <3>6, <2>1, <2>2
    <3> QED
      BY <3>3, <3>4, <3>7, <2>1, <2>2 DEF NothingUnasked, Hit
  <2>6. ASSUME NEW c \in Cpu, HeedProcessSwitch(c) \/ HeedGlobalSwitch(c) PROVE NothingUnasked'
    <3>1. PICK b \in Asked, pc \in {"global", "enforce"} :
            run' = [run EXCEPT ![c] = [run[c] EXCEPT !.pc = pc, !.action = Larger(run[c].action, b)]]
      <4>1. CASE HeedProcessSwitch(c)
        <5>1. get_process_kill_switch(run[c].pid) \in Asked
          BY <2>1, <2>3 DEF get_process_kill_switch
        <5> QED
          BY <4>1, <5>1, <2>3 DEF HeedProcessSwitch
      <4>2. CASE HeedGlobalSwitch(c)
        <5>1. get_global_kill_switch \in Asked
          BY <2>1, KillSwitchAssumption DEF get_global_kill_switch
        <5> QED
          BY <4>2, <5>1, <2>3 DEF HeedGlobalSwitch
      <4> QED
        BY <2>6, <4>1, <4>2
    <3>2. Larger(run[c].action, b) \in Asked
      BY <2>1 DEF Larger
    <3>3. [run[c] EXCEPT !.pc = pc, !.action = Larger(run[c].action, b)].action = Larger(run[c].action, b)
      BY <2>3 DEF Run
    <3>4. Runs'
      BY <3>1, <3>2, <3>3, <2>1, <2>2, <2>3
    <3>5. UNCHANGED <<global_kill_switch, process_kill_switch, proc, punished>>
      BY <2>6 DEF HeedProcessSwitch, HeedGlobalSwitch
    <3> QED
      BY <3>4, <3>5, <2>1, <2>2 DEF NothingUnasked, Hit
  <2>7. ASSUME NEW c \in Cpu, Enforce(c) PROVE NothingUnasked'
    <3> DEFINE out == enforce_policy(run[c].pid, run[c].action,
                        Program[run[c].name].type, Program[run[c].name].hook)
    <3>1. run' = [run EXCEPT ![c] = Idle] /\ Idle.action = NOP
      BY <2>7 DEF Enforce, Idle
    <3>2. Runs'
      BY <3>1, <2>1, <2>2, <2>3
    <3>3. /\ out # {} => run[c].action \in {BLOCK, KILL, PARANOID}
          /\ "signal" \in out => run[c].action \in {KILL, PARANOID}
      BY EffectsOfActions
    <3>4. /\ proc' = IF "signal" \in out THEN [proc EXCEPT ![run[c].task] = "dying"] ELSE proc
          /\ punished' = IF out # {} THEN punished \cup {<<run[c].task, run[c].pid>>} ELSE punished
          /\ UNCHANGED <<global_kill_switch, process_kill_switch>>
      BY <2>7 DEF Enforce
    <3> HIDE DEF out
    <3>5. "signal" \in out => Asked \cap {KILL, PARANOID} # {}
      BY <3>3, <2>1
    <3>6. out # {} => Asked \cap {BLOCK, KILL, PARANOID} # {}
      BY <3>3, <2>1
    <3>7. ASSUME NEW p \in Pid
          PROVE  /\ Hit(p)' => Asked \cap {BLOCK, KILL, PARANOID} # {}
                 /\ proc'[p] = "dying" => Asked \cap {KILL, PARANOID} # {}
      <4>1. Hit(p)' => Hit(p) \/ out # {}
        BY <3>4 DEF Hit
      <4>2. proc'[p] = "dying" => proc[p] = "dying" \/ "signal" \in out
        BY <3>4
      <4>3. /\ Hit(p) => Asked \cap {BLOCK, KILL, PARANOID} # {}
            /\ proc[p] = "dying" => Asked \cap {KILL, PARANOID} # {}
        BY <2>1
      <4>4. Hit(p)' => Asked \cap {BLOCK, KILL, PARANOID} # {}
        BY <4>1, <4>3, <3>6, Zenon
      <4>5. proc'[p] = "dying" => Asked \cap {KILL, PARANOID} # {}
        BY <4>2, <4>3, <3>5, Zenon
      <4> QED
        BY <4>4, <4>5
    <3>8. Switches'
      BY <3>4, <2>1, <2>2
    <3> QED
      BY <3>2, <3>7, <3>8, <2>2 DEF NothingUnasked
  <2>8. ASSUME NEW q \in Pid, Exit(q) \/ Fork(q) PROVE NothingUnasked'
    <3>1. /\ UNCHANGED <<run, global_kill_switch, process_kill_switch>> /\ punished' \subseteq punished
          /\ \A p \in Pid : proc'[p] = "dying" => proc[p] = "dying"
      BY <2>8 DEF Exit, Fork, TypeOK
    <3>2. Runs' /\ Switches'
      BY <3>1, <2>1, <2>2
    <3>3. ASSUME NEW p \in Pid
          PROVE  /\ Hit(p)' => Asked \cap {BLOCK, KILL, PARANOID} # {}
                 /\ proc'[p] = "dying" => Asked \cap {KILL, PARANOID} # {}
      <4>1. /\ Hit(p) => Asked \cap {BLOCK, KILL, PARANOID} # {}
            /\ proc[p] = "dying" => Asked \cap {KILL, PARANOID} # {}
        BY <2>1
      <4>2. Hit(p)' => Hit(p)
        BY <3>1 DEF Hit
      <4> QED
        BY <4>1, <4>2, <3>1, Zenon
    <3> QED
      BY <3>2, <3>3, <2>2 DEF NothingUnasked
  <2>9. ASSUME NEW c \in Cpu, Refuse(c) PROVE NothingUnasked'
    <3>1. /\ run' = [run EXCEPT ![c] = Idle] /\ Idle.action = NOP
          /\ UNCHANGED <<global_kill_switch, process_kill_switch, proc, punished>>
      BY <2>9 DEF Refuse, Idle
    <3>2. Runs'
      BY <3>1, <2>1, <2>2, <2>3
    <3> QED
      BY <3>1, <3>2, <2>1, <2>2 DEF NothingUnasked, Hit
  <2>10. CASE UNCHANGED vars
    BY <2>10, <2>1, <2>2 DEF vars, NothingUnasked, Hit
  <2> QED
    BY <2>4, <2>5, <2>6, <2>7, <2>8, <2>9, <2>10 DEF Next, Step
<1> QED
  BY <1>1, <1>2, TypeCorrect, PTL DEF Spec

-----------------------------------------------------------------------------
(* The inductive form of ArmedSwitchHeeded: while a run that started with  *)
(* the switch armed is in progress, the switch is still armed, so what the *)
(* run reads at the end is at least KILL.                                  *)
ArmedInv ==
  /\ \A c \in Cpu : run[c].atStart # NOP => global_kill_switch[0] # NOP
  /\ ArmedSwitchHeeded

(* A run that started after the global switch was armed, and that heeds    *)
(* the switches, enforces at least KILL.                                   *)
THEOREM ArmedSwitchAlwaysHeeded == Spec => []ArmedSwitchHeeded
<1>1. Init => ArmedInv
  BY DEF Init, ArmedInv, ArmedSwitchHeeded, Idle
<1>2. ArmedInv /\ TypeOK /\ [Next]_vars => ArmedInv'
  <2> SUFFICES ASSUME ArmedInv, TypeOK, [Next]_vars, NEW d \in Cpu
               PROVE  /\ (run[d].atStart # NOP => global_kill_switch[0] # NOP)'
                      /\ (run[d].pc = "enforce" /\ run[d].atStart # NOP /\ Program[run[d].name].heeds
                            => run[d].action >= KILL)'
    BY DEF ArmedInv, ArmedSwitchHeeded
  <2>0. /\ global_kill_switch[0] # NOP => global_kill_switch'[0] # NOP
        /\ run[d] \in Run
        /\ run[d].atStart # NOP => global_kill_switch[0] # NOP
        /\ run[d].pc = "enforce" /\ run[d].atStart # NOP /\ Program[run[d].name].heeds
             => run[d].action >= KILL
        /\ global_kill_switch[0] \in StoredAction
    BY EntriesStay, KillSwitchAssumption DEF ArmedInv, ArmedSwitchHeeded, TypeOK
  <2>1. CASE run'[d] = run[d]
    BY <2>0, <2>1
  <2>2. ASSUME NEW name \in DOMAIN Program, NEW p \in Pid,
               NEW o \in Context(name, p), Start(d, name, p, o)
        PROVE  /\ (run[d].atStart # NOP => global_kill_switch[0] # NOP)'
               /\ (run[d].pc = "enforce" /\ run[d].atStart # NOP /\ Program[run[d].name].heeds
                     => run[d].action >= KILL)'
    <3>1. PICK v \in Verdict(name) :
            run'[d] =
                 [pc |-> IF Program[name].latches THEN "set"
                         ELSE IF Program[name].heeds THEN "process" ELSE "enforce",
                  name |-> name, task |-> p, pid |-> o, action |-> v,
                  atStart |-> get_global_kill_switch]
      BY <2>2 DEF Start, TypeOK
    <3>2. run'[d].atStart # NOP => global_kill_switch[0] # NOP
      BY <3>1 DEF get_global_kill_switch
    <3>3. run'[d].pc = "enforce" => ~ Program[run'[d].name].heeds
      BY <3>1
    <3> QED
      BY <2>0, <3>2, <3>3
  <2>3. CASE SetSwitch(d)
    <3>1. run'[d] = [run[d] EXCEPT !.pc = "process"]
      BY <2>3 DEF SetSwitch, TypeOK
    <3>2. run'[d].atStart = run[d].atStart /\ run'[d].pc = "process"
      BY <2>0, <3>1 DEF Run
    <3> QED
      BY <2>0, <3>2
  <2>4. CASE HeedProcessSwitch(d)
    <3>1. run'[d] = [run[d] EXCEPT !.pc = "global",
                       !.action = Larger(@, get_process_kill_switch(run[d].pid))]
      BY <2>4 DEF HeedProcessSwitch, TypeOK
    <3>2. run'[d].atStart = run[d].atStart /\ run'[d].pc = "global"
      BY <2>0, <3>1 DEF Run
    <3> QED
      BY <2>0, <3>2
  <2>5. CASE HeedGlobalSwitch(d)
    <3>1. run'[d] = [run[d] EXCEPT !.pc = "enforce",
                       !.action = Larger(@, global_kill_switch[0])]
      BY <2>5 DEF HeedGlobalSwitch, TypeOK, get_global_kill_switch
    <3>2. run'[d].atStart = run[d].atStart
      BY <2>0, <3>1 DEF Run
    <3>3. run'[d].action = Larger(run[d].action, global_kill_switch[0])
      BY <2>0, <3>1 DEF Run
    <3>4. global_kill_switch[0] # NOP => run'[d].action >= KILL
      BY <2>0, <3>3 DEF Larger, Run, Action, StoredAction, NOP, KILL, PARANOID
    <3> QED
      BY <2>0, <3>2, <3>4
  <2>6. CASE Enforce(d) \/ Refuse(d)
    <3>1. run'[d] = Idle
      BY <2>6 DEF Enforce, Refuse, TypeOK
    <3> QED
      BY <3>1 DEF Idle
  <2>7. \/ run'[d] = run[d]
        \/ Starts(d)
        \/ SetSwitch(d) \/ HeedProcessSwitch(d) \/ HeedGlobalSwitch(d) \/ Enforce(d)
        \/ Refuse(d)
    <3>1. ASSUME NEW c \in Cpu, c # d,
                 \/ Step(c)
                 \/ Starts(c)
          PROVE  run'[d] = run[d]
      <4>1. \E r : run' = [run EXCEPT ![c] = r]
        BY <3>1 DEF Step, SetSwitch, HeedProcessSwitch, HeedGlobalSwitch, Enforce, Refuse, Start, Starts
      <4> QED
        BY <3>1, <4>1 DEF TypeOK
    <3>2. (\E p \in Pid : Exit(p) \/ Fork(p)) \/ UNCHANGED vars => run' = run
      BY DEF Exit, Fork, vars
    <3> QED
      BY <3>1, <3>2 DEF Next, Step, Starts
  <2> QED
    BY <2>1, <2>2, <2>3, <2>4, <2>5, <2>6, <2>7 DEF Starts
<1>3. ArmedInv => ArmedSwitchHeeded
  BY DEF ArmedInv
<1> QED
  BY <1>1, <1>2, <1>3, TypeCorrect, PTL DEF Spec

-----------------------------------------------------------------------------
(* cgroup_sysctl is the only program of the type that cannot signal.       *)
LEMMA ProgramsSignal ==
  \A name \in DOMAIN Program \ {"cgroup_sysctl"} : Program[name].type # "cgroup_sysctl"
<1> DEFINE Signals(r) == r.type # "cgroup_sysctl"
<1>1. /\ Signals(sys_init_module) /\ Signals(sys_delete_module) /\ Signals(sys_ptrace)
      /\ Signals(sys_setsockopt) /\ Signals(sys_bpf)
  BY DEF Check, OnEntry, sys_init_module, sys_delete_module, sys_ptrace, sys_setsockopt, sys_bpf
<1>2. /\ Signals(sys_init_module_ret) /\ Signals(sys_delete_module_ret) /\ Signals(sys_ptrace_ret)
      /\ Signals(sys_setsockopt_ret) /\ Signals(sys_bpf_ret)
  BY DEF Check, OnReturn, OnEntry, sys_init_module_ret, sys_delete_module_ret, sys_ptrace_ret,
         sys_setsockopt_ret, sys_bpf_ret
<1>3. /\ Signals(handle_sys_init_module_exit) /\ Signals(handle_sys_delete_module_exit) /\ Signals(handle_sys_ptrace_exit)
      /\ Signals(handle_sys_setsockopt_exit) /\ Signals(handle_sys_bpf_exit)
  BY DEF Check, AtSysExit, handle_sys_init_module_exit, handle_sys_delete_module_exit,
         handle_sys_ptrace_exit, handle_sys_setsockopt_exit, handle_sys_bpf_exit
<1>4. /\ Signals(trace_module) /\ Signals(cache_kprobe) /\ Signals(register_kprobe_ret)
      /\ Signals(register_kretprobe) /\ Signals(write_enabled_file_bool) /\ Signals(write_enabled_file_bool_ret)
  BY DEF Check, InKernel, trace_module, cache_kprobe, register_kprobe_ret, register_kretprobe,
         write_enabled_file_bool, write_enabled_file_bool_ret
<1>5. /\ Signals(sys_enter_syscall) /\ Signals(sys_enter_syscall_x32) /\ Signals(sys_enter_kernel_parameter)
      /\ Signals(sys_exit) /\ Signals(syscall_table_ticker) /\ Signals(kernel_parameter_ticker)
      /\ Signals(generic_lsm_func) /\ Signals(prepare_kernel_cred)
  BY DEF Check, OnSight, sys_enter_syscall, sys_enter_syscall_x32, sys_enter_kernel_parameter,
         sys_exit, syscall_table_ticker, kernel_parameter_ticker, generic_lsm_func,
         prepare_kernel_cred
<1> HIDE DEF Signals
<1>6. \A name \in DOMAIN Program \ {"cgroup_sysctl"} : Signals(Program[name])
  BY <1>1, <1>2, <1>3, <1>4, <1>5 DEF Program
<1> QED
  BY <1>6 DEF Signals

(* The safety half of ArmedSwitchKills: with bpf_send_signal, the process  *)
(* in which a run ends that heeds the switches and started after the       *)
(* global one was armed is signalled, unless it is exempt or the program   *)
(* is cgroup_sysctl, whose type may not signal.                            *)
ArmedRunsKill ==
  [][\A c \in Cpu :
       (/\ run[c].pc = "enforce" /\ run'[c].pc = "idle"
        /\ run[c].atStart # NOP /\ Program[run[c].name].heeds
        /\ SendSignal /\ run[c].name # "cgroup_sysctl" /\ run[c].task \notin Exempt)
         => proc'[run[c].task] = "dying"]_vars

(* No run of the pipeline that started under an armed switch, on any CPU   *)
(* and of any program that heeds it, lets its process live.                *)
THEOREM ArmedRunsAlwaysKill == Spec => ArmedRunsKill
<1> DEFINE Kills(c) ==
      (/\ run[c].pc = "enforce" /\ run'[c].pc = "idle"
       /\ run[c].atStart # NOP /\ Program[run[c].name].heeds
       /\ SendSignal /\ run[c].name # "cgroup_sysctl" /\ run[c].task \notin Exempt)
        => proc'[run[c].task] = "dying"
<1>1. ArmedSwitchHeeded /\ ContextInv /\ TypeOK /\ [Next]_vars => \A c \in Cpu : Kills(c)
  <2> SUFFICES ASSUME ArmedSwitchHeeded, ContextInv, TypeOK, [Next]_vars, NEW c \in Cpu,
                      run[c].pc = "enforce", run'[c].pc = "idle",
                      run[c].atStart # NOP, Program[run[c].name].heeds,
                      SendSignal, run[c].name # "cgroup_sysctl", run[c].task \notin Exempt
               PROVE  proc'[run[c].task] = "dying"
    OBVIOUS
  <2>1. /\ run[c] \in Run /\ run[c].pid \in Pid /\ run[c].name \in DOMAIN Program
        /\ run[c].action \in Action /\ run[c].action >= KILL /\ run[c].pid = run[c].task
    BY DEF TypeOK, Run, ArmedSwitchHeeded, ContextInv, Context
  <2>2. Enforce(c)
    <3>1. ASSUME NEW d \in Cpu, d # c,
                 \/ Step(d)
                 \/ Starts(d)
          PROVE  run'[c] = run[c]
      <4>1. \E r : run' = [run EXCEPT ![d] = r]
        BY <3>1 DEF Step, SetSwitch, HeedProcessSwitch, HeedGlobalSwitch, Enforce, Refuse, Start, Starts
      <4> QED
        BY <3>1, <4>1 DEF TypeOK
    <3>2. (\E p \in Pid : Exit(p) \/ Fork(p)) \/ UNCHANGED vars => run' = run
      BY DEF Exit, Fork, vars
    <3>3. ~ (SetSwitch(c) \/ HeedProcessSwitch(c) \/ HeedGlobalSwitch(c) \/ Refuse(c)
               \/ Starts(c))
      BY DEF SetSwitch, HeedProcessSwitch, HeedGlobalSwitch, Refuse, Start, Starts
    <3> QED
      BY <3>1, <3>2, <3>3 DEF Next, Step, Starts
  <2>3. "signal" \in enforce_policy(run[c].pid, run[c].action,
                       Program[run[c].name].type, Program[run[c].name].hook)
    <3>1. ~ filter_krie_runtime_with_pid(run[c].pid)
      BY <2>1 DEF Exempt, filter_krie_runtime_with_pid
    <3>2. run[c].action \in {KILL, PARANOID}
      BY <2>1 DEF Action, KILL, PARANOID
    <3>3. Program[run[c].name].type # "cgroup_sysctl"
      BY <2>1, ProgramsSignal
    <3> QED
      BY <3>1, <3>2, <3>3 DEF enforce_policy
  <2> QED
    BY <2>1, <2>2, <2>3 DEF Enforce, TypeOK
<1>2. Init => ContextInv
  BY DEF Init, ContextInv, Idle
<1> QED
  BY <1>1, <1>2, ContextStep, TypeCorrect, ArmedSwitchAlwaysHeeded, PTL DEF Spec, ArmedRunsKill

-----------------------------------------------------------------------------
(* At most one key is ever present in the map.                             *)
OneKey ==
  \A p, q \in Pid :
    global_kill_switch[p] # NOP /\ global_kill_switch[q] # NOP => p = q

(* A successful or failed update of a map with at most one key is a write  *)
(* of the latch or leaves it alone, and the map keeps at most one key.     *)
LEMMA UpdateIsLatchWrite ==
  ASSUME TypeOK, OneKey, NEW key \in Pid, NEW action \in {KILL, PARANOID},
         global_kill_switch' = UpdateOneEntryMap(global_kill_switch, key, action)
  PROVE  OneKey' /\ [Latch!Next]_Entries
<1>0. action # NOP
  BY DEF NOP, KILL, PARANOID
<1>1. CASE \E k \in Pid \ {key} : global_kill_switch[k] # NOP
  <2>1. global_kill_switch' = global_kill_switch
    BY <1>1 DEF UpdateOneEntryMap
  <2> QED
    BY <2>1 DEF OneKey, Entries
<1>2. CASE \A k \in Pid \ {key} : global_kill_switch[k] = NOP
  <2>1. global_kill_switch' = [global_kill_switch EXCEPT ![key] = action]
    BY <1>2 DEF UpdateOneEntryMap
  <2>2. \A p \in Pid : global_kill_switch'[p] = IF p = key THEN action ELSE NOP
    BY <1>2, <2>1 DEF TypeOK
  <2>3. OneKey'
    BY <2>2 DEF OneKey
  <2>4. Latch!Write(key, action)
    BY <1>0, <1>2, <2>2 DEF Latch!Write, Entries
  <2> QED
    BY <2>3, <2>4 DEF Latch!Next
<1> QED
  BY <1>1, <1>2

(* The detailed kill switch implements the abstract latch.                 *)
THEOREM ImplementsLatch == Spec => FirstKeyOwnsSlot
<1>1. Init => OneKey /\ Latch!Init
  BY DEF Init, OneKey, Latch!Init, Entries
<1>2. OneKey /\ TypeOK /\ [Next]_vars => OneKey' /\ [Latch!Next]_Entries
  <2> SUFFICES ASSUME OneKey, TypeOK, [Next]_vars
               PROVE  OneKey' /\ [Latch!Next]_Entries
    OBVIOUS
  <2>1. CASE UNCHANGED global_kill_switch
    BY <2>1 DEF OneKey, Entries
  <2>2. ASSUME NEW c \in Cpu,
               \/ global_kill_switch' =
                    UpdateOneEntryMap(global_kill_switch, run[c].pid, KILL)
               \/ global_kill_switch' =
                    UpdateOneEntryMap(global_kill_switch, 0, PARANOID)
        PROVE  OneKey' /\ [Latch!Next]_Entries
    <3>1. run[c].pid \in Pid /\ 0 \in Pid
      BY KillSwitchAssumption DEF TypeOK, Run
    <3> QED
      BY <2>2, <3>1, UpdateIsLatchWrite
  <2> QED
    BY <2>1, <2>2, GlobalMapStep
<1> QED
  BY <1>1, <1>2, TypeCorrect, PTL DEF Spec, FirstKeyOwnsSlot, Latch!Spec
=============================================================================
