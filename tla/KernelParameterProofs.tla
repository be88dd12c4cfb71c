------------------------ MODULE KernelParameterProofs ------------------------
(***************************************************************************)
(* Proofs about the check of kernel parameters, for any list of            *)
(* parameters, any memory, any ticker and any bounds of the environment.   *)
(***************************************************************************)
EXTENDS KernelParameter, TLAPS

LEMMA Constants ==
  /\ Count \in Nat \ {0} /\ Width \in Nat \ {0} /\ 1 \in Param
  /\ Size \in [Param -> Nat] /\ Expected \in [Param -> Value] /\ Content \subseteq Value /\ 0 \in Byte
  /\ Ticker \in Nat /\ Boot \in Nat /\ MaxTime \in Nat /\ MaxChanges \in Nat /\ MaxLost \in Nat
  /\ Word \in Nat /\ Boot <= MaxTime /\ MaxTime < Word
  BY KernelParameterAssumption DEF Param

LEMMA IdleRun == Idle \in Run /\ Zero \in Value
<1>1. Zero \in Value
  BY Constants DEF Zero, Value
<1> QED BY <1>1, Constants DEF Idle, Run

(* What a run reads is a value of the register, whatever it held before.   *)
LEMMA ReadType ==
  ASSUME NEW i \in Param, NEW dst \in Value, memory \in [Param -> Content]
  PROVE  bpf_probe_read_kernel(dst, i) \in Value
<1>1. memory[i] \in Value
  BY Constants
<1> QED BY <1>1, Constants DEF bpf_probe_read_kernel, Value

(* The loop goes on to a listed parameter or ends.                         *)
LEMMA NextParamRun ==
  ASSUME run \in [Cpu -> Run], NEW c \in Cpu, NextParam(c)
  PROVE  /\ run' \in [Cpu -> Run] /\ \A d \in Cpu \ {c} : run'[d] = run[d]
         /\ \/ run'[c] = Idle
            \/ /\ run[c].i < Count /\ run'[c].pc = "read" /\ run'[c].i = run[c].i + 1
               /\ run'[c].now = run[c].now /\ run'[c].actual = run[c].actual
<1>1. CASE run[c].i < Count
  <2> DEFINE r == [run[c] EXCEPT !.pc = "read", !.i = run[c].i + 1]
  <2>1. run[c].i + 1 \in Param
    BY <1>1, Constants DEF Run, Param
  <2>2. r \in Run /\ r.pc = "read" /\ r.i = run[c].i + 1 /\ r.now = run[c].now /\ r.actual = run[c].actual
    BY <2>1 DEF Run
  <2>3. run' = [run EXCEPT ![c] = r]
    BY <1>1 DEF NextParam
  <2> HIDE DEF r
  <2> QED BY <1>1, <2>2, <2>3
<1>2. CASE ~ (run[c].i < Count)
  BY <1>2, IdleRun DEF NextParam
<1> QED BY <1>1, <1>2

(* Every variable keeps its type, for every interleaving of the runs.      *)
THEOREM TypeCorrect == Spec => []TypeOK
<1>1. Init => TypeOK
  <2> SUFFICES ASSUME Init PROVE TypeOK
    OBVIOUS
  <2>1. run \in [Cpu -> Run]
    BY IdleRun DEF Init
  <2> QED BY <2>1, Constants DEF Init, TypeOK
<1>2. TypeOK /\ [Next]_vars => TypeOK'
  <2> SUFFICES ASSUME TypeOK, [Next]_vars PROVE TypeOK'
    OBVIOUS
  <2> USE DEF TypeOK
  <2>1. ASSUME NEW c \in Cpu, Begin(c) PROVE TypeOK'
    <3>1. [Idle EXCEPT !.pc = "read", !.now = clock] \in Run
      BY IdleRun DEF Run
    <3> QED BY <2>1, <3>1 DEF Begin
  <2>2. ASSUME NEW c \in Cpu, ReadParam(c) PROVE TypeOK'
    <3> DEFINE a == bpf_probe_read_kernel(run[c].actual, run[c].i)
    <3>1. run[c] \in Run /\ a \in Value
      BY ReadType DEF Run
    <3>2. run' = [run EXCEPT ![c] = [run[c] EXCEPT !.pc = "compare", !.actual = a, !.fresh = TRUE]]
      BY <2>2, <3>1 DEF ReadParam
    <3> HIDE DEF a
    <3>3. run' \in [Cpu -> Run]
      BY <3>1, <3>2 DEF Run
    <3> QED BY <2>2, <3>3 DEF ReadParam
  <2>3. ASSUME NEW c \in Cpu, CompareParam(c) PROVE TypeOK'
    <3>1. CASE run' = [run EXCEPT ![c].pc = "send"]
      BY <2>3, <3>1 DEF CompareParam, Run
    <3>2. CASE NextParam(c)
      BY <2>3, <3>2, NextParamRun DEF CompareParam
    <3> QED BY <2>3, <3>1, <3>2 DEF CompareParam
  <2>4. ASSUME NEW c \in Cpu, SendEvent(c) PROVE TypeOK'
    <3>1. run' \in [Cpu -> Run]
      BY <2>4 DEF SendEvent, Run
    <3>2. run[c].i \in Param /\ run[c].now \in 0 .. MaxTime /\ run[c].actual \in Value
      BY DEF Run
    <3> QED BY <2>4, <3>1, <3>2 DEF SendEvent, Event
  <2>5. ASSUME NEW c \in Cpu, LoseEvent(c) PROVE TypeOK'
    BY <2>5, NextParamRun, Constants DEF LoseEvent
  <2>6. ASSUME NEW c \in Cpu, RecordSent(c) PROVE TypeOK'
    <3>1. run[c].i \in Param /\ run[c].now \in 0 .. MaxTime
      BY DEF Run
    <3> QED BY <2>6, <3>1, NextParamRun DEF RecordSent
  <2>7. CASE Tick
    BY <2>7, Constants DEF Tick
  <2>8. ASSUME NEW i \in Param, NEW v \in Content, ChangeMemory(i, v) PROVE TypeOK'
    <3>1. run' \in [Cpu -> Run]
      <4>1. ASSUME NEW c \in Cpu PROVE [run[c] EXCEPT !.fresh = FALSE] \in Run
        BY DEF Run
      <4> QED BY <2>8, <4>1 DEF ChangeMemory
    <3>2. held' \in [Param -> SUBSET Content]
      BY <2>8 DEF ChangeMemory
    <3> QED BY <2>8, <3>1, <3>2, Constants DEF ChangeMemory
  <2>9. CASE UNCHANGED vars
    BY <2>9 DEF vars
  <2> QED BY <2>1, <2>2, <2>3, <2>4, <2>5, <2>6, <2>7, <2>8, <2>9 DEF Next, run_kernel_parameter_check
<1> QED BY <1>1, <1>2, PTL DEF Spec

-----------------------------------------------------------------------------
(* The buffer of a run is not cleared between parameters. With sizes that  *)
(* fit and never shrink, what it holds above the size of the parameter it  *)
(* is at is still zero, and below it is what the memory held at the read.  *)
Clear(v, n) == \A b \in 1 .. Width : b > n => v[b] = 0
Seen(i, v) == \E w \in held[i] : v = Truncated(w, Size[i])
RunInv(c) ==
  LET r == run[c] IN
  /\ Clear(r.actual, Size[r.i])
  /\ r.pc \in {"compare", "send", "record"} /\ r.i \in Resolved => Seen(r.i, r.actual)
  /\ r.pc \in {"send", "record"} => r.actual # Expected[r.i]
BufferInv ==
  /\ TypeOK
  /\ \A i \in Param : memory[i] \in held[i]
  /\ \A c \in Cpu : RunInv(c)
  /\ \A e \in events : e.param \in Resolved => Seen(e.param, e.actual) /\ e.actual # Expected[e.param]

(* A read fills the low bytes from memory and leaves the cleared ones.     *)
LEMMA ReadTruncates ==
  ASSUME SizesFit, TypeOK, NEW i \in Param, NEW dst \in Value, Clear(dst, Size[i])
  PROVE  /\ Clear(bpf_probe_read_kernel(dst, i), Size[i])
         /\ i \in Resolved => bpf_probe_read_kernel(dst, i) = Truncated(memory[i], Size[i])
<1>1. ReadSize(i) = Size[i] /\ Size[i] \in Nat
  BY Constants DEF SizesFit, ReadSize
<1> HIDE DEF ReadSize
<1> QED BY <1>1, Constants DEF bpf_probe_read_kernel, Clear, Truncated

LEMMA ClearIdle == ASSUME NEW n PROVE Clear(Idle.actual, n) /\ Idle.pc = "idle" /\ Idle.i = 1
  BY DEF Clear, Idle, Zero

(* The loop: a larger size needs less to be clear.                         *)
LEMMA NextParamClear ==
  ASSUME SizesFit, BufferInv, NEW c \in Cpu, NextParam(c)
  PROVE  RunInv(c)'
<1>1. \/ run'[c] = Idle
      \/ /\ run[c].i < Count /\ run'[c].pc = "read" /\ run'[c].i = run[c].i + 1
         /\ run'[c].actual = run[c].actual
  BY NextParamRun DEF BufferInv, TypeOK
<1>2. CASE run'[c] = Idle
  BY <1>2, ClearIdle DEF RunInv, Clear
<1>3. CASE /\ run[c].i < Count /\ run'[c].pc = "read" /\ run'[c].i = run[c].i + 1
           /\ run'[c].actual = run[c].actual
  <2>1. run[c].i \in Param /\ run[c].i + 1 \in Param
    BY <1>3, Constants DEF BufferInv, TypeOK, Run, Param
  <2>2. Size[run[c].i] <= Size[run[c].i + 1] /\ Size[run[c].i] \in Nat /\ Size[run[c].i + 1] \in Nat
    BY <2>1, Constants DEF SizesFit, Param
  <2>3. Clear(run[c].actual, Size[run[c].i + 1])
    BY <2>2 DEF BufferInv, RunInv, Clear
  <2> QED BY <1>3, <2>3 DEF RunInv, Clear
<1> QED BY <1>1, <1>2, <1>3

LEMMA OtherRuns ==
  ASSUME BufferInv, NEW d \in Cpu, run'[d] = run[d], \A i \in Param : held[i] \subseteq held'[i]
  PROVE  RunInv(d)'
<1>1. run[d].i \in Param
  BY DEF BufferInv, TypeOK, Run
<1> QED BY <1>1 DEF BufferInv, RunInv, Seen

LEMMA BufferStep == ASSUME SizesFit, BufferInv, TypeOK', [Next]_vars PROVE BufferInv'
<1>1. ASSUME NEW c \in Cpu, UNCHANGED <<memory, held, events>>, RunInv(c)',
             \A d \in Cpu \ {c} : run'[d] = run[d]
      PROVE  BufferInv'
  <2>1. \A d \in Cpu : RunInv(d)'
    BY <1>1, OtherRuns
  <2> QED BY <1>1, <2>1 DEF BufferInv, Seen
<1>2. ASSUME NEW c \in Cpu, Begin(c) PROVE BufferInv'
  <2> DEFINE r == [Idle EXCEPT !.pc = "read", !.now = clock]
  <2>1. r.actual = Idle.actual /\ r.pc = "read" /\ r.i = 1
    BY DEF Idle
  <2>2. run'[c] = r /\ \A d \in Cpu \ {c} : run'[d] = run[d]
    BY <1>2 DEF Begin, BufferInv, TypeOK
  <2> HIDE DEF r
  <2>3. RunInv(c)'
    BY <2>1, <2>2, ClearIdle DEF RunInv, Clear
  <2> QED BY <1>1, <1>2, <2>2, <2>3 DEF Begin
<1>3. ASSUME NEW c \in Cpu, ReadParam(c) PROVE BufferInv'
  <2> DEFINE a == bpf_probe_read_kernel(run[c].actual, run[c].i)
  <2>1. run[c] \in Run /\ run[c].i \in Param /\ run[c].actual \in Value
    BY DEF BufferInv, TypeOK, Run
  <2>2. Clear(a, Size[run[c].i]) /\ (run[c].i \in Resolved => a = Truncated(memory[run[c].i], Size[run[c].i]))
    BY <2>1, ReadTruncates DEF BufferInv, RunInv
  <2> HIDE DEF a
  <2>3. run' = [run EXCEPT ![c] = [run[c] EXCEPT !.pc = "compare", !.actual = a, !.fresh = TRUE]]
    BY <1>3 DEF ReadParam, a, BufferInv, TypeOK
  <2>4. /\ run'[c].i = run[c].i /\ run'[c].pc = "compare" /\ run'[c].actual = a
        /\ \A d \in Cpu \ {c} : run'[d] = run[d]
    BY <2>1, <2>3 DEF Run, BufferInv, TypeOK
  <2>5. memory[run[c].i] \in held[run[c].i] /\ UNCHANGED <<memory, held, events>>
    BY <1>3, <2>1 DEF BufferInv, ReadParam
  <2>6. RunInv(c)'
    BY <2>2, <2>4, <2>5 DEF RunInv, Seen
  <2> QED BY <1>1, <2>4, <2>5, <2>6
<1>4. ASSUME NEW c \in Cpu, CompareParam(c) PROVE BufferInv'
  <2>1. UNCHANGED <<memory, held, events>> /\ run[c].pc = "compare"
    BY <1>4 DEF CompareParam, At
  <2>2. CASE NextParam(c)
    BY <1>1, <2>1, <2>2, NextParamRun, NextParamClear DEF BufferInv, TypeOK
  <2>3. CASE ~ NextParam(c)
    <3>1. Expected[run[c].i] # run[c].actual /\ run' = [run EXCEPT ![c].pc = "send"]
      BY <1>4, <2>3 DEF CompareParam
    <3>2. /\ run'[c].pc = "send" /\ run'[c].i = run[c].i /\ run'[c].actual = run[c].actual
          /\ \A d \in Cpu \ {c} : run'[d] = run[d]
      BY <3>1 DEF BufferInv, TypeOK, Run
    <3>3. RunInv(c)'
      BY <2>1, <3>1, <3>2 DEF BufferInv, RunInv, Seen
    <3> QED BY <1>1, <2>1, <3>2, <3>3
  <2> QED BY <2>2, <2>3
<1>5. ASSUME NEW c \in Cpu, SendEvent(c) PROVE BufferInv'
  <2> DEFINE e == [cpu |-> c, param |-> run[c].i, time |-> run[c].now, actual |-> run[c].actual]
  <2>1. run[c].pc = "send" /\ UNCHANGED <<memory, held>> /\ events' = events \cup {e}
    BY <1>5 DEF SendEvent, At
  <2>2. /\ run'[c].pc = "record" /\ run'[c].i = run[c].i /\ run'[c].actual = run[c].actual
        /\ \A d \in Cpu \ {c} : run'[d] = run[d]
    BY <1>5 DEF SendEvent, BufferInv, TypeOK, Run
  <2>3. RunInv(c)'
    BY <2>1, <2>2 DEF BufferInv, RunInv, Seen
  <2>4. \A d \in Cpu : RunInv(d)'
    BY <2>1, <2>2, <2>3, OtherRuns
  <2>5. e.param \in Resolved => Seen(e.param, e.actual) /\ e.actual # Expected[e.param]
    BY <2>1 DEF BufferInv, RunInv
  <2> HIDE DEF e
  <2> QED BY <2>1, <2>4, <2>5 DEF BufferInv, Seen
<1>6. ASSUME NEW c \in Cpu, LoseEvent(c) \/ RecordSent(c) PROVE BufferInv'
  <2>1. NextParam(c) /\ UNCHANGED <<memory, held, events>>
    BY <1>6 DEF LoseEvent, RecordSent
  <2> QED BY <1>1, <2>1, NextParamRun, NextParamClear DEF BufferInv, TypeOK
<1>7. CASE Tick \/ UNCHANGED vars
  <2>1. UNCHANGED <<memory, held, events, run>>
    BY <1>7 DEF Tick, vars
  <2>2. \A d \in Cpu : RunInv(d)'
    BY <2>1, OtherRuns
  <2> QED BY <2>1, <2>2 DEF BufferInv, Seen
<1>8. ASSUME NEW i \in Param, NEW v \in Content, ChangeMemory(i, v) PROVE BufferInv'
  <2>1. /\ UNCHANGED events /\ memory' = [memory EXCEPT ![i] = v]
        /\ held' = [held EXCEPT ![i] = @ \cup {v}]
        /\ run' = [c \in Cpu |-> IF run[c].i = i THEN [run[c] EXCEPT !.fresh = FALSE] ELSE run[c]]
    BY <1>8 DEF ChangeMemory
  <2>2. (\A j \in Param : held[j] \subseteq held'[j]) /\ \A j \in Param : memory'[j] \in held'[j]
    BY <2>1 DEF BufferInv, TypeOK
  <2>3. ASSUME NEW d \in Cpu PROVE RunInv(d)'
    <3>1. run[d] \in Run /\ run[d].i \in Param
      BY DEF BufferInv, TypeOK, Run
    <3>2. run'[d].pc = run[d].pc /\ run'[d].i = run[d].i /\ run'[d].actual = run[d].actual
      BY <2>1, <3>1 DEF Run
    <3> QED BY <2>2, <3>1, <3>2 DEF BufferInv, RunInv, Seen
  <2>4. ASSUME NEW e \in events PROVE e.param \in Param
    BY DEF BufferInv, TypeOK, Event
  <2> QED BY <2>1, <2>2, <2>3, <2>4 DEF BufferInv, Seen
<1> QED BY <1>2, <1>3, <1>4, <1>5, <1>6, <1>7, <1>8 DEF Next, run_kernel_parameter_check

(* run_kernel_parameter_check sends no false alarm, although it does not   *)
(* clear the buffer between two parameters, on any number of CPUs and      *)
(* whenever the memory changes.                                            *)
THEOREM AlarmsAlwaysTrue == Spec => []NoFalseAlarm
<1>1. CASE SizesFit
  <2>1. Init /\ TypeOK => BufferInv
    <3> SUFFICES ASSUME Init, TypeOK PROVE BufferInv
      OBVIOUS
    <3>1. \A c \in Cpu : RunInv(c)
      BY ClearIdle DEF Init, RunInv
    <3> QED BY <3>1 DEF Init, BufferInv
  <2>2. BufferInv => NoFalseAlarm
    BY DEF BufferInv, NoFalseAlarm, Seen
  <2> QED BY <1>1, <2>1, <2>2, BufferStep, TypeCorrect, PTL DEF Spec
<1>2. CASE ~ SizesFit
  <2>1. NoFalseAlarm
    BY <1>2 DEF NoFalseAlarm
  <2> QED BY <2>1, PTL
<1> QED BY <1>1, <1>2

=============================================================================
