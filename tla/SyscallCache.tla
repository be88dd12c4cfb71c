---------------------------- MODULE SyscallCache ----------------------------
(***************************************************************************)
(* The map that carries a call from its entry probe to its return probe    *)
(* (ebpf/krie/syscall_cache.h) and the probes that use it: one entry per   *)
(* thread, shared by the hooked syscalls and by the kernel's kprobe        *)
(* functions, which modules call from within a hooked syscall.             *)
(*                                                                         *)
(* Map elements are separate from the entries in them: a deleted element   *)
(* keeps its content until it is reused, and a return probe reads the      *)
(* content after it has deleted the entry; a probe that completes an entry *)
(* writes through the pointer it looked up, whatever has become of the     *)
(* element. A call is identified by its number, which stands for the data  *)
(* its probes put in the cache.                                            *)
(***************************************************************************)
EXTENDS Integers, FiniteSets, Sequences

CONSTANTS
  Thread,
  Exempt,      \* the threads of KRIe, init and idle
  Slots,       \* elements of the LRU map (1024 in the code)
  Syscalls,    \* event types of the hooked syscalls
  OnKprobes,   \* the functions on a registered kprobe: unregister, enable, disable
  MaxCalls     \* bound: calls made

Free == "free"
KernelFunctions == {"register_kprobe"} \cup OnKprobes
FileWrites == {"write_enabled_file_bool", "bogus_write"}

ASSUME SyscallCacheAssumption ==
  /\ Slots \in Nat \ {0} /\ MaxCalls \in Nat /\ Free \notin Thread
  /\ Syscalls \cap (KernelFunctions \cup FileWrites \cup {"kprobe", "register_kretprobe", "none"}) = {}
  /\ KernelFunctions \cap (FileWrites \cup {"register_kretprobe", "none"}) = {}

VARIABLES
  elems,     \* the map's elements
  stack,     \* the hooked calls each thread is in, innermost last
  events,    \* the events sent
  calls,     \* number of calls so far
  done,      \* history: calls that have returned and are KRIe's to report
  denied,    \* history: calls the entry probe refused
  nested,    \* history: calls that made a hooked call themselves
  spoiled,   \* history: calls whose element was evicted, or reused before it was read
  failed     \* history: threads with a register_kretprobe that ended early

vars == <<elems, stack, events, calls, done, denied, nested, spoiled, failed>>

Blank == [key |-> Free, type |-> "none", data |-> 0, kret |-> FALSE]
TypeOf(fn) == IF fn \in Syscalls THEN fn ELSE "kprobe"

-----------------------------------------------------------------------------
EntriesOf(t) == {e \in DOMAIN elems : elems[e].key = t}
peek_any(t, type) == EntriesOf(t)      \* mutant: the type is not compared
peek_shared(t, type) ==      \* mutant: the key is the process, not the thread
  {e \in DOMAIN elems : elems[e].type = type}
peek_syscall(t, type) == {e \in EntriesOf(t) : elems[e].type = type}

(* An update takes a free element, or evicts the entry of any other one,   *)
(* and frees the element of the key's former entry.                        *)
Victims == LET free == {e \in DOMAIN elems : elems[e].key = Free}
           IN  IF free = {} THEN DOMAIN elems ELSE free
InsertIfNew(t, v, e) ==      \* mutant: BPF_NOEXIST, a former entry stays
  IF EntriesOf(t) # {} THEN elems ELSE [elems EXCEPT ![e] = v]
InsertBeside(t, v, e) ==      \* mutant: an entry per call instead of one per thread
  [elems EXCEPT ![e] = v]
cache_syscall(t, v, e) ==
  [f \in DOMAIN elems |-> IF f = e THEN v
                          ELSE IF elems[f].key = t THEN [elems[f] EXCEPT !.key = Free] ELSE elems[f]]

(* The calls hurt when element e is taken: those of other threads whose    *)
(* entry is evicted, and those whose probe still holds a pointer to it.    *)
Hurt(t, e) == UNION {{stack[u][i].id : i \in {i \in DOMAIN stack[u] :
                        stack[u][i].ptr = e \/ elems[e].key = u}} : u \in Thread \ {t}}

(* "within" is the register_kretprobe a register_kprobe was called by;     *)
(* "at" tells what the thread is about to do in a probe of the call: look  *)
(* its entry up again, write or read through "ptr", or nothing.            *)
Frame(fn, id) == [fn |-> fn, id |-> id, ptr |-> 0, within |-> 0, at |-> "body"]
Top(t) == IF stack[t] = <<>> THEN Frame("none", 0) ELSE stack[t][Len(stack[t])]
SetTop(t, frame) == [stack EXCEPT ![t][Len(stack[t])] = frame]
Below(t) == SubSeq(stack[t], 1, Len(stack[t]) - 1)
Push(t, frame) == /\ calls < MaxCalls
                  /\ calls' = calls + 1
                  /\ stack' = [stack EXCEPT ![t] = Append(@, frame)]
                  /\ nested' = nested \cup {stack[t][i].id : i \in DOMAIN stack[t]}

-----------------------------------------------------------------------------
Init ==
  /\ elems = [e \in 1 .. Slots |-> Blank]
  /\ stack = [t \in Thread |-> <<>>]
  /\ events = {} /\ calls = 0
  /\ done = {} /\ denied = {} /\ nested = {} /\ spoiled = {} /\ failed = {}

(* Entry of a hooked syscall: cached, and dropped again when the verdict   *)
(* is above LOG. A refused call reaches its return probe like any other.   *)
Drop(es, t) == [e \in DOMAIN es |-> IF es[e].key = t THEN [es[e] EXCEPT !.key = Free] ELSE es[e]]
sys_enter(t, fn, refused) ==
  LET id == calls + 1
      v  == [key |-> t, type |-> fn, data |-> id, kret |-> FALSE]
  IN  /\ stack[t] = <<>>
      /\ Push(t, Frame(fn, id))
      /\ \E e \in Victims :
            /\ elems' = IF refused THEN Drop(cache_syscall(t, v, e), t) ELSE cache_syscall(t, v, e)
            /\ spoiled' = spoiled \cup Hurt(t, e)
      /\ denied' = IF refused THEN denied \cup {id} ELSE denied
      /\ UNCHANGED <<events, done, failed>>

(* The kprobe functions, called by a module from a hooked syscall or from  *)
(* a context of its own: an entry of their type is reused, any other one   *)
(* overwritten by one that has no data yet. The new one is looked up       *)
(* again, and the data is written through the pointer.                     *)
InKernel(t) == Top(t).at = "body" /\ Top(t).id \notin denied
               /\ Top(t).fn \notin KernelFunctions \cup FileWrites
KprobeEntry(t, data, kret) == [key |-> t, type |-> "kprobe", data |-> data, kret |-> kret]
CacheResetsKind(t, e) ==      \* mutant: the kind is set for a reused entry too
  IF peek_syscall(t, "kprobe") # {}
    THEN [f \in DOMAIN elems |-> IF elems[f].key = t THEN [elems[f] EXCEPT !.kret = FALSE] ELSE elems[f]]
    ELSE cache_syscall(t, KprobeEntry(t, 0, FALSE), e)
cache_kprobe(t, e) ==
  IF peek_syscall(t, "kprobe") # {} THEN elems ELSE cache_syscall(t, KprobeEntry(t, 0, FALSE), e)
kprobe_function(t, fn) ==
  LET id == calls + 1
      wrapped == Top(t).fn = "register_kretprobe"
      frame == [Frame(fn, id) EXCEPT !.within = IF wrapped THEN Top(t).id ELSE 0]
  IN  /\ InKernel(t) /\ (wrapped => fn = "register_kprobe" /\ Top(t).id \notin nested)
      /\ \/ \E e \in peek_syscall(t, "kprobe") :
               /\ Push(t, [frame EXCEPT !.at = "write", !.ptr = e])
               /\ elems' = cache_kprobe(t, e) /\ UNCHANGED spoiled
         \/ \E e \in Victims :
               /\ peek_syscall(t, "kprobe") = {}
               /\ Push(t, [frame EXCEPT !.at = "peek"])
               /\ elems' = cache_kprobe(t, e) /\ spoiled' = spoiled \cup Hurt(t, e)
      /\ UNCHANGED <<events, done, denied, failed>>

(* The entry is found again, or was evicted meanwhile.                     *)
peek_again(t) ==
  /\ Top(t).at = "peek"
  /\ \/ \E e \in peek_syscall(t, "kprobe") : stack' = SetTop(t, [Top(t) EXCEPT !.at = "write", !.ptr = e])
     \/ peek_syscall(t, "kprobe") = {} /\ stack' = SetTop(t, [Top(t) EXCEPT !.at = "body"])
  /\ UNCHANGED <<elems, events, calls, done, denied, nested, spoiled, failed>>

(* Probes on what a syscall calls (trace_module, kprobe_security_bpf_map,  *)
(* kprobe_sk_attach_filter and others) complete its entry the same way.    *)
peek_inside(t) ==
  /\ Top(t).fn \in Syscalls /\ Top(t).at = "body" /\ Top(t).id \notin denied
  /\ \E e \in peek_syscall(t, Top(t).fn) : stack' = SetTop(t, [Top(t) EXCEPT !.at = "write", !.ptr = e])
  /\ UNCHANGED <<elems, events, calls, done, denied, nested, spoiled, failed>>

write_through(t) ==
  /\ Top(t).at = "write"
  /\ elems' = [elems EXCEPT ![Top(t).ptr].data = Top(t).id]
  /\ spoiled' = spoiled \cup Hurt(t, Top(t).ptr)
  /\ stack' = SetTop(t, [Top(t) EXCEPT !.at = "body", !.ptr = 0])
  /\ UNCHANGED <<events, calls, done, denied, nested, failed>>

(* A write to the file that arms or disarms all kprobes: cached with the   *)
(* value written, or not at all when it cannot be parsed.                  *)
write_enabled_file_bool(t) ==
  LET id == calls + 1 IN
  /\ stack[t] = <<>>
  /\ \/ /\ Push(t, Frame("write_enabled_file_bool", id))
        /\ \E e \in Victims : /\ elems' = cache_syscall(t, KprobeEntry(t, id, FALSE), e)
                              /\ spoiled' = spoiled \cup Hurt(t, e)
     \/ Push(t, Frame("bogus_write", id)) /\ UNCHANGED <<elems, spoiled>>
  /\ UNCHANGED <<events, done, denied, failed>>

(* register_kretprobe stands for unregister_kretprobe too, which calls     *)
(* __unregister_kprobe_top as this one calls register_kprobe.              *)
register_kretprobe(t) ==
  LET id == calls + 1 IN
  /\ InKernel(t) /\ Top(t).fn # "register_kretprobe"
  /\ Push(t, Frame("register_kretprobe", id))
  /\ \E e \in Victims :
        /\ elems' = cache_syscall(t, KprobeEntry(t, id, TRUE), e)
        /\ spoiled' = spoiled \cup Hurt(t, e)
  /\ UNCHANGED <<events, done, denied, failed>>

(* It has no return probe: the entry is left to the register_kprobe it     *)
(* calls, if it comes that far.                                            *)
register_kretprobe_returns(t) ==
  /\ Top(t).fn = "register_kretprobe" /\ Top(t).at = "body"
  /\ stack' = [stack EXCEPT ![t] = Below(t)]
  /\ failed' = IF Top(t).id \in nested THEN failed ELSE failed \cup {t}
  /\ UNCHANGED <<elems, events, calls, done, denied, nested, spoiled>>

(* A return probe: pop_syscall finds the entry, deletes it and keeps the   *)
(* pointer, or finds none and the call goes unreported.                    *)
Returning(t) == Top(t).at = "body" /\ Top(t).fn \notin {"none", "register_kretprobe"}
Return(t) == /\ stack' = [stack EXCEPT ![t] = Below(t)]
             /\ done' = IF t \in Exempt \/ Top(t).fn = "bogus_write" THEN done ELSE done \cup {Top(t).id}
pop_syscall(t) ==
  /\ Returning(t)
  /\ \E e \in peek_syscall(t, TypeOf(Top(t).fn)) :
        /\ elems' = [elems EXCEPT ![e].key = Free]
        /\ stack' = SetTop(t, [Top(t) EXCEPT !.at = "read", !.ptr = e])
  /\ UNCHANGED <<events, calls, done, denied, nested, spoiled, failed>>
pop_nothing(t) ==
  /\ Returning(t)
  /\ peek_syscall(t, TypeOf(Top(t).fn)) = {}
  /\ Return(t)
  /\ UNCHANGED <<elems, events, calls, denied, nested, spoiled, failed>>

(* The event is filled from the deleted element, and sent unless the       *)
(* caller is exempt.                                                       *)
send_event(t) ==
  /\ Top(t).at = "read"
  /\ events' = IF t \in Exempt THEN events ELSE
                events \cup {[thread |-> t, fn |-> Top(t).fn, id |-> Top(t).id, within |-> Top(t).within,
                             data |-> elems[Top(t).ptr].data, kret |-> elems[Top(t).ptr].kret]}
  /\ Return(t)
  /\ UNCHANGED <<elems, calls, denied, nested, spoiled, failed>>

Next == \E t \in Thread :
  \/ \E fn \in Syscalls : sys_enter(t, fn, TRUE) \/ sys_enter(t, fn, FALSE)
  \/ \E fn \in KernelFunctions : kprobe_function(t, fn)
  \/ peek_again(t) \/ peek_inside(t) \/ write_through(t)
  \/ write_enabled_file_bool(t)
  \/ register_kretprobe(t) \/ register_kretprobe_returns(t)
  \/ pop_syscall(t) \/ pop_nothing(t) \/ send_event(t)

Spec == Init /\ [][Next]_vars

-----------------------------------------------------------------------------
(* A thread has at most one entry, and a probe holds at most one element.  *)
TypeOK ==
  /\ DOMAIN elems = 1 .. Slots /\ calls \in 0 .. MaxCalls
  /\ \A t \in Thread : Cardinality(EntriesOf(t)) <= 1
  /\ \A t \in Thread : \A i \in DOMAIN stack[t] : stack[t][i].ptr \in 0 .. Slots

(* An event shows the data of the call it is sent for, however calls of    *)
(* different threads and types are nested, refused or left unfinished;     *)
(* only another thread's update or late write of the element, after the    *)
(* entry was evicted or deleted, can mix two calls (cache_syscall,         *)
(* write_through), and a write that cannot be parsed is reported with the  *)
(* entry a register_kretprobe that ended early left behind. A call that    *)
(* the entry probe refused is not reported as having been made.            *)
EventsOfTheirCall == \A e \in events :
  /\ e.id \notin denied
  /\ e.id \notin spoiled => IF e.fn = "bogus_write" THEN e.thread \in failed ELSE e.data = e.id

(* A call that returns is reported, unless it is one of KRIe, init or idle *)
(* or a write that cannot be parsed, was refused, made a hooked call of    *)
(* its own, which takes the one entry of the thread, or lost its element   *)
(* to another thread: entries left behind by earlier calls of the thread   *)
(* never stand in the way.                                                 *)
ReturnsReported == \A id \in done \ (denied \cup nested \cup spoiled) : \E e \in events : e.id = id

(* kprobe_type tells whether the probe was registered as a return probe,   *)
(* unless a register_kretprobe of the thread ended before it called        *)
(* register_kprobe: its entry is taken for the one of the next call.       *)
KindTrue == \A e \in events :
  ({e.id, e.within} \cap spoiled = {} /\ e.thread \notin failed) => e.kret = (e.within # 0)

(* The map shared by all threads is a slot of its own for each: what a     *)
(* thread cached is what its return probe takes, other threads never read  *)
(* it, and only an update of theirs that takes the element can cost it the *)
(* entry or the content it is about to read; a thread writes into the      *)
(* content of another one only after it has lost its own entry that way    *)
(* (cache_syscall, cache_kprobe, pop_syscall).                             *)
Content == [data : 0 .. MaxCalls, kret : BOOLEAN]
ContentOf(e) == [data |-> elems[e].data, kret |-> elems[e].kret]
SlotOf == [t \in Thread |-> {ContentOf(e) : e \in EntriesOf(t)}]
HandOf == [t \in Thread |-> IF Top(t).at = "read" THEN {ContentOf(Top(t).ptr)} ELSE {}]

Private == INSTANCE ThreadSlots WITH slot <- SlotOf, hand <- HandOf

SlotsPrivate == Private!Spec
=============================================================================
