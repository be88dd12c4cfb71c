------------------------- MODULE SyscallCacheProofs -------------------------
(***************************************************************************)
(* Proofs about the syscall cache, for any threads, any number of elements *)
(* and calls, and any sets of hooked syscalls and kprobe functions.        *)
(***************************************************************************)
EXTENDS SyscallCache, FiniteSetTheorems, TLAPS

Elem == [key : Thread \cup {Free}, type : Syscalls \cup {"kprobe", "none"}, data : Nat, kret : BOOLEAN]
Fn == Syscalls \cup KernelFunctions \cup FileWrites \cup {"register_kretprobe"}
Frames == [fn : Fn, id : Nat \ {0}, ptr : 0 .. Slots, within : Nat, at : {"body", "peek", "write", "read"}]

(* Calls from user space; calls that cache what they report; and a call    *)
(* that may be making another one.                                         *)
Base == Syscalls \cup FileWrites
Cached == KernelFunctions \cup {"write_enabled_file_bool"}
Outer(fr) == fr.at = "body" /\ fr.fn \notin KernelFunctions \cup FileWrites

TypeInv ==
  /\ elems \in [1 .. Slots -> Elem]
  /\ stack \in [Thread -> Seq(Frames)]
  /\ calls \in 0 .. MaxCalls
  /\ denied \subseteq 1 .. calls /\ nested \subseteq 1 .. calls

(* One entry per thread: what everything else rests on.                    *)
OneEntry == \A e, f \in 1 .. Slots : elems[e].key = elems[f].key => e = f \/ elems[e].key = Free

(* A thread is in at most one call at each level: only the innermost one   *)
(* is in a probe, the others have made a hooked call and are not refused,  *)
(* only the outermost can be a syscall, and register_kretprobe does not    *)
(* call itself.                                                            *)
StackInv ==
  \A t \in Thread : \A i \in DOMAIN stack[t] :
     /\ stack[t][i].id <= calls
     /\ stack[t][i].fn \in Base => i = 1 /\ stack[t][i].within = 0
     /\ stack[t][i].fn = "register_kretprobe" /\ i # 1 => stack[t][i - 1].fn # "register_kretprobe"
     /\ i < Len(stack[t]) => stack[t][i].id \in nested \ denied /\ Outer(stack[t][i])
IdsApart ==
  \A t, u \in Thread : \A i \in DOMAIN stack[t], j \in DOMAIN stack[u] :
     stack[t][i].id = stack[u][j].id => t = u

(* The kind recorded in an element is that of the call.                    *)
KindOf(t, e) ==
  ({Top(t).id, Top(t).within} \cap spoiled = {} /\ t \notin failed) => elems[e].kret = (Top(t).within # 0)

(* A return probe that has deleted its entry holds the only pointer to it, *)
(* unless the element was taken by another thread.                         *)
ReadInv(t) ==
  Top(t).at = "read" =>
     /\ Top(t).ptr \in 1 .. Slots /\ EntriesOf(t) = {} /\ Top(t).id \notin denied
     /\ Top(t).fn = "bogus_write" => t \in failed
     /\ Top(t).id \notin spoiled => /\ elems[Top(t).ptr].key = Free
                                    /\ Top(t).fn # "bogus_write" => elems[Top(t).ptr].data = Top(t).id
                                    /\ KindOf(t, Top(t).ptr)

(* A probe about to write holds a pointer to the thread's entry, unless    *)
(* the element was taken: then the thread has none.                        *)
WriteInv(t) ==
  /\ Top(t).at = "write" =>
       /\ Top(t).ptr \in 1 .. Slots /\ Top(t).fn \in Syscalls \cup KernelFunctions
       /\ Top(t).id \notin denied
       /\ elems[Top(t).ptr].key = t \/ EntriesOf(t) = {}
       /\ Top(t).id \notin spoiled => elems[Top(t).ptr].key = t
  /\ Top(t).at = "peek" => Top(t).fn \in KernelFunctions
PointerInv(t) == ReadInv(t) /\ WriteInv(t)

(* The entry of a thread, by the innermost call it is in.                  *)
ContentInv(t, e) ==
  /\ Top(t).fn \in Syscalls /\ elems[e].type = Top(t).fn /\ Top(t).id \notin spoiled
       => elems[e].data = Top(t).id /\ elems[e].kret = FALSE
  /\ Top(t).fn \in Syscalls \cup {"none", "bogus_write"} /\ t \notin failed => elems[e].type # "kprobe"
  /\ Top(t).fn \in Cached \cup {"register_kretprobe"} => elems[e].type = "kprobe"
  /\ Top(t).fn \in Cached =>
       KindOf(t, e) /\ (Top(t).at = "body" /\ Top(t).id \notin spoiled => elems[e].data = Top(t).id)
EntryInv(t) ==
  /\ Top(t).id \in denied => EntriesOf(t) = {}
  /\ \A e \in EntriesOf(t) : ContentInv(t, e)
  /\ (/\ Top(t).fn \in Syscalls \cup Cached /\ Top(t).at # "read"
      /\ Top(t).id \notin denied \cup nested \cup spoiled)
       => \E e \in EntriesOf(t) : elems[e].type = TypeOf(Top(t).fn)
  /\ Top(t).fn = "register_kretprobe" =>
       /\ Top(t).id \in nested => EntriesOf(t) = {}
       /\ Top(t).id \notin nested \cup spoiled => \E e \in EntriesOf(t) : elems[e].kret = TRUE

EventInv ==
  /\ done \subseteq 1 .. calls
  /\ \A e \in events : e.id \in 1 .. calls
  /\ EventsOfTheirCall /\ ReturnsReported /\ KindTrue

Inv ==
  /\ TypeInv /\ OneEntry /\ StackInv /\ IdsApart
  /\ \A t \in Thread : PointerInv(t) /\ EntryInv(t)
  /\ EventInv

-----------------------------------------------------------------------------
(* The innermost call of a thread.                                         *)
LEMMA TopCases ==
  ASSUME TypeInv, NEW t \in Thread
  PROVE  \/ stack[t] = <<>> /\ Top(t) = Frame("none", 0)
         \/ /\ stack[t] # <<>> /\ Len(stack[t]) \in Nat \ {0} /\ Len(stack[t]) \in DOMAIN stack[t]
            /\ Top(t) = stack[t][Len(stack[t])] /\ Top(t) \in Frames
<1>1. stack[t] \in Seq(Frames)
  BY DEF TypeInv
<1>2. Len(stack[t]) \in Nat /\ DOMAIN stack[t] = 1 .. Len(stack[t])
  BY <1>1
<1>3. stack[t] # <<>> => Len(stack[t]) # 0
  BY <1>1
<1> QED
  BY <1>1, <1>2, <1>3 DEF Top

(* A call is entered.                                                      *)
LEMMA PushStack ==
  ASSUME Inv, NEW t \in Thread, NEW STATE fr, fr \in Frames, Push(t, fr),
         fr.id = calls + 1, denied \subseteq denied', denied' \subseteq denied \cup {fr.id},
         stack[t] = <<>> \/ InKernel(t),
         fr.fn \in Base => stack[t] = <<>> /\ fr.within = 0,
         fr.fn = "register_kretprobe" => Top(t).fn # "register_kretprobe"
  PROVE  /\ stack' \in [Thread -> Seq(Frames)] /\ calls' \in 0 .. MaxCalls /\ calls' = calls + 1
         /\ denied' \subseteq 1 .. calls' /\ nested' \subseteq 1 .. calls'
         /\ StackInv' /\ IdsApart' /\ Top(t)' = fr /\ fr.id \notin nested'
         /\ \A u \in Thread \ {t} : stack'[u] = stack[u]
<1> DEFINE s == stack[t]
<1>1. s \in Seq(Frames) /\ calls \in 0 .. MaxCalls /\ stack \in [Thread -> Seq(Frames)]
  BY DEF Inv, TypeInv
<1>2. Len(s) \in Nat /\ DOMAIN s = 1 .. Len(s)
  BY <1>1
<1>3. stack' = [stack EXCEPT ![t] = Append(s, fr)] /\ calls' = calls + 1 /\ calls < MaxCalls
      /\ nested' = nested \cup {s[i].id : i \in DOMAIN s}
  BY DEF Push
<1>4. stack'[t] = Append(s, fr) /\ \A u \in Thread \ {t} : stack'[u] = stack[u]
  BY <1>1, <1>3
<1>5. stack' \in [Thread -> Seq(Frames)]
  BY <1>1, <1>3
<1>6. /\ Len(stack'[t]) = Len(s) + 1 /\ DOMAIN stack'[t] = 1 .. Len(s) + 1
      /\ stack'[t][Len(s) + 1] = fr /\ \A i \in 1 .. Len(s) : stack'[t][i] = s[i]
  BY <1>1, <1>2, <1>4
<1>7. MaxCalls \in Nat
  BY SyscallCacheAssumption
<1>8. calls' \in 0 .. MaxCalls
  BY <1>1, <1>3, <1>7
<1>9. denied' \subseteq 1 .. calls'
  BY <1>1, <1>3, <1>7 DEF Inv, TypeInv
<1>10. \A u \in Thread : \A i \in DOMAIN stack[u] : stack[u][i] \in Frames /\ stack[u][i].id \in 1 .. calls
  <2> SUFFICES ASSUME NEW u \in Thread, NEW i \in DOMAIN stack[u]
               PROVE  stack[u][i] \in Frames /\ stack[u][i].id \in 1 .. calls
    OBVIOUS
  <2>1. stack[u] \in Seq(Frames)
    BY <1>1
  <2>2. stack[u][i] \in Frames
    BY <2>1
  <2>3. stack[u][i].id \in Nat \ {0} /\ stack[u][i].id <= calls
    BY <2>2 DEF Frames, Inv, StackInv
  <2> QED
    BY <1>1, <2>2, <2>3
<1>11. nested' \subseteq 1 .. calls' /\ fr.id \notin nested'
  <2>1. nested \subseteq 1 .. calls
    BY DEF Inv, TypeInv
  <2>2. nested' \subseteq 1 .. calls
    BY <1>3, <1>10, <2>1
  <2> QED
    BY <1>1, <1>3, <1>7, <2>2
<1>12. Top(t)' = fr
  BY <1>6, <1>2, <1>5, <1>4, <1>1 DEF Top
<1>13. StackInv'
  <2> SUFFICES ASSUME NEW u \in Thread, NEW i \in DOMAIN stack'[u]
               PROVE  /\ stack'[u][i].id <= calls'
                      /\ stack'[u][i].fn \in Base => i = 1 /\ stack'[u][i].within = 0
                      /\ stack'[u][i].fn = "register_kretprobe" /\ i # 1
                           => stack'[u][i - 1].fn # "register_kretprobe"
                      /\ i < Len(stack'[u]) => stack'[u][i].id \in nested' \ denied' /\ Outer(stack'[u][i])
    BY DEF StackInv
  <2>1. CASE u # t
    <3>1. stack'[u] = stack[u] /\ i \in DOMAIN stack[u]
      BY <2>1, <1>4
    <3>2. stack[u][i].id \in 1 .. calls
      BY <3>1, <1>10
    <3>3. stack[u][i].id \notin denied => stack[u][i].id \notin denied'
      BY <3>2, <1>1, <1>7
    <3>4. stack'[u][i].id <= calls'
      BY <3>1, <3>2, <1>3, <1>1
    <3> QED
      BY <3>1, <3>3, <3>4, <1>3 DEF Inv, StackInv
  <2>2. CASE u = t /\ i = Len(s) + 1
    <3>1. stack'[u][i] = fr /\ ~ (i < Len(stack'[u])) /\ fr.id <= calls'
      BY <2>2, <1>6, <1>2, <1>1, <1>3
    <3>2. fr.fn \in Base => i = 1 /\ fr.within = 0
      BY <2>2, <1>1
    <3>3. i # 1 => stack'[u][i - 1] = Top(t)
      BY <2>2, <1>6, <1>2, <1>1 DEF Top
    <3> QED
      BY <3>1, <3>2, <3>3
  <2>3. CASE u = t /\ i # Len(s) + 1
    <3>1. i \in 1 .. Len(s)
      BY <2>3, <1>6, <1>2
    <3>2. stack'[u][i] = s[i] /\ (i # 1 => stack'[u][i - 1] = s[i - 1])
      BY <2>3, <3>1, <1>6, <1>2
    <3>3. s[i].id \in 1 .. calls /\ s[i].id \in nested'
      BY <3>1, <1>2, <1>3, <1>10
    <3>4. s[i].id \notin denied => s[i].id \notin denied'
      BY <3>3, <1>1, <1>7
    <3>5. s[i].id \notin denied /\ Outer(s[i])
      <4>1. CASE i = Len(s)
        <5>1. s[i] = Top(t) /\ InKernel(t)
          BY <4>1, <3>1, <1>2, <1>1 DEF Top
        <5> QED
          BY <5>1 DEF InKernel, Outer
      <4>2. CASE i < Len(s)
        BY <4>2, <3>1, <1>2 DEF Inv, StackInv
      <4> QED
        BY <4>1, <4>2, <3>1, <1>2
    <3>6. s[i].id <= calls'
      BY <3>3, <1>1, <1>3
    <3>7. /\ s[i].fn \in Base => i = 1 /\ s[i].within = 0
          /\ s[i].fn = "register_kretprobe" /\ i # 1 => s[i - 1].fn # "register_kretprobe"
      BY <3>1, <1>2 DEF Inv, StackInv
    <3> HIDE DEF s
    <3> QED
      BY <3>2, <3>3, <3>4, <3>5, <3>6, <3>7, <2>3
  <2> QED
    BY <2>1, <2>2, <2>3
<1>14. IdsApart'
  <2>1. \A u \in Thread : \A i \in DOMAIN stack'[u] :
           \/ u = t /\ stack'[u][i].id = calls + 1
           \/ i \in DOMAIN stack[u] /\ stack'[u][i] = stack[u][i]
    BY <1>4, <1>6, <1>2
  <2>2. \A u \in Thread : \A i \in DOMAIN stack[u] : stack[u][i].id # calls + 1
    BY <1>10, <1>1, <1>7
  <2>3. \A u, w \in Thread : \A i \in DOMAIN stack[u], j \in DOMAIN stack[w] :
           stack[u][i].id = stack[w][j].id => u = w
    BY DEF Inv, IdsApart
  <2> SUFFICES ASSUME NEW u \in Thread, NEW w \in Thread, NEW i \in DOMAIN stack'[u],
                      NEW j \in DOMAIN stack'[w], stack'[u][i].id = stack'[w][j].id, u # w
               PROVE  FALSE
    BY DEF IdsApart
  <2> QED
    BY <2>1, <2>2, <2>3
<1> QED
  BY <1>3, <1>4, <1>5, <1>8, <1>9, <1>11, <1>12, <1>13, <1>14

(* A call returns.                                                         *)
LEMMA PopStack ==
  ASSUME Inv, NEW t \in Thread, stack[t] # <<>>, stack' = [stack EXCEPT ![t] = Below(t)],
         UNCHANGED <<calls, denied, nested>>
  PROVE  /\ stack' \in [Thread -> Seq(Frames)] /\ StackInv' /\ IdsApart'
         /\ \A u \in Thread \ {t} : stack'[u] = stack[u]
         /\ Top(t).fn \in Base => Top(t)' = Frame("none", 0)
         /\ \/ Top(t)' = Frame("none", 0)
            \/ /\ Top(t)' \in Frames /\ Top(t)'.id \in nested \ denied /\ Outer(Top(t)')
               /\ Top(t).fn = "register_kretprobe" => Top(t)'.fn # "register_kretprobe"
<1> DEFINE s == stack[t]
           n == Len(s)
<1>1. s \in Seq(Frames) /\ stack \in [Thread -> Seq(Frames)] /\ s # <<>>
  BY DEF Inv, TypeInv
<1>2. n \in Nat /\ DOMAIN s = 1 .. n /\ n # 0
  BY <1>1
<1>3. /\ Below(t) \in Seq(Frames) /\ Len(Below(t)) = n - 1 /\ DOMAIN Below(t) = 1 .. n - 1
      /\ \A i \in 1 .. n - 1 : Below(t)[i] = s[i]
  BY <1>1, <1>2 DEF Below
<1>4. stack'[t] = Below(t) /\ \A u \in Thread \ {t} : stack'[u] = stack[u]
  BY <1>1
<1>5. stack' \in [Thread -> Seq(Frames)]
  BY <1>1, <1>3
<1>6. \A u \in Thread : \A i \in DOMAIN stack'[u] :
         i \in DOMAIN stack[u] /\ stack'[u][i] = stack[u][i]
  BY <1>2, <1>3, <1>4
<1>7. IdsApart'
  BY <1>6 DEF Inv, IdsApart
<1>8. StackInv'
  <2> SUFFICES ASSUME NEW u \in Thread, NEW i \in DOMAIN stack'[u]
               PROVE  /\ stack'[u][i].id <= calls
                      /\ stack'[u][i].fn \in Base => i = 1 /\ stack'[u][i].within = 0
                      /\ stack'[u][i].fn = "register_kretprobe" /\ i # 1
                           => stack'[u][i - 1].fn # "register_kretprobe"
                      /\ i < Len(stack'[u]) => stack'[u][i].id \in nested \ denied /\ Outer(stack'[u][i])
    BY DEF StackInv
  <2>1. CASE u # t
    BY <2>1, <1>4 DEF Inv, StackInv
  <2>2. CASE u = t
    <3>1. i \in 1 .. n - 1 /\ stack'[u][i] = s[i] /\ (i # 1 => stack'[u][i - 1] = s[i - 1])
      BY <2>2, <1>2, <1>3, <1>4
    <3>2. i \in DOMAIN s /\ i < n
      BY <3>1, <1>2
    <3> QED
      BY <3>1, <3>2 DEF Inv, StackInv
  <2> QED
    BY <2>1, <2>2
<1>9. Top(t) = s[n] /\ n \in DOMAIN s
  BY <1>1, <1>2 DEF Top
<1>10. CASE n = 1
  <2>1. stack'[t] = <<>>
    BY <1>10, <1>3, <1>4
  <2>2. Top(t)' = Frame("none", 0)
    BY <2>1 DEF Top, Frame
  <2> QED
    BY <2>2, <1>4, <1>5, <1>7, <1>8
<1>11. CASE n # 1
  <2>1. n - 1 \in DOMAIN s /\ n - 1 \in 1 .. n - 1 /\ n - 1 < n
    <3> HIDE DEF n, s
    <3> QED
      BY <1>2, <1>11
  <2>2. stack'[t] # <<>> /\ stack'[t][n - 1] = s[n - 1] /\ Len(stack'[t]) = n - 1
    BY <2>1, <1>3, <1>4
  <2>3. Top(t)' = s[n - 1]
    BY <2>2 DEF Top
  <2>4. s[n - 1] \in Frames
    BY <2>1, <1>1
  <2>5. s[n - 1].id \in nested \ denied /\ Outer(s[n - 1])
    BY <2>1 DEF Inv, StackInv
  <2>6. s[n].fn \notin Base
    BY <1>9, <1>11 DEF Inv, StackInv
  <2>7. s[n].fn = "register_kretprobe" => s[n - 1].fn # "register_kretprobe"
    BY <1>9, <1>11 DEF Inv, StackInv
  <2> HIDE DEF s, n
  <2> QED
    BY <2>3, <2>4, <2>5, <2>6, <2>7, <1>9, <1>4, <1>5, <1>7, <1>8
<1> QED
  BY <1>10, <1>11

-----------------------------------------------------------------------------
(* What a step of thread t does to the elements, and the other histories:  *)
(* an element changes when it held the thread's entry, or when it is taken *)
(* or written into and the calls that need it are counted as spoiled.      *)
Takes(t) ==
  /\ elems' \in [1 .. Slots -> Elem]
  /\ \A f \in 1 .. Slots :
       \/ elems'[f] = elems[f]
       \/ /\ elems'[f].key \in {t, Free}
          /\ elems[f].key = t \/ Hurt(t, f) \subseteq spoiled'
       \/ /\ elems'[f].key = elems[f].key /\ elems'[f].type = elems[f].type /\ elems'[f].kret = elems[f].kret
          /\ Hurt(t, f) \subseteq spoiled'
  /\ spoiled \subseteq spoiled'

Elsewhere(t) ==
  /\ \A u \in Thread \ {t} : stack'[u] = stack[u]
  /\ denied \subseteq denied' /\ denied' \subseteq denied \cup {calls + 1}
  /\ nested \subseteq nested' /\ nested' \subseteq nested \cup {stack[t][i].id : i \in DOMAIN stack[t]}
  /\ failed \subseteq failed' /\ failed' \subseteq failed \cup {t}

LEMMA OthersKept ==
  ASSUME Inv, NEW t \in Thread, NEW u \in Thread \ {t}, Takes(t), Elsewhere(t)
  PROVE  PointerInv(u)' /\ EntryInv(u)'
<1>1. Top(u)' = Top(u)
  BY DEF Elsewhere, Top
<1>2. u # Free /\ t # Free /\ u # t
  BY SyscallCacheAssumption
<1>3. DOMAIN elems = 1 .. Slots /\ DOMAIN elems' = 1 .. Slots
  BY DEF Takes, Inv, TypeInv
<1>4. \A e \in EntriesOf(u)' : /\ e \in EntriesOf(u) /\ e \in 1 .. Slots
                               /\ elems'[e].type = elems[e].type /\ elems'[e].kret = elems[e].kret
  BY <1>2, <1>3 DEF Takes, EntriesOf
<1>5. \A f \in 1 .. Slots :
         (stack[u] # <<>> /\ (Top(u).ptr = f \/ elems[f].key = u)) => Top(u).id \in Hurt(t, f)
  <2> SUFFICES ASSUME NEW f \in 1 .. Slots, stack[u] # <<>>, Top(u).ptr = f \/ elems[f].key = u
               PROVE  Top(u).id \in Hurt(t, f)
    OBVIOUS
  <2>1. Len(stack[u]) \in DOMAIN stack[u] /\ Top(u) = stack[u][Len(stack[u])]
    BY TopCases DEF Inv
  <2>2. Top(u).id \in {stack[u][i].id : i \in {i \in DOMAIN stack[u] :
                                                 stack[u][i].ptr = f \/ elems[f].key = u}}
    BY <2>1
  <2> QED
    BY <2>2 DEF Hurt
<1>6. stack[u] # <<>> => Top(u).id \in 1 .. calls /\ Top(u) \in Frames
  <2> SUFFICES ASSUME stack[u] # <<>> PROVE Top(u).id \in 1 .. calls /\ Top(u) \in Frames
    OBVIOUS
  <2>1. Len(stack[u]) \in DOMAIN stack[u] /\ Top(u) = stack[u][Len(stack[u])] /\ Top(u) \in Frames
    BY TopCases DEF Inv
  <2>2. Top(u).id <= calls /\ Top(u).id \in Nat \ {0} /\ calls \in Nat
    BY <2>1 DEF Inv, StackInv, Frames, TypeInv
  <2> QED
    BY <2>1, <2>2
<1>7. stack[u] = <<>> => Top(u).id = 0 /\ Top(u).fn = "none" /\ Top(u).at = "body" /\ Top(u).within = 0
  BY DEF Top, Frame
<1>8. calls \in Nat /\ 0 \notin denied /\ 0 \notin nested
  BY DEF Inv, TypeInv
<1>9. Top(u).id \in denied' => Top(u).id \in denied
  BY <1>6, <1>7, <1>8 DEF Elsewhere
<1>10. Top(u).id \in nested' => Top(u).id \in nested
  <2>1. CASE stack[u] = <<>>
    <3>1. \A i \in DOMAIN stack[t] : stack[t][i].id # 0
      <4>1. stack[t] \in Seq(Frames)
        BY DEF Inv, TypeInv
      <4>2. \A i \in DOMAIN stack[t] : stack[t][i] \in Frames
        BY <4>1
      <4> QED
        BY <4>2 DEF Frames
    <3> QED
      BY <3>1, <2>1, <1>7 DEF Elsewhere
  <2>2. CASE stack[u] # <<>>
    <3>1. Len(stack[u]) \in DOMAIN stack[u] /\ Top(u) = stack[u][Len(stack[u])]
      BY <2>2, TopCases DEF Inv
    <3>2. \A i \in DOMAIN stack[t] : stack[t][i].id # Top(u).id
      BY <3>1, <1>2 DEF Inv, IdsApart
    <3> QED
      BY <3>2 DEF Elsewhere
  <2> QED
    BY <2>1, <2>2
<1>11. u \in failed' <=> u \in failed
  BY <1>2 DEF Elsewhere
<1>12. denied \subseteq denied' /\ nested \subseteq nested' /\ spoiled \subseteq spoiled'
  BY DEF Elsewhere, Takes
<1>13. \A f \in 1 .. Slots :
          (Top(u).id \notin spoiled' /\ stack[u] # <<>> /\ elems[f].key # t
             /\ (Top(u).ptr = f \/ elems[f].key = u)) => elems'[f] = elems[f]
  BY <1>5 DEF Takes
<1>14. \A e : elems'[e].kret = elems[e].kret /\ KindOf(u, e) => KindOf(u, e)'
  BY <1>1, <1>11, <1>12 DEF KindOf
<1>15. ReadInv(u) /\ WriteInv(u) /\ EntryInv(u)
  BY DEF Inv, PointerInv
<1>16. ReadInv(u)'
  <2> SUFFICES ASSUME Top(u).at = "read"
               PROVE  /\ Top(u).ptr \in 1 .. Slots /\ EntriesOf(u)' = {} /\ Top(u).id \notin denied'
                      /\ Top(u).fn = "bogus_write" => u \in failed'
                      /\ Top(u).id \notin spoiled' =>
                           /\ elems'[Top(u).ptr].key = Free
                           /\ Top(u).fn # "bogus_write" => elems'[Top(u).ptr].data = Top(u).id
                           /\ KindOf(u, Top(u).ptr)'
    BY <1>1 DEF ReadInv
  <2>1. stack[u] # <<>> /\ Top(u).ptr \in 1 .. Slots
    BY <1>7, <1>15 DEF ReadInv
  <2>2. EntriesOf(u)' = {} /\ Top(u).id \notin denied' /\ (Top(u).fn = "bogus_write" => u \in failed')
    BY <1>15, <1>4, <1>9, <1>11 DEF ReadInv
  <2>3. ASSUME Top(u).id \notin spoiled'
        PROVE  /\ elems'[Top(u).ptr] = elems[Top(u).ptr] /\ elems[Top(u).ptr].key = Free
               /\ Top(u).fn # "bogus_write" => elems[Top(u).ptr].data = Top(u).id
               /\ KindOf(u, Top(u).ptr)
    <3>1. /\ elems[Top(u).ptr].key = Free /\ KindOf(u, Top(u).ptr)
          /\ Top(u).fn # "bogus_write" => elems[Top(u).ptr].data = Top(u).id
      BY <2>3, <1>12, <1>15 DEF ReadInv
    <3> QED
      BY <3>1, <2>1, <1>2, <1>13, <2>3
  <2>4. Top(u).id \notin spoiled' => KindOf(u, Top(u).ptr)'
    BY <2>1, <2>3, <1>1, <1>11, <1>12 DEF KindOf
  <2> QED
    BY <2>1, <2>2, <2>3, <2>4
<1>18. WriteInv(u)'
  <2>1. ASSUME Top(u).at = "write"
        PROVE  /\ Top(u).ptr \in 1 .. Slots /\ Top(u).fn \in Syscalls \cup KernelFunctions
               /\ Top(u).id \notin denied'
               /\ elems'[Top(u).ptr].key = u \/ EntriesOf(u)' = {}
               /\ Top(u).id \notin spoiled' => elems'[Top(u).ptr].key = u
    <3>1. /\ Top(u).ptr \in 1 .. Slots /\ Top(u).fn \in Syscalls \cup KernelFunctions
          /\ Top(u).id \notin denied' /\ stack[u] # <<>>
          /\ elems[Top(u).ptr].key = u \/ EntriesOf(u) = {}
          /\ Top(u).id \notin spoiled => elems[Top(u).ptr].key = u
      BY <2>1, <1>7, <1>9, <1>15 DEF WriteInv
    <3>2. Top(u).id \notin spoiled' => elems'[Top(u).ptr].key = u
      BY <3>1, <1>2, <1>12, <1>13
    <3>3. CASE EntriesOf(u) = {}
      BY <3>1, <3>2, <3>3, <1>4
    <3>4. CASE elems[Top(u).ptr].key = u
      <4>1. \A e \in EntriesOf(u) : e = Top(u).ptr
        BY <3>1, <3>4, <1>2, <1>3 DEF Inv, OneEntry, EntriesOf
      <4>2. \A e \in EntriesOf(u)' : e = Top(u).ptr /\ elems'[e].key = u
        BY <4>1, <1>4 DEF EntriesOf
      <4> QED
        BY <3>1, <3>2, <4>2
    <3> QED
      BY <3>1, <3>3, <3>4
  <2>2. Top(u).at = "peek" => Top(u).fn \in KernelFunctions
    BY <1>15 DEF WriteInv
  <2> QED
    BY <2>1, <2>2, <1>1 DEF WriteInv
<1>17. EntryInv(u)'
  <2>1. Top(u).id \in denied' => EntriesOf(u)' = {}
    BY <1>15, <1>4, <1>9 DEF EntryInv
  <2>2. ASSUME NEW e \in EntriesOf(u)'
        PROVE  ContentInv(u, e)'
    <3>1. /\ e \in EntriesOf(u) /\ e \in 1 .. Slots /\ elems'[e].type = elems[e].type
          /\ elems'[e].kret = elems[e].kret /\ ContentInv(u, e)
      BY <1>4, <1>15 DEF EntryInv
    <3>2. elems[e].key = u
      BY <3>1 DEF EntriesOf
    <3>3. Top(u).fn \in Syscalls \cup Cached => stack[u] # <<>>
      BY <1>7, SyscallCacheAssumption DEF Cached
    <3>4. Top(u).fn \in Syscalls \cup Cached /\ Top(u).id \notin spoiled' => elems'[e] = elems[e]
      BY <3>1, <3>2, <3>3, <1>2, <1>13
    <3>5. Top(u).fn \in Cached => KindOf(u, e)'
      BY <3>1, <1>14 DEF ContentInv
    <3> QED
      BY <3>1, <3>4, <3>5, <1>1, <1>11, <1>12 DEF ContentInv
  <2>3. \A e \in EntriesOf(u) : Top(u).id \notin spoiled' /\ stack[u] # <<>> =>
           e \in EntriesOf(u)' /\ elems'[e] = elems[e]
    BY <1>13, <1>3, <1>2 DEF EntriesOf
  <2>4. (/\ Top(u).fn \in Syscalls \cup Cached /\ Top(u).at # "read"
         /\ Top(u).id \notin denied' \cup nested' \cup spoiled')
            => \E e \in EntriesOf(u)' : elems'[e].type = TypeOf(Top(u).fn)
    <3> SUFFICES ASSUME Top(u).fn \in Syscalls \cup Cached, Top(u).at # "read",
                        Top(u).id \notin denied' \cup nested' \cup spoiled'
                 PROVE  \E e \in EntriesOf(u)' : elems'[e].type = TypeOf(Top(u).fn)
      OBVIOUS
    <3>1. stack[u] # <<>>
      BY <1>7, SyscallCacheAssumption DEF Cached
    <3>2. PICK e \in EntriesOf(u) : elems[e].type = TypeOf(Top(u).fn)
      BY <1>15, <1>12 DEF EntryInv
    <3> QED
      BY <3>1, <3>2, <2>3
  <2>5. Top(u).fn = "register_kretprobe" =>
          /\ Top(u).id \in nested' => EntriesOf(u)' = {}
          /\ Top(u).id \notin nested' \cup spoiled' => \E e \in EntriesOf(u)' : elems'[e].kret = TRUE
    <3> SUFFICES ASSUME Top(u).fn = "register_kretprobe"
                 PROVE  /\ Top(u).id \in nested' => EntriesOf(u)' = {}
                        /\ Top(u).id \notin nested' \cup spoiled'
                             => \E e \in EntriesOf(u)' : elems'[e].kret = TRUE
      OBVIOUS
    <3>1. stack[u] # <<>>
      BY <1>7
    <3>2. Top(u).id \in nested' => EntriesOf(u)' = {}
      BY <1>15, <1>4, <1>10 DEF EntryInv
    <3>3. ASSUME Top(u).id \notin nested' \cup spoiled'
          PROVE  \E e \in EntriesOf(u)' : elems'[e].kret = TRUE
      <4>1. PICK e \in EntriesOf(u) : elems[e].kret = TRUE
        BY <1>15, <1>12, <3>3 DEF EntryInv
      <4> QED
        BY <3>1, <3>3, <4>1, <2>3
    <3> QED
      BY <3>2, <3>3
  <2> QED
    BY <1>1, <2>1, <2>2, <2>4, <2>5 DEF EntryInv
<1> QED
  BY <1>16, <1>17, <1>18 DEF PointerInv

LEMMA StepKeeps ==
  ASSUME Inv, NEW t \in Thread, Takes(t), Elsewhere(t),
         stack' \in [Thread -> Seq(Frames)], calls' \in 0 .. MaxCalls,
         denied' \subseteq 1 .. calls', nested' \subseteq 1 .. calls',
         OneEntry', StackInv', IdsApart', PointerInv(t)', EntryInv(t)', EventInv'
  PROVE  Inv'
<1>1. \A u \in Thread : PointerInv(u)' /\ EntryInv(u)'
  BY OthersKept
<1>2. TypeInv'
  BY DEF TypeInv, Takes
<1> QED
  BY <1>1, <1>2 DEF Inv

(* What was reported stays true while calls are made.                      *)
LEMMA EventsKept ==
  ASSUME Inv, NEW t \in Thread, Elsewhere(t), spoiled \subseteq spoiled', UNCHANGED <<events, done>>,
         calls' \in Nat, calls <= calls'
  PROVE  EventInv'
<1>1. calls \in Nat /\ done \subseteq 1 .. calls /\ \A e \in events : e.id \in 1 .. calls
  BY DEF Inv, TypeInv, EventInv
<1>2. done' \subseteq 1 .. calls' /\ \A e \in events' : e.id \in 1 .. calls'
  BY <1>1
<1>3. EventsOfTheirCall'
  BY <1>1 DEF Inv, EventInv, EventsOfTheirCall, Elsewhere
<1>4. ReturnsReported'
  BY DEF Inv, EventInv, ReturnsReported, Elsewhere
<1>5. KindTrue'
  BY DEF Inv, EventInv, KindTrue, Elsewhere
<1> QED
  BY <1>2, <1>3, <1>4, <1>5 DEF EventInv

LEMMA Typing ==
  ASSUME Inv
  PROVE  /\ elems \in [1 .. Slots -> Elem] /\ calls \in Nat /\ Slots \in Nat \ {0}
         /\ Victims \subseteq 1 .. Slots
         /\ \A t \in Thread : EntriesOf(t) \subseteq 1 .. Slots /\ t # Free
         /\ \A t \in Thread : Top(t).fn \in Fn \cup {"none"} /\ Top(t).id \in Nat /\ Top(t).within \in Nat
         /\ \A t \in Thread : stack[t] # <<>> => /\ Top(t) \in Frames /\ Top(t).id \in 1 .. calls
                                                 /\ Top(t).fn \in Base => Top(t).within = 0
         /\ \A t \in Thread : Top(t).fn # "none" \/ Top(t).at # "body" => stack[t] # <<>>
<1>1. /\ elems \in [1 .. Slots -> Elem] /\ calls \in Nat /\ Slots \in Nat \ {0}
      /\ \A t \in Thread : t # Free
  BY SyscallCacheAssumption DEF Inv, TypeInv
<1>2. Victims \subseteq 1 .. Slots /\ \A t \in Thread : EntriesOf(t) \subseteq 1 .. Slots
  BY <1>1 DEF Victims, EntriesOf
<1>3. ASSUME NEW t \in Thread
      PROVE  /\ Top(t).fn \in Fn \cup {"none"} /\ Top(t).id \in Nat /\ Top(t).within \in Nat
             /\ stack[t] # <<>> => /\ Top(t) \in Frames /\ Top(t).id \in 1 .. calls
                                   /\ Top(t).fn \in Base => Top(t).within = 0
             /\ Top(t).fn # "none" \/ Top(t).at # "body" => stack[t] # <<>>
  <2>1. CASE stack[t] = <<>>
    BY <2>1 DEF Top, Frame
  <2>2. CASE stack[t] # <<>>
    <3>1. Len(stack[t]) \in DOMAIN stack[t] /\ Top(t) = stack[t][Len(stack[t])] /\ Top(t) \in Frames
      BY <2>2, TopCases DEF Inv
    <3>2. Top(t).id <= calls /\ (Top(t).fn \in Base => Top(t).within = 0)
      BY <3>1 DEF Inv, StackInv
    <3> QED
      BY <2>2, <3>1, <3>2, <1>1 DEF Frames
  <2> QED
    BY <2>1, <2>2
<1> QED
  BY <1>1, <1>2, <1>3

-----------------------------------------------------------------------------
(* An entry is written to an element that was free or is taken, and the    *)
(* former entry of the thread goes.                                        *)
LEMMA Inserts ==
  ASSUME Inv, NEW t \in Thread, NEW STATE v, v \in Elem, v.key = t, NEW e \in Victims,
         elems' = cache_syscall(t, v, e), spoiled' = spoiled \cup Hurt(t, e)
  PROVE  Takes(t) /\ OneEntry' /\ EntriesOf(t)' = {e} /\ elems'[e] = v
<1>1. elems \in [1 .. Slots -> Elem] /\ e \in 1 .. Slots /\ t # Free /\ DOMAIN elems = 1 .. Slots
  BY Typing
<1>2. \A f \in 1 .. Slots : elems'[f] = IF f = e THEN v
                                        ELSE IF elems[f].key = t THEN [elems[f] EXCEPT !.key = Free]
                                        ELSE elems[f]
  BY <1>1 DEF cache_syscall
<1>3. \A x \in Elem : [x EXCEPT !.key = Free] \in Elem /\ [x EXCEPT !.key = Free].key = Free
  BY DEF Elem
<1>4. DOMAIN elems' = 1 .. Slots /\ elems' \in [1 .. Slots -> Elem]
  BY <1>1, <1>3 DEF cache_syscall
<1>5. elems'[e] = v /\ \A f \in 1 .. Slots \ {e} :
         \/ elems'[f] = elems[f] /\ elems[f].key # t
         \/ elems'[f].key = Free /\ elems[f].key = t
  BY <1>1, <1>2, <1>3
<1>6. Takes(t)
  BY <1>4, <1>5 DEF Takes
<1>7. OneEntry'
  <2> SUFFICES ASSUME NEW f \in 1 .. Slots, NEW g \in 1 .. Slots, elems'[f].key = elems'[g].key,
                      f # g, elems'[f].key # Free
               PROVE  FALSE
    BY DEF OneEntry
  <2> QED
    BY <1>1, <1>5 DEF Inv, OneEntry
<1>8. EntriesOf(t)' = {e}
  BY <1>1, <1>4, <1>5 DEF EntriesOf
<1> QED
  BY <1>5, <1>6, <1>7, <1>8

(* An entry is written and deleted again.                                  *)
LEMMA InsertsAndDrops ==
  ASSUME Inv, NEW t \in Thread, NEW STATE v, v \in Elem, v.key = t, NEW e \in Victims,
         elems' = Drop(cache_syscall(t, v, e), t), spoiled' = spoiled \cup Hurt(t, e)
  PROVE  Takes(t) /\ OneEntry' /\ EntriesOf(t)' = {}
<1>1. elems \in [1 .. Slots -> Elem] /\ e \in 1 .. Slots /\ t # Free /\ DOMAIN elems = 1 .. Slots
  BY Typing
<1> DEFINE es == cache_syscall(t, v, e)
<1>2. \A f \in 1 .. Slots : es[f] = IF f = e THEN v
                                    ELSE IF elems[f].key = t THEN [elems[f] EXCEPT !.key = Free]
                                    ELSE elems[f]
  BY <1>1 DEF cache_syscall
<1>3. \A x \in Elem : [x EXCEPT !.key = Free] \in Elem /\ [x EXCEPT !.key = Free].key = Free
  BY DEF Elem
<1>4. DOMAIN es = 1 .. Slots /\ es \in [1 .. Slots -> Elem]
  BY <1>1, <1>3 DEF cache_syscall
<1>5. elems' = [f \in DOMAIN es |-> IF es[f].key = t THEN [es[f] EXCEPT !.key = Free] ELSE es[f]]
  BY DEF Drop
<1> HIDE DEF es
<1>6. es[e] = v /\ \A f \in 1 .. Slots \ {e} :
         \/ es[f] = elems[f] /\ elems[f].key # t
         \/ es[f].key = Free /\ elems[f].key = t
  <2>1. es[e] = v
    BY <1>1, <1>2
  <2>2. ASSUME NEW f \in 1 .. Slots \ {e}
        PROVE  \/ es[f] = elems[f] /\ elems[f].key # t
               \/ es[f].key = Free /\ elems[f].key = t
    <3>1. es[f] = IF elems[f].key = t THEN [elems[f] EXCEPT !.key = Free] ELSE elems[f]
      BY <1>2
    <3>2. elems[f] \in Elem
      BY <1>1
    <3> QED
      BY <3>1, <3>2, <1>3
  <2> QED
    BY <2>1, <2>2
<1>7. elems' \in [1 .. Slots -> Elem] /\ DOMAIN elems' = 1 .. Slots
  BY <1>3, <1>4, <1>5
<1>8. \A f \in 1 .. Slots : elems'[f] = IF es[f].key = t THEN [es[f] EXCEPT !.key = Free] ELSE es[f]
  BY <1>4, <1>5
<1>9. elems'[e].key = Free /\ \A f \in 1 .. Slots \ {e} :
         \/ elems'[f] = elems[f] /\ elems[f].key # t
         \/ elems'[f].key = Free /\ elems[f].key = t
  BY <1>1, <1>3, <1>4, <1>6, <1>8
<1>10. Takes(t)
  BY <1>7, <1>9 DEF Takes
<1>11. OneEntry'
  <2> SUFFICES ASSUME NEW f \in 1 .. Slots, NEW g \in 1 .. Slots, elems'[f].key = elems'[g].key,
                      f # g, elems'[f].key # Free
               PROVE  FALSE
    BY DEF OneEntry
  <2> QED
    BY <1>1, <1>9 DEF Inv, OneEntry
<1>12. EntriesOf(t)' = {}
  BY <1>1, <1>7, <1>9 DEF EntriesOf
<1> QED
  BY <1>10, <1>11, <1>12

(* The data of an element is written, whosever it is.                      *)
LEMMA WritesData ==
  ASSUME Inv, NEW t \in Thread, NEW STATE id, id \in Nat, NEW STATE e, e \in 1 .. Slots,
         elems' = [elems EXCEPT ![e].data = id], spoiled' = spoiled \cup Hurt(t, e)
  PROVE  /\ Takes(t) /\ OneEntry' /\ DOMAIN elems' = 1 .. Slots
         /\ \A f \in 1 .. Slots : /\ elems'[f].key = elems[f].key /\ elems'[f].type = elems[f].type
                                  /\ elems'[f].kret = elems[f].kret
                                  /\ f # e => elems'[f] = elems[f]
         /\ elems'[e].data = id /\ \A u \in Thread : EntriesOf(u)' = EntriesOf(u)
<1>1. elems \in [1 .. Slots -> Elem] /\ DOMAIN elems = 1 .. Slots /\ elems[e] \in Elem
  BY Typing
<1>2. LET x == [elems[e] EXCEPT !.data = id]
      IN  /\ x \in Elem /\ x.key = elems[e].key /\ x.data = id /\ x.type = elems[e].type
          /\ x.kret = elems[e].kret
  BY <1>1 DEF Elem
<1>3. elems' = [elems EXCEPT ![e] = [elems[e] EXCEPT !.data = id]]
  BY <1>1
<1>4. elems'[e] = [elems[e] EXCEPT !.data = id] /\ \A f \in 1 .. Slots \ {e} : elems'[f] = elems[f]
  BY <1>1, <1>3
<1>5. elems' \in [1 .. Slots -> Elem] /\ DOMAIN elems' = 1 .. Slots
  BY <1>1, <1>2, <1>3
<1>6. \A f \in 1 .. Slots : /\ elems'[f].key = elems[f].key /\ elems'[f].type = elems[f].type
                            /\ elems'[f].kret = elems[f].kret
                            /\ f # e => elems'[f] = elems[f]
  BY <1>2, <1>4
<1>7. Takes(t)
  BY <1>5, <1>6 DEF Takes
<1>8. OneEntry'
  BY <1>6 DEF Inv, OneEntry
<1>9. \A u \in Thread : EntriesOf(u)' = EntriesOf(u)
  BY <1>1, <1>5, <1>6 DEF EntriesOf
<1> QED
  BY <1>2, <1>4, <1>5, <1>6, <1>7, <1>8, <1>9

(* The map is only looked at.                                              *)
LEMMA NothingTaken ==
  ASSUME Inv, NEW t \in Thread, UNCHANGED <<elems, spoiled>>
  PROVE  Takes(t) /\ OneEntry' /\ EntriesOf(t)' = EntriesOf(t)
<1>1. Takes(t)
  BY Typing DEF Takes
<1>2. OneEntry'
  BY DEF Inv, OneEntry
<1> QED
  BY <1>1, <1>2 DEF EntriesOf

-----------------------------------------------------------------------------
(* The actions.                                                            *)

(* The names of the hooked functions do not overlap.                       *)
LEMMA NamesApart ==
  /\ \A fn \in Syscalls : /\ fn \notin KernelFunctions /\ fn \notin FileWrites /\ fn \notin Cached
                          /\ fn # "kprobe" /\ fn # "register_kretprobe" /\ fn # "none"
  /\ \A fn \in KernelFunctions : fn \notin FileWrites /\ fn # "register_kretprobe" /\ fn # "none"
  /\ \A fn \in Cached : /\ fn \notin Syscalls /\ fn # "bogus_write" /\ TypeOf(fn) = "kprobe"
                        /\ fn # "register_kretprobe" /\ fn # "none"
<1>1. \A fn \in Syscalls : /\ fn \notin KernelFunctions /\ fn \notin FileWrites
                           /\ fn # "kprobe" /\ fn # "register_kretprobe" /\ fn # "none"
  BY SyscallCacheAssumption
<1>2. \A fn \in KernelFunctions : fn \notin FileWrites /\ fn # "register_kretprobe" /\ fn # "none"
  BY SyscallCacheAssumption
<1> HIDE DEF KernelFunctions
<1> QED
  BY <1>1, <1>2 DEF Cached, TypeOf, FileWrites

LEMMA SysEnterKeeps ==
  ASSUME Inv, NEW t \in Thread, NEW fn \in Syscalls, NEW refused \in BOOLEAN, sys_enter(t, fn, refused)
  PROVE  Inv'
<1> DEFINE id == calls + 1
           fr == Frame(fn, id)
           v == [key |-> t, type |-> fn, data |-> id, kret |-> FALSE]
<1>1. /\ stack[t] = <<>> /\ Push(t, fr) /\ UNCHANGED <<events, done, failed>>
      /\ denied' = IF refused THEN denied \cup {id} ELSE denied
  BY DEF sys_enter
<1>2. PICK e \in Victims :
        /\ elems' = IF refused THEN Drop(cache_syscall(t, v, e), t) ELSE cache_syscall(t, v, e)
        /\ spoiled' = spoiled \cup Hurt(t, e)
  BY DEF sys_enter
<1>3. id \in Nat \ {0} /\ id \notin denied
  BY Typing DEF Inv, TypeInv
<1>4. /\ fr \in Frames /\ fr.id = id /\ fr.fn = fn /\ fr.within = 0 /\ fr.at = "body"
  BY <1>3, Typing DEF Frame, Frames, Fn
<1>5. /\ v \in Elem /\ v.key = t /\ v.type = fn /\ v.data = id /\ v.kret = FALSE
  BY <1>3 DEF Elem
<1>6. /\ fn \notin KernelFunctions /\ fn \notin FileWrites /\ fn \notin Cached
      /\ fn # "kprobe" /\ fn # "register_kretprobe" /\ fn # "none"
  BY NamesApart
<1> HIDE DEF fr, v
<1>7. refused => Takes(t) /\ OneEntry' /\ EntriesOf(t)' = {}
  BY <1>2, <1>5, InsertsAndDrops
<1>8. ~ refused => Takes(t) /\ OneEntry' /\ EntriesOf(t)' = {e} /\ elems'[e] = v
  BY <1>2, <1>5, Inserts
<1>9. denied \subseteq denied' /\ denied' \subseteq denied \cup {fr.id}
  BY <1>1, <1>4
<1>10. /\ stack' \in [Thread -> Seq(Frames)] /\ calls' \in 0 .. MaxCalls /\ calls' = calls + 1
       /\ denied' \subseteq 1 .. calls' /\ nested' \subseteq 1 .. calls'
       /\ StackInv' /\ IdsApart' /\ Top(t)' = fr
       /\ \A u \in Thread \ {t} : stack'[u] = stack[u]
  BY <1>1, <1>4, <1>6, <1>9, PushStack
<1>11. Elsewhere(t)
  BY <1>1, <1>4, <1>9, <1>10 DEF Elsewhere, Push
<1>12. PointerInv(t)'
  BY <1>4, <1>10 DEF PointerInv, ReadInv, WriteInv
<1>13. EntryInv(t)'
  <2>1. CASE refused
    BY <2>1, <1>1, <1>4, <1>6, <1>7, <1>10 DEF EntryInv
  <2>2. CASE ~ refused
    <3>1. EntriesOf(t)' = {e} /\ elems'[e] = v /\ Top(t)'.id \notin denied'
      BY <2>2, <1>1, <1>3, <1>4, <1>8, <1>10
    <3>2. TypeOf(fn) = fn
      BY DEF TypeOf
    <3>3. ContentInv(t, e)'
      BY <3>1, <1>4, <1>5, <1>6, <1>10 DEF ContentInv
    <3> QED
      BY <3>1, <3>2, <3>3, <1>4, <1>5, <1>6, <1>10 DEF EntryInv
  <2> QED
    BY <2>1, <2>2
<1>14. Takes(t) /\ OneEntry'
  BY <1>7, <1>8
<1>15. EventInv'
  BY <1>1, <1>10, <1>11, <1>14, <1>3, Typing, EventsKept DEF Takes
<1> QED
  BY <1>10, <1>11, <1>12, <1>13, <1>14, <1>15, StepKeeps

LEMMA RegisterKretprobeKeeps ==
  ASSUME Inv, NEW t \in Thread, register_kretprobe(t)
  PROVE  Inv'
<1> DEFINE id == calls + 1
           fr == Frame("register_kretprobe", id)
           v == KprobeEntry(t, id, TRUE)
<1>1. /\ InKernel(t) /\ Top(t).fn # "register_kretprobe" /\ Push(t, fr)
      /\ UNCHANGED <<events, done, denied, failed>>
  BY DEF register_kretprobe
<1>2. PICK e \in Victims : elems' = cache_syscall(t, v, e) /\ spoiled' = spoiled \cup Hurt(t, e)
  BY DEF register_kretprobe
<1>3. id \in Nat \ {0} /\ id \notin denied
  BY Typing DEF Inv, TypeInv
<1>4. /\ fr \in Frames /\ fr.id = id /\ fr.fn = "register_kretprobe" /\ fr.within = 0 /\ fr.at = "body"
  BY <1>3, Typing DEF Frame, Frames, Fn
<1>5. /\ v \in Elem /\ v.key = t /\ v.type = "kprobe" /\ v.data = id /\ v.kret = TRUE
  BY <1>3 DEF Elem, KprobeEntry
<1>6. fr.fn \notin Syscalls /\ fr.fn \notin Cached /\ fr.fn \notin Base /\ fr.fn \notin {"none", "bogus_write"}
  BY NamesApart, <1>4 DEF Base, FileWrites
<1> HIDE DEF fr, v
<1>7. Takes(t) /\ OneEntry' /\ EntriesOf(t)' = {e} /\ elems'[e] = v
  BY <1>2, <1>5, Inserts
<1>8. /\ stack' \in [Thread -> Seq(Frames)] /\ calls' \in 0 .. MaxCalls /\ calls' = calls + 1
      /\ denied' \subseteq 1 .. calls' /\ nested' \subseteq 1 .. calls'
      /\ StackInv' /\ IdsApart' /\ Top(t)' = fr /\ fr.id \notin nested'
      /\ \A u \in Thread \ {t} : stack'[u] = stack[u]
  BY <1>1, <1>4, <1>6, PushStack
<1>9. Elsewhere(t)
  BY <1>1, <1>8 DEF Elsewhere, Push
<1>10. PointerInv(t)'
  BY <1>4, <1>8 DEF PointerInv, ReadInv, WriteInv
<1>11. EntryInv(t)'
  <2>1. ContentInv(t, e)'
    BY <1>4, <1>5, <1>6, <1>7, <1>8 DEF ContentInv
  <2> QED
    BY <2>1, <1>1, <1>3, <1>4, <1>5, <1>6, <1>7, <1>8 DEF EntryInv
<1>12. EventInv'
  <2>1. calls' \in Nat /\ calls <= calls' /\ spoiled \subseteq spoiled'
    BY <1>3, <1>7, <1>8, Typing DEF Takes
  <2> QED
    BY <2>1, <1>1, <1>9, EventsKept
<1> QED
  BY <1>7, <1>8, <1>9, <1>10, <1>11, <1>12, StepKeeps

(* A write to the file is an entry of its own, unless it cannot be parsed. *)
LEMMA FileWriteKeeps ==
  ASSUME Inv, NEW t \in Thread, write_enabled_file_bool(t)
  PROVE  Inv'
<1> DEFINE id == calls + 1
           v == KprobeEntry(t, id, FALSE)
<1>1. stack[t] = <<>> /\ UNCHANGED <<events, done, denied, failed>>
  BY DEF write_enabled_file_bool
<1>2. id \in Nat \ {0} /\ id \notin denied
  BY Typing DEF Inv, TypeInv
<1>3. ASSUME NEW fn \in FileWrites, Push(t, Frame(fn, id)), Takes(t), OneEntry',
             (Top(t)' = Frame(fn, id) /\ fn \notin Syscalls /\ fn # "register_kretprobe"
                /\ Frame(fn, id).fn = fn /\ Frame(fn, id).id = id /\ Frame(fn, id).at = "body"
                /\ Frame(fn, id).within = 0) => EntryInv(t)'
      PROVE  Inv'
  <2> DEFINE fr == Frame(fn, id)
  <2>1. /\ fr \in Frames /\ fr.id = id /\ fr.fn = fn /\ fr.within = 0 /\ fr.at = "body"
    BY <1>2, Typing DEF Frame, Frames, Fn
  <2>2. fn \notin Syscalls /\ fn # "register_kretprobe" /\ fn \in Base
    BY NamesApart DEF FileWrites, Base
  <2> HIDE DEF fr
  <2>3. Push(t, fr)
    BY <1>3 DEF fr
  <2>4. /\ stack' \in [Thread -> Seq(Frames)] /\ calls' \in 0 .. MaxCalls /\ calls' = calls + 1
        /\ denied' \subseteq 1 .. calls' /\ nested' \subseteq 1 .. calls'
        /\ StackInv' /\ IdsApart' /\ Top(t)' = fr
        /\ \A u \in Thread \ {t} : stack'[u] = stack[u]
    BY <2>1, <2>2, <2>3, <1>1, PushStack
  <2>5. Elsewhere(t)
    BY <1>1, <2>3, <2>4 DEF Elsewhere, Push
  <2>6. PointerInv(t)'
    BY <2>1, <2>4 DEF PointerInv, ReadInv, WriteInv
  <2>7. EntryInv(t)'
    BY <1>3, <2>1, <2>2, <2>4 DEF fr
  <2>8. EventInv'
    <3>1. calls' \in Nat /\ calls <= calls' /\ spoiled \subseteq spoiled'
      BY <1>2, <1>3, <2>4, Typing DEF Takes
    <3> QED
      BY <3>1, <1>1, <2>5, EventsKept
  <2> QED
    BY <1>3, <2>4, <2>5, <2>6, <2>7, <2>8, StepKeeps
<1>4. ASSUME Push(t, Frame("write_enabled_file_bool", id)), NEW e \in Victims,
             elems' = cache_syscall(t, v, e), spoiled' = spoiled \cup Hurt(t, e)
      PROVE  Inv'
  <2>1. /\ v \in Elem /\ v.key = t /\ v.type = "kprobe" /\ v.data = id /\ v.kret = FALSE
    BY <1>2 DEF Elem, KprobeEntry
  <2> HIDE DEF v
  <2>2. Takes(t) /\ OneEntry' /\ EntriesOf(t)' = {e} /\ elems'[e] = v
    BY <1>4, <2>1, Inserts
  <2>3. ASSUME NEW fn, fn = "write_enabled_file_bool", fn \notin Syscalls, Top(t)'.fn = fn,
               Top(t)'.id = id, Top(t)'.at = "body", Top(t)'.within = 0
        PROVE  EntryInv(t)'
    <3>1. fn \in Cached /\ fn \notin Syscalls \cup {"none", "bogus_write", "register_kretprobe"}
          /\ TypeOf(fn) = "kprobe"
      BY <2>3, NamesApart DEF Cached
    <3>2. KindOf(t, e)'
      BY <2>1, <2>2, <2>3 DEF KindOf
    <3>3. ContentInv(t, e)'
      BY <3>1, <3>2, <2>1, <2>2, <2>3 DEF ContentInv
    <3> QED
      BY <3>1, <3>3, <2>1, <2>2, <2>3, <1>1, <1>2 DEF EntryInv
  <2>4. "write_enabled_file_bool" \in FileWrites
    BY DEF FileWrites
  <2> QED
    BY <1>3, <1>4, <2>2, <2>3, <2>4
<1>5. ASSUME Push(t, Frame("bogus_write", id)), UNCHANGED <<elems, spoiled>>
      PROVE  Inv'
  <2>1. Takes(t) /\ OneEntry' /\ EntriesOf(t)' = EntriesOf(t)
    BY <1>5, NothingTaken
  <2>2. Top(t).fn = "none"
    BY <1>1 DEF Top, Frame
  <2>3. \A e \in EntriesOf(t) : t \notin failed => elems[e].type # "kprobe"
    BY <2>2 DEF Inv, EntryInv, ContentInv
  <2>4. ASSUME NEW fn, fn = "bogus_write", fn \notin Syscalls, Top(t)'.fn = fn, Top(t)'.id = id
        PROVE  EntryInv(t)'
    <3>1. fn \notin Syscalls \cup Cached \cup {"register_kretprobe"}
      BY <2>4, NamesApart
    <3>2. \A e \in EntriesOf(t)' : ContentInv(t, e)'
      BY <3>1, <2>1, <2>3, <2>4, <1>1, <1>5 DEF ContentInv
    <3> QED
      BY <3>1, <3>2, <2>4, <1>1, <1>2 DEF EntryInv
  <2>5. "bogus_write" \in FileWrites
    BY DEF FileWrites
  <2> QED
    BY <1>3, <1>5, <2>1, <2>4, <2>5
<1>6. \/ Push(t, Frame("write_enabled_file_bool", id))
           /\ \E e \in Victims : elems' = cache_syscall(t, v, e) /\ spoiled' = spoiled \cup Hurt(t, e)
      \/ Push(t, Frame("bogus_write", id)) /\ UNCHANGED <<elems, spoiled>>
  BY DEF write_enabled_file_bool
<1> HIDE DEF v, id
<1> QED
  BY <1>4, <1>5, <1>6

LEMMA KprobeFunctionKeeps ==
  ASSUME Inv, NEW t \in Thread, NEW fn \in KernelFunctions, kprobe_function(t, fn)
  PROVE  Inv'
<1> DEFINE id == calls + 1
           wrapped == Top(t).fn = "register_kretprobe"
           within == IF wrapped THEN Top(t).id ELSE 0
           frame == [Frame(fn, id) EXCEPT !.within = within]
           Moved(a, e) == [frame EXCEPT !.at = a, !.ptr = e]
           v == KprobeEntry(t, 0, FALSE)
           reused == peek_syscall(t, "kprobe") # {}
<1>1. /\ InKernel(t) /\ (wrapped => Top(t).id \notin nested)
      /\ UNCHANGED <<events, done, denied, failed>>
  BY DEF kprobe_function
<1>2. PICK e : \/ /\ reused /\ e \in peek_syscall(t, "kprobe") /\ Push(t, Moved("write", e))
                  /\ UNCHANGED <<elems, spoiled>>
               \/ /\ ~ reused /\ e \in Victims /\ Push(t, [frame EXCEPT !.at = "peek"])
                  /\ elems' = cache_syscall(t, v, e) /\ spoiled' = spoiled \cup Hurt(t, e)
  BY DEF kprobe_function, cache_kprobe
<1>3. id \in Nat \ {0} /\ id \notin denied
  BY Typing DEF Inv, TypeInv
<1>4. within \in Nat /\ (wrapped => within # 0)
  BY Typing DEF Frames
<1>5. e \in 1 .. Slots
  BY <1>2, Typing DEF peek_syscall
<1>6. /\ frame \in Frames /\ frame.id = id /\ frame.fn = fn /\ frame.within = within
  <2> HIDE DEF within, id
  <2> QED
    BY <1>3, <1>4, Typing DEF Frame, Frames, Fn
<1> HIDE DEF frame, within, id
<1>7. PICK fr \in Frames : /\ Push(t, fr) /\ fr.id = id /\ fr.fn = fn /\ fr.within = within
                           /\ fr.at = IF reused THEN "write" ELSE "peek"
                           /\ reused => fr.ptr = e
  <2>1. LET x == Moved("write", e)
        IN  /\ x \in Frames /\ x.id = id /\ x.fn = fn /\ x.within = within /\ x.at = "write" /\ x.ptr = e
    <3>1. e \in 0 .. Slots
      BY <1>5, Typing
    <3> QED
      BY <3>1, <1>6 DEF Frames
  <2>2. LET x == [frame EXCEPT !.at = "peek"]
        IN  /\ x \in Frames /\ x.id = id /\ x.fn = fn /\ x.within = within /\ x.at = "peek"
    BY <1>6 DEF Frames
  <2>3. CASE reused
    BY <2>1, <2>3, <1>2
  <2>4. CASE ~ reused
    BY <2>2, <2>4, <1>2
  <2> QED
    BY <2>3, <2>4
<1>8. /\ v \in Elem /\ v.key = t /\ v.type = "kprobe" /\ v.kret = FALSE
  BY DEF Elem, KprobeEntry
<1>9. /\ fn \notin Syscalls /\ fn \notin FileWrites /\ fn # "register_kretprobe" /\ fn # "none"
      /\ TypeOf(fn) = "kprobe" /\ fn \in Cached /\ fn \notin Base /\ fn # "bogus_write"
  BY NamesApart DEF TypeOf, Cached, Base, FileWrites
<1> HIDE DEF v
<1>10. ~ reused => Takes(t) /\ OneEntry' /\ EntriesOf(t)' = {e} /\ elems'[e] = v
  BY <1>2, <1>8, Inserts
<1>11. reused => Takes(t) /\ OneEntry' /\ EntriesOf(t)' = EntriesOf(t) /\ elems' = elems
  BY <1>2, NothingTaken
<1>12. /\ stack' \in [Thread -> Seq(Frames)] /\ calls' \in 0 .. MaxCalls /\ calls' = calls + 1
       /\ denied' \subseteq 1 .. calls' /\ nested' \subseteq 1 .. calls'
       /\ StackInv' /\ IdsApart' /\ Top(t)' = fr
       /\ \A u \in Thread \ {t} : stack'[u] = stack[u]
  BY <1>1, <1>7, <1>9, PushStack DEF id
<1>13. Elsewhere(t)
  BY <1>1, <1>7, <1>12 DEF Elsewhere, Push
<1>14. Takes(t) /\ OneEntry' /\ spoiled \subseteq spoiled'
  BY <1>10, <1>11 DEF Takes
<1>15. \A f, g \in EntriesOf(t) : f = g
  BY Typing DEF Inv, OneEntry, EntriesOf
<1>16. EntryInv(t) /\ \A f \in EntriesOf(t) : ContentInv(t, f)
  BY DEF Inv, EntryInv
<1>17. PointerInv(t)'
  <2>1. CASE reused
    <3>1. elems'[e].key = t
      BY <2>1, <1>2 DEF peek_syscall, EntriesOf
    <3> QED
      BY <3>1, <2>1, <1>1, <1>3, <1>5, <1>7, <1>12 DEF PointerInv, ReadInv, WriteInv
  <2>2. CASE ~ reused
    BY <2>2, <1>7, <1>12 DEF PointerInv, ReadInv, WriteInv
  <2> QED
    BY <2>1, <2>2
<1>18. \A f \in EntriesOf(t)' : elems'[f].type = "kprobe" /\ KindOf(t, f)'
  <2>1. CASE reused
    <3>1. e \in EntriesOf(t) /\ elems[e].type = "kprobe" /\ EntriesOf(t)' = {e} /\ elems' = elems
      BY <2>1, <1>2, <1>11, <1>15 DEF peek_syscall
    <3>2. ASSUME fr.within \notin spoiled', t \notin failed'
          PROVE  elems[e].kret = (fr.within # 0)
      <4>1. CASE wrapped
        <5>1. Top(t).id \notin nested \cup spoiled
          BY <4>1, <3>2, <1>1, <1>7, <1>14 DEF within
        <5>2. \E f \in EntriesOf(t) : elems[f].kret = TRUE
          BY <4>1, <5>1, <1>16 DEF EntryInv
        <5> QED
          BY <4>1, <5>2, <3>1, <1>4, <1>7, <1>15
      <4>2. CASE ~ wrapped
        <5>1. Top(t).fn \in Syscalls \cup {"none"}
          BY <4>2, <1>1, Typing DEF InKernel, Fn
        <5>2. elems[e].type # "kprobe"
          BY <5>1, <3>1, <3>2, <1>1, <1>16 DEF ContentInv
        <5> QED
          BY <5>2, <3>1
      <4> QED
        BY <4>1, <4>2
    <3> QED
      BY <3>1, <3>2, <1>12 DEF KindOf
  <2>2. CASE ~ reused
    <3>1. EntriesOf(t)' = {e} /\ elems'[e] = v
      BY <2>2, <1>10
    <3>2. ASSUME fr.within \notin spoiled' PROVE fr.within = 0
      <4> SUFFICES ASSUME wrapped PROVE FALSE
        BY <1>7 DEF within
      <4>1. Top(t).id \notin nested \cup spoiled
        BY <3>2, <1>1, <1>7, <1>14 DEF within
      <4>2. PICK f \in EntriesOf(t) : elems[f].kret = TRUE
        BY <4>1, <1>16 DEF EntryInv
      <4>3. elems[f].type = "kprobe"
        BY <1>16 DEF ContentInv
      <4> QED
        BY <4>3, <2>2 DEF peek_syscall
    <3> QED
      BY <3>1, <3>2, <1>8, <1>12 DEF KindOf
  <2> QED
    BY <2>1, <2>2
<1>19. EntriesOf(t)' # {}
  <2>1. CASE reused
    BY <2>1, <1>11 DEF peek_syscall
  <2>2. CASE ~ reused
    BY <2>2, <1>10
  <2> QED
    BY <2>1, <2>2
<1>20. EntryInv(t)'
  <2>1. Top(t)'.id = id /\ Top(t)'.fn = fn /\ Top(t)'.id \notin denied' /\ Top(t)'.at # "body"
    BY <1>1, <1>3, <1>7, <1>12
  <2> HIDE DEF reused, wrapped
  <2>2. \E f \in EntriesOf(t)' : elems'[f].type = TypeOf(fn)
    BY <1>9, <1>18, <1>19
  <2>3. \A f \in EntriesOf(t)' : ContentInv(t, f)'
    BY <2>1, <1>9, <1>18 DEF ContentInv
  <2> QED
    BY <2>1, <2>2, <2>3, <1>9 DEF EntryInv
<1>21. EventInv'
  <2>1. calls' \in Nat /\ calls <= calls'
    BY <1>12, Typing
  <2> QED
    BY <2>1, <1>1, <1>13, <1>14, EventsKept
<1> QED
  BY <1>12, <1>13, <1>14, <1>17, <1>20, <1>21, StepKeeps

(* The innermost frame changes what it is about to do.                     *)
LEMMA SetTopStack ==
  ASSUME Inv, NEW t \in Thread, stack[t] # <<>>, NEW STATE fr, fr \in Frames,
         fr.id = Top(t).id, fr.fn = Top(t).fn, fr.within = Top(t).within,
         stack' = SetTop(t, fr), UNCHANGED <<calls, denied, nested>>
  PROVE  /\ stack' \in [Thread -> Seq(Frames)] /\ StackInv' /\ IdsApart'
         /\ \A u \in Thread \ {t} : stack'[u] = stack[u]
         /\ Top(t)' = fr
<1> DEFINE s == stack[t]
           n == Len(s)
<1>1. s \in Seq(Frames) /\ stack \in [Thread -> Seq(Frames)]
  BY DEF Inv, TypeInv
<1>2. n \in Nat \ {0} /\ DOMAIN s = 1 .. n /\ Top(t) = s[n] /\ Top(t) \in Frames
  BY <1>1, TopCases DEF Inv
<1>3. stack' = [stack EXCEPT ![t] = [s EXCEPT ![n] = fr]]
  BY <1>1 DEF SetTop
<1>4. stack'[t] = [s EXCEPT ![n] = fr] /\ \A u \in Thread \ {t} : stack'[u] = stack[u]
  BY <1>1, <1>3
<1>5. /\ [s EXCEPT ![n] = fr] \in Seq(Frames) /\ Len([s EXCEPT ![n] = fr]) = n
      /\ DOMAIN [s EXCEPT ![n] = fr] = 1 .. n
      /\ \A i \in 1 .. n : [s EXCEPT ![n] = fr][i] = IF i = n THEN fr ELSE s[i]
  BY <1>1, <1>2
<1>6. stack' \in [Thread -> Seq(Frames)]
  BY <1>1, <1>3, <1>5
<1>7. \A u \in Thread : /\ DOMAIN stack'[u] = DOMAIN stack[u] /\ Len(stack'[u]) = Len(stack[u])
                        /\ \A i \in DOMAIN stack[u] :
                             /\ stack'[u][i].id = stack[u][i].id /\ stack'[u][i].fn = stack[u][i].fn
                             /\ stack'[u][i].within = stack[u][i].within
                             /\ i < Len(stack[u]) => stack'[u][i] = stack[u][i]
  BY <1>2, <1>4, <1>5
<1>8. IdsApart'
  <2> SUFFICES ASSUME NEW u \in Thread, NEW w \in Thread, NEW i \in DOMAIN stack'[u],
                      NEW j \in DOMAIN stack'[w], stack'[u][i].id = stack'[w][j].id
               PROVE  u = w
    BY DEF IdsApart
  <2>1. i \in DOMAIN stack[u] /\ j \in DOMAIN stack[w] /\ stack[u][i].id = stack[w][j].id
    BY <1>7
  <2> QED
    BY <2>1 DEF Inv, IdsApart
<1>9. StackInv'
  <2> SUFFICES ASSUME NEW u \in Thread, NEW i \in DOMAIN stack'[u]
               PROVE  /\ stack'[u][i].id <= calls
                      /\ stack'[u][i].fn \in Base => i = 1 /\ stack'[u][i].within = 0
                      /\ stack'[u][i].fn = "register_kretprobe" /\ i # 1
                           => stack'[u][i - 1].fn # "register_kretprobe"
                      /\ i < Len(stack'[u]) => stack'[u][i].id \in nested \ denied /\ Outer(stack'[u][i])
    BY DEF StackInv
  <2>1. i \in DOMAIN stack[u]
    BY <1>7
  <2>2. i # 1 => i - 1 \in DOMAIN stack[u]
    <3>1. stack[u] \in Seq(Frames)
      BY <1>1
    <3> QED
      BY <2>1, <3>1
  <2> QED
    BY <2>1, <2>2, <1>7 DEF Inv, StackInv
<1>10. Top(t)' = fr
  <2>1. Len(stack'[t]) = n /\ stack'[t][n] = fr
    <3>1. n \in 1 .. n
      BY <1>2
    <3>2. [s EXCEPT ![n] = fr][n] = fr /\ Len([s EXCEPT ![n] = fr]) = n
      BY <3>1, <1>5
    <3> QED
      BY <3>2, <1>4
  <2> HIDE DEF n, s
  <2>2. stack'[t] # <<>>
    <3>1. Len(<<>>) = 0
      OBVIOUS
    <3> QED
      BY <2>1, <3>1, <1>2
  <2> QED
    BY <2>1, <2>2 DEF Top
<1> QED
  BY <1>4, <1>6, <1>8, <1>9, <1>10

(* A probe finds the entry it will write into.                             *)
LEMMA FoundKeeps ==
  ASSUME Inv, NEW t \in Thread, stack[t] # <<>>, NEW e \in EntriesOf(t),
         stack' = SetTop(t, [Top(t) EXCEPT !.at = "write", !.ptr = e]),
         Top(t).at # "read", Top(t).fn \in Syscalls \cup KernelFunctions,
         UNCHANGED <<elems, events, calls, done, denied, nested, spoiled, failed>>
  PROVE  Inv'
<1> DEFINE fr == [Top(t) EXCEPT !.at = "write", !.ptr = e]
<1>1. e \in 1 .. Slots /\ elems[e].key = t /\ Top(t) \in Frames
  BY Typing DEF EntriesOf
<1>2. /\ fr \in Frames /\ fr.id = Top(t).id /\ fr.fn = Top(t).fn /\ fr.within = Top(t).within
      /\ fr.at = "write" /\ fr.ptr = e
  <2>1. e \in 0 .. Slots
    BY <1>1, Typing
  <2> QED
    BY <1>1, <2>1 DEF Frames
<1> HIDE DEF fr
<1>3. /\ stack' \in [Thread -> Seq(Frames)] /\ StackInv' /\ IdsApart'
      /\ \A u \in Thread \ {t} : stack'[u] = stack[u]
      /\ Top(t)' = fr
  BY <1>2, SetTopStack DEF fr
<1>4. Takes(t) /\ OneEntry' /\ EntriesOf(t)' = EntriesOf(t)
  BY NothingTaken
<1>5. Elsewhere(t)
  BY <1>3 DEF Elsewhere
<1>6. EntryInv(t)
  BY DEF Inv
<1>7. Top(t).id \notin denied
  BY <1>6 DEF EntryInv
<1>8. PointerInv(t)'
  BY <1>1, <1>2, <1>3, <1>7 DEF PointerInv, ReadInv, WriteInv
<1>9. \A f \in EntriesOf(t)' : ContentInv(t, f)'
  BY <1>2, <1>3, <1>4, <1>6 DEF EntryInv, ContentInv, KindOf
<1>10. EntryInv(t)'
  BY <1>2, <1>3, <1>4, <1>6, <1>9 DEF EntryInv
<1>11. calls' = calls /\ calls' \in Nat /\ calls <= calls' /\ calls' \in 0 .. MaxCalls
       /\ denied' \subseteq 1 .. calls' /\ nested' \subseteq 1 .. calls' /\ spoiled \subseteq spoiled'
  BY Typing DEF Inv, TypeInv
<1>12. EventInv'
  BY <1>5, <1>11, EventsKept
<1> QED
  BY <1>3, <1>4, <1>5, <1>8, <1>10, <1>11, <1>12, StepKeeps

LEMMA PeekInsideKeeps ==
  ASSUME Inv, NEW t \in Thread, peek_inside(t)
  PROVE  Inv'
<1>1. PICK e \in EntriesOf(t) : stack' = SetTop(t, [Top(t) EXCEPT !.at = "write", !.ptr = e])
  BY DEF peek_inside, peek_syscall
<1>2. /\ Top(t).at # "read" /\ Top(t).fn \in Syscalls
      /\ UNCHANGED <<elems, events, calls, done, denied, nested, spoiled, failed>>
  BY DEF peek_inside
<1>3. stack[t] # <<>>
  BY <1>2, Typing, NamesApart
<1> QED
  BY <1>1, <1>2, <1>3, FoundKeeps

LEMMA PeekAgainKeeps ==
  ASSUME Inv, NEW t \in Thread, peek_again(t)
  PROVE  Inv'
<1>1. Top(t).at = "peek" /\ UNCHANGED <<elems, events, calls, done, denied, nested, spoiled, failed>>
  BY DEF peek_again
<1>2. stack[t] # <<>> /\ Top(t).fn \in KernelFunctions /\ Top(t) \in Frames
  BY <1>1, Typing DEF Inv, PointerInv, WriteInv
<1>3. ASSUME NEW e \in peek_syscall(t, "kprobe"),
             stack' = SetTop(t, [Top(t) EXCEPT !.at = "write", !.ptr = e])
      PROVE  Inv'
  <2>1. e \in EntriesOf(t)
    BY <1>3 DEF peek_syscall
  <2> QED
    BY <1>1, <1>2, <1>3, <2>1, FoundKeeps
<1>4. ASSUME peek_syscall(t, "kprobe") = {}, stack' = SetTop(t, [Top(t) EXCEPT !.at = "body"])
      PROVE  Inv'
  <2> DEFINE fr == [Top(t) EXCEPT !.at = "body"]
  <2>1. /\ fr \in Frames /\ fr.id = Top(t).id /\ fr.fn = Top(t).fn /\ fr.within = Top(t).within
        /\ fr.at = "body"
    BY <1>2 DEF Frames
  <2> HIDE DEF fr
  <2>2. /\ stack' \in [Thread -> Seq(Frames)] /\ StackInv' /\ IdsApart'
        /\ \A u \in Thread \ {t} : stack'[u] = stack[u]
        /\ Top(t)' = fr
    BY <2>1, <1>1, <1>2, <1>4, SetTopStack DEF fr
  <2>3. Takes(t) /\ OneEntry' /\ EntriesOf(t)' = EntriesOf(t)
    BY <1>1, NothingTaken
  <2>4. Elsewhere(t)
    BY <1>1, <2>2 DEF Elsewhere
  <2>5. EntryInv(t)
    BY DEF Inv
  <2>6. EntriesOf(t) = {}
    <3>1. \A e \in EntriesOf(t) : elems[e].type = "kprobe"
      BY <2>5, <1>2 DEF EntryInv, ContentInv, Cached
    <3> QED
      BY <3>1, <1>4 DEF peek_syscall
  <2>7. PointerInv(t)'
    BY <2>1, <2>2 DEF PointerInv, ReadInv, WriteInv
  <2>8. EntryInv(t)'
    BY <1>1, <2>1, <2>2, <2>3, <2>5, <2>6 DEF EntryInv
  <2>9. calls' = calls /\ calls' \in Nat /\ calls <= calls' /\ calls' \in 0 .. MaxCalls
        /\ denied' \subseteq 1 .. calls' /\ nested' \subseteq 1 .. calls' /\ spoiled \subseteq spoiled'
    BY <1>1, Typing DEF Inv, TypeInv
  <2>10. EventInv'
    BY <1>1, <2>4, <2>9, EventsKept
  <2> QED
    BY <2>2, <2>3, <2>4, <2>7, <2>8, <2>9, <2>10, StepKeeps
<1> QED
  BY <1>3, <1>4 DEF peek_again

LEMMA WriteThroughKeeps ==
  ASSUME Inv, NEW t \in Thread, write_through(t)
  PROVE  Inv'
<1> DEFINE e == Top(t).ptr
           fr == [Top(t) EXCEPT !.at = "body", !.ptr = 0]
<1>1. /\ Top(t).at = "write" /\ elems' = [elems EXCEPT ![e].data = Top(t).id]
      /\ spoiled' = spoiled \cup Hurt(t, e) /\ stack' = SetTop(t, fr)
      /\ UNCHANGED <<events, calls, done, denied, nested, failed>>
  BY DEF write_through
<1>2. stack[t] # <<>> /\ Top(t) \in Frames /\ Top(t).id \in Nat
  BY <1>1, Typing
<1>3. /\ e \in 1 .. Slots /\ Top(t).fn \in Syscalls \cup KernelFunctions /\ Top(t).id \notin denied
      /\ elems[e].key = t \/ EntriesOf(t) = {}
      /\ Top(t).id \notin spoiled => elems[e].key = t
  BY <1>1 DEF Inv, PointerInv, WriteInv
<1>4. /\ fr \in Frames /\ fr.id = Top(t).id /\ fr.fn = Top(t).fn /\ fr.within = Top(t).within
      /\ fr.at = "body"
  <2>1. 0 \in 0 .. Slots
    BY Typing
  <2> QED
    BY <1>2, <2>1 DEF Frames
<1> HIDE DEF fr, e
<1>5. /\ stack' \in [Thread -> Seq(Frames)] /\ StackInv' /\ IdsApart'
      /\ \A u \in Thread \ {t} : stack'[u] = stack[u]
      /\ Top(t)' = fr
  BY <1>1, <1>2, <1>4, SetTopStack
<1>6. /\ Takes(t) /\ OneEntry' /\ EntriesOf(t)' = EntriesOf(t) /\ elems'[e].data = Top(t).id
      /\ \A f \in 1 .. Slots : elems'[f].type = elems[f].type /\ elems'[f].kret = elems[f].kret
  BY <1>1, <1>2, <1>3, WritesData
<1>7. Elsewhere(t)
  BY <1>1, <1>5 DEF Elsewhere
<1>8. EntryInv(t)
  BY DEF Inv
<1>9. PointerInv(t)'
  BY <1>4, <1>5 DEF PointerInv, ReadInv, WriteInv
<1>10. \A f \in EntriesOf(t) : f \in 1 .. Slots /\ elems'[f].data = Top(t).id
  <2>1. \A f \in EntriesOf(t) : f \in 1 .. Slots /\ f = e
    BY <1>3, Typing DEF Inv, OneEntry, EntriesOf
  <2> QED
    BY <2>1, <1>6
<1>11. spoiled \subseteq spoiled'
  BY <1>6 DEF Takes
<1>12. \A f \in EntriesOf(t)' : ContentInv(t, f)'
  <2> SUFFICES ASSUME NEW f \in EntriesOf(t) PROVE ContentInv(t, f)'
    BY <1>6
  <2>1. ContentInv(t, f) /\ f \in 1 .. Slots /\ elems'[f].data = Top(t).id
        /\ elems'[f].type = elems[f].type /\ elems'[f].kret = elems[f].kret
    BY <1>6, <1>8, <1>10 DEF EntryInv
  <2>2. KindOf(t, f) => KindOf(t, f)'
    BY <2>1, <1>1, <1>4, <1>5, <1>11 DEF KindOf
  <2> QED
    BY <2>1, <2>2, <1>1, <1>4, <1>5, <1>11 DEF ContentInv
<1>13. EntryInv(t)'
  <2>1. Top(t).fn # "register_kretprobe"
    BY <1>3, NamesApart
  <2>2. ASSUME Top(t).id \notin denied' \cup nested' \cup spoiled'
        PROVE  \E f \in EntriesOf(t)' : elems'[f].type = TypeOf(Top(t).fn)
    <3>1. PICK f \in EntriesOf(t) : elems[f].type = TypeOf(Top(t).fn)
      BY <2>2, <1>1, <1>3, <1>8, <1>11 DEF EntryInv, Cached
    <3> QED
      BY <3>1, <1>6, <1>10
  <2> QED
    BY <2>1, <2>2, <1>1, <1>3, <1>4, <1>5, <1>12 DEF EntryInv
<1>14. calls' = calls /\ calls' \in Nat /\ calls <= calls' /\ calls' \in 0 .. MaxCalls
       /\ denied' \subseteq 1 .. calls' /\ nested' \subseteq 1 .. calls'
  BY <1>1, Typing DEF Inv, TypeInv
<1>15. EventInv'
  BY <1>1, <1>7, <1>11, <1>14, EventsKept
<1> QED
  BY <1>5, <1>6, <1>7, <1>9, <1>13, <1>14, <1>15, StepKeeps

(* Nothing changes but the stack, and the thread's failure is recorded.    *)
LEMMA RegisterKretprobeReturnsKeeps ==
  ASSUME Inv, NEW t \in Thread, register_kretprobe_returns(t)
  PROVE  Inv'
<1>1. /\ Top(t).fn = "register_kretprobe" /\ stack' = [stack EXCEPT ![t] = Below(t)]
      /\ failed' = IF Top(t).id \in nested THEN failed ELSE failed \cup {t}
      /\ UNCHANGED <<elems, events, calls, done, denied, nested, spoiled>>
  BY DEF register_kretprobe_returns
<1>2. stack[t] # <<>>
  BY <1>1, Typing
<1>3. /\ stack' \in [Thread -> Seq(Frames)] /\ StackInv' /\ IdsApart'
      /\ \A u \in Thread \ {t} : stack'[u] = stack[u]
      /\ \/ Top(t)' = Frame("none", 0)
         \/ /\ Top(t)' \in Frames /\ Top(t)'.id \in nested \ denied
            /\ Outer(Top(t)') /\ Top(t)'.fn # "register_kretprobe"
  BY <1>1, <1>2, PopStack
<1>4. Takes(t) /\ OneEntry' /\ EntriesOf(t)' = EntriesOf(t)
  BY <1>1, NothingTaken
<1>5. Elsewhere(t)
  BY <1>1, <1>3 DEF Elsewhere
<1>6. Top(t)'.at = "body" /\ Top(t)'.fn \in Syscalls \cup {"none"} /\ Top(t)'.id \notin denied
      /\ (Top(t)'.fn \in Syscalls => Top(t)'.id \in nested)
  <2>1. CASE Top(t)' = Frame("none", 0)
    <3>1. Top(t)'.at = "body" /\ Top(t)'.fn = "none" /\ Top(t)'.id = 0
      BY <2>1 DEF Frame
    <3>2. 0 \notin denied
      BY DEF Inv, TypeInv
    <3> QED
      BY <3>1, <3>2, NamesApart
  <2>2. CASE Top(t)' # Frame("none", 0)
    BY <2>2, <1>3 DEF Frames, Fn, Outer
  <2> QED
    BY <2>1, <2>2
<1>7. PointerInv(t)'
  BY <1>6 DEF PointerInv, ReadInv, WriteInv
<1>8. EntryInv(t)
  BY DEF Inv
<1>9. \A e \in EntriesOf(t) : elems[e].type = "kprobe"
  BY <1>1, <1>8 DEF EntryInv, ContentInv
<1>10. t \notin failed' => EntriesOf(t) = {}
  BY <1>1, <1>8 DEF EntryInv
<1>11. Top(t)'.fn \notin Cached /\ Top(t)'.fn # "register_kretprobe" /\ Top(t)'.fn # "kprobe"
  BY <1>6, NamesApart
<1>12. \A e \in EntriesOf(t)' : ContentInv(t, e)'
  BY <1>1, <1>4, <1>6, <1>9, <1>10, <1>11 DEF ContentInv
<1>13. EntryInv(t)'
  BY <1>1, <1>4, <1>6, <1>11, <1>12 DEF EntryInv
<1>14. calls' = calls /\ calls' \in Nat /\ calls <= calls' /\ calls' \in 0 .. MaxCalls
       /\ denied' \subseteq 1 .. calls' /\ nested' \subseteq 1 .. calls' /\ spoiled \subseteq spoiled'
  BY <1>1, Typing DEF Inv, TypeInv
<1>15. EventInv'
  BY <1>1, <1>5, <1>14, EventsKept
<1> QED
  BY <1>3, <1>4, <1>5, <1>7, <1>13, <1>14, <1>15, StepKeeps

(* The return of a call that leaves no entry behind, or of one that has    *)
(* none of its own.                                                        *)
LEMMA ReturnKeeps ==
  ASSUME Inv, NEW t \in Thread, stack[t] # <<>>, Return(t),
         UNCHANGED <<elems, calls, denied, nested, spoiled, failed>>, EventInv',
         EntriesOf(t) # {} => Top(t).fn \in Syscalls \cup {"bogus_write"}
  PROVE  Inv'
<1>1. stack' = [stack EXCEPT ![t] = Below(t)]
  BY DEF Return
<1>2. /\ stack' \in [Thread -> Seq(Frames)] /\ StackInv' /\ IdsApart'
      /\ \A u \in Thread \ {t} : stack'[u] = stack[u]
      /\ Top(t).fn \in Base => Top(t)' = Frame("none", 0)
      /\ \/ Top(t)' = Frame("none", 0)
         \/ Top(t)' \in Frames /\ Top(t)'.id \in nested \ denied /\ Outer(Top(t)')
  BY <1>1, PopStack
<1>3. Takes(t) /\ OneEntry' /\ EntriesOf(t)' = EntriesOf(t)
  BY NothingTaken
<1>4. Elsewhere(t)
  BY <1>2 DEF Elsewhere
<1>5. EntryInv(t)
  BY DEF Inv
<1>6. calls' \in 0 .. MaxCalls /\ denied' \subseteq 1 .. calls' /\ nested' \subseteq 1 .. calls'
  BY DEF Inv, TypeInv
<1>7. Top(t)'.at = "body"
  BY <1>2 DEF Frame, Outer
<1>8. PointerInv(t)'
  BY <1>7 DEF PointerInv, ReadInv, WriteInv
<1>9. EntryInv(t)'
  <2>1. CASE Top(t)' = Frame("none", 0)
    <3>1. Top(t)'.fn = "none" /\ Top(t)'.id = 0
      BY <2>1 DEF Frame
    <3>2. 0 \notin denied
      BY DEF Inv, TypeInv
    <3>3. "none" \notin Syscalls \cup Cached \cup {"register_kretprobe"}
      BY NamesApart
    <3>4. \A e \in EntriesOf(t) : t \notin failed => elems[e].type # "kprobe"
      BY <1>5 DEF EntryInv, ContentInv
    <3>5. \A e \in EntriesOf(t)' : ContentInv(t, e)'
      BY <3>1, <3>3, <3>4, <1>3 DEF ContentInv
    <3> QED
      BY <3>1, <3>2, <3>3, <3>5 DEF EntryInv
  <2>2. CASE Top(t)' # Frame("none", 0)
    <3>1. EntriesOf(t) = {} /\ Top(t)'.id \in nested
      BY <2>2, <1>2 DEF Base, FileWrites
    <3> QED
      BY <3>1, <1>3 DEF EntryInv
  <2> QED
    BY <2>1, <2>2
<1> QED
  BY <1>2, <1>3, <1>4, <1>6, <1>8, <1>9, StepKeeps

LEMMA PopNothingKeeps ==
  ASSUME Inv, NEW t \in Thread, pop_nothing(t)
  PROVE  Inv'
<1>1. /\ Top(t).at = "body" /\ Top(t).fn \notin {"none", "register_kretprobe"}
      /\ peek_syscall(t, TypeOf(Top(t).fn)) = {} /\ Return(t)
      /\ UNCHANGED <<elems, events, calls, denied, nested, spoiled, failed>>
  BY DEF pop_nothing, Returning
<1>2. stack[t] # <<>> /\ Top(t).fn \in Syscalls \cup Cached \cup {"bogus_write"} /\ Top(t).id \in 1 .. calls
  BY <1>1, Typing DEF Fn, Cached, FileWrites
<1>3. EntryInv(t) /\ ~ \E e \in EntriesOf(t) : elems[e].type = TypeOf(Top(t).fn)
  BY <1>1 DEF Inv, peek_syscall
<1>4. Top(t).fn # "bogus_write" => Top(t).id \in denied \cup nested \cup spoiled
  BY <1>1, <1>2, <1>3 DEF EntryInv
<1>5. EntriesOf(t) # {} => Top(t).fn \in Syscalls \cup {"bogus_write"}
  <2> SUFFICES ASSUME Top(t).fn \in Cached, EntriesOf(t) # {} PROVE FALSE
    BY <1>2
  <2>1. TypeOf(Top(t).fn) = "kprobe"
    BY NamesApart
  <2>2. \A e \in EntriesOf(t) : elems[e].type = "kprobe"
    BY <1>3 DEF EntryInv, ContentInv
  <2> QED
    BY <2>1, <2>2, <1>3
<1>6. done' = done \/ (Top(t).fn # "bogus_write" /\ done' = done \cup {Top(t).id})
  BY <1>1 DEF Return
<1>7. EventInv'
  <2>1. EventsOfTheirCall' /\ KindTrue'
    BY <1>1 DEF Inv, EventInv, EventsOfTheirCall, KindTrue
  <2>2. ReturnsReported'
    BY <1>1, <1>4, <1>6 DEF Inv, EventInv, ReturnsReported
  <2>3. done' \subseteq 1 .. calls' /\ \A e \in events' : e.id \in 1 .. calls'
    BY <1>1, <1>2, <1>6 DEF Inv, EventInv
  <2> QED
    BY <2>1, <2>2, <2>3 DEF EventInv
<1> QED
  BY <1>1, <1>2, <1>5, <1>7, ReturnKeeps

LEMMA SendEventKeeps ==
  ASSUME Inv, NEW t \in Thread, send_event(t)
  PROVE  Inv'
<1> DEFINE ev == [thread |-> t, fn |-> Top(t).fn, id |-> Top(t).id, within |-> Top(t).within,
                  data |-> elems[Top(t).ptr].data, kret |-> elems[Top(t).ptr].kret]
<1>1. /\ Top(t).at = "read" /\ events' = IF t \in Exempt THEN events ELSE events \cup {ev}
      /\ Return(t) /\ UNCHANGED <<elems, calls, denied, nested, spoiled, failed>>
  BY DEF send_event
<1>2. /\ ev.thread = t /\ ev.fn = Top(t).fn /\ ev.id = Top(t).id /\ ev.within = Top(t).within
      /\ ev.data = elems[Top(t).ptr].data /\ ev.kret = elems[Top(t).ptr].kret
  OBVIOUS
<1> HIDE DEF ev
<1>3. stack[t] # <<>> /\ Top(t).id \in 1 .. calls
  BY <1>1, Typing
<1>4. /\ EntriesOf(t) = {} /\ Top(t).id \notin denied
      /\ Top(t).fn = "bogus_write" => t \in failed
      /\ Top(t).id \notin spoiled => /\ KindOf(t, Top(t).ptr)
                                     /\ Top(t).fn # "bogus_write" => elems[Top(t).ptr].data = Top(t).id
  BY <1>1 DEF Inv, PointerInv, ReadInv
<1>5. done' = done \/ (t \notin Exempt /\ done' = done \cup {Top(t).id})
  BY <1>1 DEF Return
<1>6. EventInv'
  <2>1. CASE t \in Exempt
    BY <2>1, <1>1, <1>5 DEF Inv, EventInv, EventsOfTheirCall, KindTrue, ReturnsReported
  <2>2. CASE t \notin Exempt
    <3>1. EventsOfTheirCall'
      BY <2>2, <1>1, <1>2, <1>4 DEF Inv, EventInv, EventsOfTheirCall
    <3>2. KindTrue'
      BY <2>2, <1>1, <1>2, <1>4 DEF Inv, EventInv, KindTrue, KindOf
    <3>3. ReturnsReported'
      BY <2>2, <1>1, <1>2, <1>5 DEF Inv, EventInv, ReturnsReported
    <3>4. done' \subseteq 1 .. calls' /\ \A e \in events' : e.id \in 1 .. calls'
      BY <2>2, <1>1, <1>2, <1>3, <1>5 DEF Inv, EventInv
    <3> QED
      BY <3>1, <3>2, <3>3, <3>4 DEF EventInv
  <2> QED
    BY <2>1, <2>2
<1> QED
  BY <1>1, <1>3, <1>4, <1>6, ReturnKeeps

LEMMA PopSyscallKeeps ==
  ASSUME Inv, NEW t \in Thread, pop_syscall(t)
  PROVE  Inv'
<1>1. /\ Top(t).at = "body" /\ Top(t).fn \notin {"none", "register_kretprobe"}
      /\ UNCHANGED <<events, calls, done, denied, nested, spoiled, failed>>
  BY DEF pop_syscall, Returning
<1>2. PICK e \in peek_syscall(t, TypeOf(Top(t).fn)) :
        /\ elems' = [elems EXCEPT ![e].key = Free]
        /\ stack' = SetTop(t, [Top(t) EXCEPT !.at = "read", !.ptr = e])
  BY DEF pop_syscall
<1>3. e \in EntriesOf(t) /\ elems[e].type = TypeOf(Top(t).fn) /\ e \in 1 .. Slots /\ elems[e].key = t
  BY <1>2, Typing DEF peek_syscall, EntriesOf
<1>4. /\ stack[t] # <<>> /\ Top(t).fn \in Syscalls \cup Cached \cup {"bogus_write"} /\ t # Free
      /\ elems \in [1 .. Slots -> Elem] /\ (Top(t).fn \in Syscalls => Top(t).within = 0)
      /\ Top(t) \in Frames
  BY <1>1, Typing DEF Fn, Cached, FileWrites, Base
<1> DEFINE fr == [Top(t) EXCEPT !.at = "read", !.ptr = e]
<1>5. /\ fr \in Frames /\ fr.id = Top(t).id /\ fr.fn = Top(t).fn /\ fr.within = Top(t).within
      /\ fr.at = "read" /\ fr.ptr = e
  <2>1. e \in 0 .. Slots
    BY <1>3, Typing
  <2> QED
    BY <1>4, <2>1 DEF Frames
<1> HIDE DEF fr
<1>6. /\ stack' \in [Thread -> Seq(Frames)] /\ StackInv' /\ IdsApart'
      /\ \A u \in Thread \ {t} : stack'[u] = stack[u]
      /\ Top(t)' = fr
  BY <1>1, <1>2, <1>4, <1>5, SetTopStack DEF fr
<1>7. /\ elems' \in [1 .. Slots -> Elem] /\ DOMAIN elems' = 1 .. Slots
      /\ \A f \in 1 .. Slots \ {e} : elems'[f] = elems[f]
      /\ elems'[e].key = Free /\ elems'[e].data = elems[e].data /\ elems'[e].kret = elems[e].kret
  <2>1. elems[e] \in Elem
    BY <1>3, <1>4
  <2>2. [elems[e] EXCEPT !.key = Free] \in Elem
    BY <2>1 DEF Elem
  <2>3. elems' = [elems EXCEPT ![e] = [elems[e] EXCEPT !.key = Free]]
    BY <1>2, <1>3, <1>4
  <2>4. elems'[e] = [elems[e] EXCEPT !.key = Free]
    BY <2>3, <1>3, <1>4
  <2>5. elems'[e].key = Free /\ elems'[e].data = elems[e].data /\ elems'[e].kret = elems[e].kret
    BY <2>1, <2>4 DEF Elem
  <2> QED
    BY <2>2, <2>3, <2>5, <1>3, <1>4
<1>8. Takes(t)
  BY <1>1, <1>3, <1>7 DEF Takes
<1>9. Elsewhere(t)
  BY <1>1, <1>6 DEF Elsewhere
<1>10. OneEntry'
  <2> SUFFICES ASSUME NEW f \in 1 .. Slots, NEW g \in 1 .. Slots, elems'[f].key = elems'[g].key,
                      f # g, elems'[f].key # Free
               PROVE  FALSE
    BY DEF OneEntry
  <2> QED
    BY <1>7 DEF Inv, OneEntry
<1>11. EntriesOf(t)' = {}
  BY <1>3, <1>4, <1>7 DEF EntriesOf, Inv, OneEntry
<1>12. EntryInv(t) /\ ContentInv(t, e)
  BY <1>3 DEF Inv, EntryInv
<1>13. Top(t).id \notin denied
  BY <1>3, <1>12 DEF EntryInv
<1>14. /\ Top(t).fn = "bogus_write" => t \in failed
       /\ Top(t).id \notin spoiled /\ Top(t).fn # "bogus_write" => elems[e].data = Top(t).id
       /\ KindOf(t, e)
  <2>1. CASE Top(t).fn \in Syscalls
    <3>1. elems[e].type = Top(t).fn /\ Top(t).fn # "bogus_write"
      BY <2>1, <1>3, NamesApart DEF TypeOf, FileWrites
    <3>2. Top(t).id \notin spoiled => elems[e].data = Top(t).id /\ elems[e].kret = FALSE
      BY <2>1, <3>1, <1>12 DEF ContentInv
    <3> QED
      BY <3>1, <3>2, <2>1, <1>4 DEF KindOf
  <2>2. CASE Top(t).fn \in Cached
    <3>1. Top(t).fn # "bogus_write"
      BY <2>2, NamesApart
    <3> QED
      BY <2>2, <3>1, <1>1, <1>12 DEF ContentInv
  <2>3. CASE Top(t).fn = "bogus_write"
    <3>1. elems[e].type = "kprobe"
      BY <2>3, <1>3, NamesApart DEF TypeOf, FileWrites
    <3>2. t \in failed
      BY <2>3, <3>1, <1>12 DEF ContentInv
    <3> QED
      BY <2>3, <3>2 DEF KindOf
  <2> QED
    BY <2>1, <2>2, <2>3, <1>4
<1>15. PointerInv(t)'
  <2>1. KindOf(t, e)'
    BY <1>14, <1>1, <1>5, <1>6, <1>7 DEF KindOf
  <2>2. KindOf(t, Top(t).ptr)' = KindOf(t, e)'
    BY <1>5, <1>6 DEF KindOf
  <2> QED
    BY <2>1, <2>2, <1>1, <1>3, <1>5, <1>6, <1>7, <1>11, <1>13, <1>14 DEF PointerInv, ReadInv, WriteInv
<1>16. EntryInv(t)'
  <2>1. Top(t)'.fn # "register_kretprobe"
    BY <1>1, <1>5, <1>6
  <2> QED
    BY <2>1, <1>5, <1>6, <1>11 DEF EntryInv
<1>17. calls' = calls /\ calls' \in Nat /\ calls <= calls' /\ calls' \in 0 .. MaxCalls
       /\ denied' \subseteq 1 .. calls' /\ nested' \subseteq 1 .. calls' /\ spoiled \subseteq spoiled'
  BY <1>1, Typing DEF Inv, TypeInv
<1>18. EventInv'
  BY <1>1, <1>9, <1>17, EventsKept
<1> QED
  BY <1>6, <1>8, <1>9, <1>10, <1>15, <1>16, <1>17, <1>18, StepKeeps

-----------------------------------------------------------------------------
LEMMA InvStart == Init => Inv
<1> SUFFICES ASSUME Init PROVE Inv
  OBVIOUS
<1>1. TypeInv
  <2>1. Blank \in Elem
    BY DEF Blank, Elem
  <2>2. \A t \in Thread : stack[t] = <<>>
    BY DEF Init
  <2> QED
    BY <2>1, SyscallCacheAssumption DEF Init, TypeInv
<1>2. \A e \in 1 .. Slots : elems[e].key = Free
  BY DEF Init, Blank
<1>3. OneEntry
  BY <1>2 DEF OneEntry
<1>4. StackInv /\ IdsApart
  BY DEF Init, StackInv, IdsApart
<1>5. ASSUME NEW t \in Thread PROVE PointerInv(t) /\ EntryInv(t)
  <2>1. EntriesOf(t) = {}
    BY <1>2, SyscallCacheAssumption DEF Init, EntriesOf
  <2>2. Top(t).fn = "none" /\ Top(t).at = "body" /\ Top(t).id = 0
    BY DEF Init, Top, Frame
  <2>3. "none" \notin Syscalls \cup Cached
    BY NamesApart
  <2> QED
    BY <2>1, <2>2, <2>3 DEF PointerInv, ReadInv, WriteInv, EntryInv
<1>6. EventInv
  BY DEF Init, EventInv, EventsOfTheirCall, ReturnsReported, KindTrue
<1> QED
  BY <1>1, <1>3, <1>4, <1>5, <1>6 DEF Inv

LEMMA InvStep == Inv /\ [Next]_vars => Inv'
<1> SUFFICES ASSUME Inv, [Next]_vars PROVE Inv'
  OBVIOUS
<1>1. CASE UNCHANGED vars
  <2>1. TypeInv' /\ OneEntry' /\ StackInv' /\ IdsApart'
    BY <1>1 DEF vars, Inv, TypeInv, OneEntry, StackInv, IdsApart
  <2>2. EventInv'
    BY <1>1 DEF vars, Inv, EventInv, EventsOfTheirCall, ReturnsReported, KindTrue
  <2>3. \A t \in Thread : PointerInv(t)' /\ EntryInv(t)'
    BY <1>1 DEF vars, Inv, PointerInv, ReadInv, WriteInv, EntryInv, ContentInv, KindOf, Top, EntriesOf
  <2> QED
    BY <2>1, <2>2, <2>3 DEF Inv
<1>2. ASSUME NEW t \in Thread, NEW fn \in Syscalls, sys_enter(t, fn, TRUE) \/ sys_enter(t, fn, FALSE)
      PROVE  Inv'
  BY <1>2, SysEnterKeeps
<1>3. ASSUME NEW t \in Thread, NEW fn \in KernelFunctions, kprobe_function(t, fn) PROVE Inv'
  BY <1>3, KprobeFunctionKeeps
<1>4. ASSUME NEW t \in Thread, register_kretprobe(t) \/ register_kretprobe_returns(t) PROVE Inv'
  BY <1>4, RegisterKretprobeKeeps, RegisterKretprobeReturnsKeeps
<1>5. ASSUME NEW t \in Thread, pop_syscall(t) \/ pop_nothing(t) \/ send_event(t) PROVE Inv'
  BY <1>5, PopSyscallKeeps, PopNothingKeeps, SendEventKeeps
<1>6. ASSUME NEW t \in Thread, peek_again(t) \/ peek_inside(t) \/ write_through(t) PROVE Inv'
  BY <1>6, PeekAgainKeeps, PeekInsideKeeps, WriteThroughKeeps
<1>7. ASSUME NEW t \in Thread, write_enabled_file_bool(t) PROVE Inv'
  BY <1>7, FileWriteKeeps
<1> QED
  BY <1>1, <1>2, <1>3, <1>4, <1>5, <1>6, <1>7 DEF Next

LEMMA Invariance == Spec => []Inv
  BY InvStart, InvStep, PTL DEF Spec

(* Type correctness: a thread never has two entries in the map, although   *)
(* refused calls, failed registrations and evictions leave entries behind, *)
(* and a return probe's pointer is an element of the map.                  *)
THEOREM TypeCorrect == Spec => []TypeOK
<1>1. Inv => TypeOK
  <2> SUFFICES ASSUME Inv PROVE TypeOK
    OBVIOUS
  <2>1. DOMAIN elems = 1 .. Slots /\ calls \in 0 .. MaxCalls
    BY DEF Inv, TypeInv
  <2>2. ASSUME NEW t \in Thread PROVE Cardinality(EntriesOf(t)) <= 1
    <3>1. \A e, f \in EntriesOf(t) : e = f
      BY Typing DEF Inv, OneEntry, EntriesOf
    <3>2. CASE EntriesOf(t) = {}
      BY <3>2, FS_EmptySet
    <3>3. CASE EntriesOf(t) # {}
      <4>1. PICK e \in EntriesOf(t) : EntriesOf(t) = {e}
        BY <3>1, <3>3
      <4> QED
        BY <4>1, FS_Singleton
    <3> QED
      BY <3>2, <3>3
  <2>3. ASSUME NEW t \in Thread, NEW i \in DOMAIN stack[t] PROVE stack[t][i].ptr \in 0 .. Slots
    <3>1. stack[t] \in Seq(Frames)
      BY DEF Inv, TypeInv
    <3>2. stack[t][i] \in Frames
      BY <3>1
    <3> QED
      BY <3>2 DEF Frames
  <2> QED
    BY <2>1, <2>2, <2>3 DEF TypeOK
<1> QED
  BY <1>1, Invariance, PTL

(* The event of a return probe shows the data of the very call it is sent  *)
(* for, although the entry is looked up, completed through a pointer and   *)
(* deleted in separate steps: only a call whose element another thread     *)
(* took or wrote into, or a write that cannot be parsed after a            *)
(* register_kretprobe that ended early, may show something else. No        *)
(* refused call is reported (cache_syscall, pop_syscall, the return        *)
(* probes, write_enabled_file_bool).                                       *)
THEOREM EventsAlwaysOfTheirCall == Spec => []EventsOfTheirCall
<1>1. Inv => EventsOfTheirCall
  BY DEF Inv, EventInv
<1> QED
  BY <1>1, Invariance, PTL

(* A call that returned, and was neither refused nor nested nor hurt by an *)
(* eviction or a late write, has been reported, if the caller is not       *)
(* exempt: what earlier calls of the thread left in the cache never hides  *)
(* it (pop_syscall's comparison of types).                                 *)
THEOREM ReturnsAlwaysReported == Spec => []ReturnsReported
<1>1. Inv => ReturnsReported
  BY DEF Inv, EventInv
<1> QED
  BY <1>1, Invariance, PTL

(* The kind of a reported kprobe is true unless an element was taken or a  *)
(* register_kretprobe of the thread ended early: reusing the entry of      *)
(* register_kretprobe in register_kprobe is what carries it.               *)
THEOREM KindAlwaysTrue == Spec => []KindTrue
<1>1. Inv => KindTrue
  BY DEF Inv, EventInv
<1> QED
  BY <1>1, Invariance, PTL

-----------------------------------------------------------------------------
(* The refinement of ThreadSlots.                                          *)

(* What a store does to the elements: e has the content v now, for thread  *)
(* t or for none, and at most the former entry of t is freed besides.      *)
Stores(t, v, e) ==
  /\ \A f \in 1 .. Slots \ {e} :
       \/ elems'[f] = elems[f]
       \/ elems[f].key = t /\ elems'[f].key = Free /\ ContentOf(f)' = ContentOf(f)
  /\ elems'[e].key \in {t, Free} /\ ContentOf(e)' = v

LEMMA StoreImplements ==
  ASSUME Inv, NEW t \in Thread, NEW STATE v, NEW STATE kept, NEW e \in 1 .. Slots,
         DOMAIN elems' = 1 .. Slots, Stores(t, v, e), SlotOf'[t] = kept,
         Top(t).at # "read", Top(t)'.at # "read", \A u \in Thread \ {t} : stack'[u] = stack[u]
  PROVE  Private!Store(t, v, kept)
<1>1. elems \in [1 .. Slots -> Elem] /\ DOMAIN elems = 1 .. Slots /\ \A u \in Thread : u # Free
  BY Typing
<1>2. ASSUME NEW u \in Thread \ {t}
      PROVE  /\ EntriesOf(u)' = EntriesOf(u) \ {e}
             /\ \A f \in EntriesOf(u) \ {e} : ContentOf(f)' = ContentOf(f)
  <2>1. \A f \in 1 .. Slots \ {e} : elems'[f].key = u <=> elems[f].key = u
    BY <1>1, <1>2 DEF Stores
  <2>2. elems'[e].key # u
    BY <1>1, <1>2 DEF Stores
  <2>3. \A f \in EntriesOf(u) \ {e} : f \in 1 .. Slots \ {e} /\ elems[f].key = u
    BY <1>1 DEF EntriesOf
  <2>4. \A f \in 1 .. Slots \ {e} : ContentOf(f)' = ContentOf(f)
    BY DEF Stores, ContentOf
  <2> QED
    BY <1>1, <2>1, <2>2, <2>3, <2>4 DEF EntriesOf
<1>3. \E lost \in Thread :
        SlotOf' = [u \in Thread |-> IF u = t THEN kept ELSE IF u = lost THEN {} ELSE SlotOf[u]]
  <2> DEFINE lost == IF elems[e].key = Free THEN t ELSE elems[e].key
  <2>1. lost \in Thread
    <3>1. elems[e] \in Elem
      BY <1>1
    <3> QED
      BY <3>1 DEF Elem
  <2>2. ASSUME NEW u \in Thread \ {t}, u # lost PROVE SlotOf'[u] = SlotOf[u]
    <3>1. e \notin EntriesOf(u)
      BY <1>1, <2>2 DEF EntriesOf
    <3>2. EntriesOf(u)' = EntriesOf(u) /\ \A f \in EntriesOf(u) : ContentOf(f)' = ContentOf(f)
      BY <1>2, <3>1
    <3>3. {ContentOf(f)' : f \in EntriesOf(u)'} = {ContentOf(f) : f \in EntriesOf(u)}
      BY <3>2
    <3> QED
      BY <3>3 DEF SlotOf
  <2>3. ASSUME NEW u \in Thread \ {t}, u = lost PROVE SlotOf'[u] = {}
    <3>1. elems[e].key = u
      BY <2>3
    <3>2. EntriesOf(u) \ {e} = {}
      BY <1>1, <3>1 DEF EntriesOf, Inv, OneEntry
    <3>3. EntriesOf(u)' = {}
      BY <1>2, <3>2
    <3> QED
      BY <3>3 DEF SlotOf
  <2>4. SlotOf' = [u \in Thread |-> SlotOf'[u]]
    BY DEF SlotOf
  <2> HIDE DEF lost
  <2> WITNESS lost \in Thread
  <2> QED
    BY <2>2, <2>3, <2>4
<1>4. \E mixed \in SUBSET (Thread \ {t}) :
        HandOf' = [u \in Thread |-> IF u \in mixed /\ HandOf[u] # {} THEN {v} ELSE HandOf[u]]
  <2> DEFINE mixed == {u \in Thread \ {t} : Top(u).ptr = e}
  <2>1. HandOf'[t] = {} /\ HandOf[t] = {} /\ t \notin mixed
    BY DEF HandOf
  <2>2. ASSUME NEW u \in Thread \ {t}
        PROVE  HandOf'[u] = IF u \in mixed /\ HandOf[u] # {} THEN {v} ELSE HandOf[u]
    <3>1. Top(u)' = Top(u)
      BY DEF Top
    <3>2. CASE Top(u).at # "read"
      BY <3>1, <3>2 DEF HandOf
    <3>3. CASE Top(u).at = "read"
      <4>1. HandOf'[u] = {ContentOf(Top(u).ptr)'} /\ HandOf[u] = {ContentOf(Top(u).ptr)}
        BY <3>1, <3>3 DEF HandOf, ContentOf
      <4>2. Top(u).ptr \in 1 .. Slots
        BY <3>3 DEF Inv, PointerInv, ReadInv
      <4>3. CASE Top(u).ptr = e
        <5>1. ContentOf(Top(u).ptr)' = v
          BY <4>3, <3>1 DEF Stores, ContentOf
        <5> QED
          BY <4>1, <4>3, <5>1
      <4>4. CASE Top(u).ptr # e
        <5>1. ContentOf(Top(u).ptr)' = ContentOf(Top(u).ptr)
          BY <4>2, <4>4, <3>1 DEF Stores, ContentOf
        <5> QED
          BY <4>1, <4>4, <5>1
      <4> QED
        BY <4>3, <4>4
    <3> QED
      BY <3>2, <3>3
  <2>3. HandOf' = [u \in Thread |-> HandOf'[u]]
    BY DEF HandOf
  <2> HIDE DEF mixed
  <2>4. mixed \in SUBSET (Thread \ {t})
    BY DEF mixed
  <2> WITNESS mixed \in SUBSET (Thread \ {t})
  <2> QED
    BY <2>1, <2>2, <2>3
<1> QED
  BY <1>3, <1>4 DEF Private!Store

LEMMA EntryStored ==
  ASSUME Inv, NEW t \in Thread, NEW STATE v, v \in Elem, v.key = t, NEW e \in Victims,
         elems' = cache_syscall(t, v, e)
  PROVE  LET c == [data |-> v.data, kret |-> v.kret]
         IN  DOMAIN elems' = 1 .. Slots /\ e \in 1 .. Slots /\ Stores(t, c, e) /\ SlotOf'[t] = {c}
<1> DEFINE c == [data |-> v.data, kret |-> v.kret]
<1>1. elems \in [1 .. Slots -> Elem] /\ e \in 1 .. Slots /\ t # Free /\ DOMAIN elems = 1 .. Slots
  BY Typing
<1>2. DOMAIN elems' = 1 .. Slots /\ elems'[e] = v
  BY <1>1 DEF cache_syscall
<1>3. \A f \in 1 .. Slots \ {e} :
        elems'[f] = IF elems[f].key = t THEN [elems[f] EXCEPT !.key = Free] ELSE elems[f]
  BY <1>1 DEF cache_syscall
<1>4. \A x \in Elem : LET y == [x EXCEPT !.key = Free]
                      IN  y.key = Free /\ y.data = x.data /\ y.kret = x.kret
  BY DEF Elem
<1>5. ASSUME NEW f \in 1 .. Slots \ {e}
      PROVE  \/ elems'[f] = elems[f] /\ elems[f].key # t
             \/ elems[f].key = t /\ elems'[f].key = Free /\ ContentOf(f)' = ContentOf(f)
  <2>1. elems[f] \in Elem
    BY <1>1
  <2>2. CASE elems[f].key = t
    <3>1. elems'[f].key = Free /\ elems'[f].data = elems[f].data /\ elems'[f].kret = elems[f].kret
      BY <2>1, <2>2, <1>3, <1>4
    <3> QED
      BY <2>2, <3>1 DEF ContentOf
  <2> QED
    BY <2>2, <1>3
<1>6. ContentOf(e)' = c
  BY <1>2 DEF ContentOf
<1>7. EntriesOf(t)' = {e}
  BY <1>1, <1>2, <1>5 DEF EntriesOf
<1>8. SlotOf'[t] = {c}
  <2>1. {ContentOf(f)' : f \in EntriesOf(t)'} = {c}
    BY <1>6, <1>7
  <2> QED
    BY <2>1 DEF SlotOf
<1> QED
  BY <1>1, <1>2, <1>5, <1>6, <1>8 DEF Stores

LEMMA RefusedStored ==
  ASSUME Inv, NEW t \in Thread, NEW STATE v, v \in Elem, v.key = t, NEW e \in Victims,
         elems' = Drop(cache_syscall(t, v, e), t)
  PROVE  LET c == [data |-> v.data, kret |-> v.kret]
         IN  DOMAIN elems' = 1 .. Slots /\ e \in 1 .. Slots /\ Stores(t, c, e) /\ SlotOf'[t] = {}
<1> DEFINE c == [data |-> v.data, kret |-> v.kret]
           es == cache_syscall(t, v, e)
<1>1. elems \in [1 .. Slots -> Elem] /\ e \in 1 .. Slots /\ t # Free /\ DOMAIN elems = 1 .. Slots
  BY Typing
<1>2. DOMAIN es = 1 .. Slots /\ es[e] = v
  BY <1>1 DEF cache_syscall
<1>3. \A f \in 1 .. Slots \ {e} :
        es[f] = IF elems[f].key = t THEN [elems[f] EXCEPT !.key = Free] ELSE elems[f]
  BY <1>1 DEF cache_syscall
<1>4. elems' = [f \in DOMAIN es |-> IF es[f].key = t THEN [es[f] EXCEPT !.key = Free] ELSE es[f]]
  BY DEF Drop
<1> HIDE DEF es
<1>5. \A x \in Elem : LET y == [x EXCEPT !.key = Free]
                      IN  y.key = Free /\ y.data = x.data /\ y.kret = x.kret
  BY DEF Elem
<1>6. DOMAIN elems' = 1 .. Slots /\ elems'[e] = [v EXCEPT !.key = Free]
  BY <1>1, <1>2, <1>4
<1>7. elems'[e].key = Free /\ ContentOf(e)' = c
  <2>1. elems'[e].key = Free /\ elems'[e].data = v.data /\ elems'[e].kret = v.kret
    BY <1>5, <1>6
  <2> QED
    BY <2>1 DEF ContentOf
<1>8. ASSUME NEW f \in 1 .. Slots \ {e}
      PROVE  \/ elems'[f] = elems[f] /\ elems[f].key # t
             \/ elems[f].key = t /\ elems'[f].key = Free /\ ContentOf(f)' = ContentOf(f)
  <2>1. elems[f] \in Elem
    BY <1>1
  <2>2. elems'[f] = IF es[f].key = t THEN [es[f] EXCEPT !.key = Free] ELSE es[f]
    BY <1>2, <1>4
  <2>3. CASE elems[f].key = t
    <3>1. es[f].key = Free /\ es[f].data = elems[f].data /\ es[f].kret = elems[f].kret
      BY <2>1, <2>3, <1>3, <1>5
    <3>2. elems'[f] = es[f]
      BY <3>1, <2>2, <1>1
    <3> QED
      BY <2>3, <3>1, <3>2 DEF ContentOf
  <2>4. CASE elems[f].key # t
    BY <2>2, <2>4, <1>3
  <2> QED
    BY <2>3, <2>4
<1>9. EntriesOf(t)' = {}
  <2>1. \A f \in 1 .. Slots \ {e} : elems'[f].key # t
    BY <1>1, <1>8
  <2>2. \A f \in 1 .. Slots : elems'[f].key # t
    BY <2>1, <1>1, <1>7
  <2> QED
    BY <2>2, <1>6 DEF EntriesOf
<1>10. SlotOf'[t] = {}
  BY <1>9 DEF SlotOf
<1> QED
  BY <1>1, <1>6, <1>7, <1>8, <1>10 DEF Stores

LEMMA Pushed ==
  ASSUME Inv, NEW t \in Thread, NEW STATE fr, Push(t, fr)
  PROVE  Top(t)' = fr /\ (\A u \in Thread \ {t} : stack'[u] = stack[u]) /\ calls + 1 \in 1 .. MaxCalls
<1>1. stack \in [Thread -> Seq(Frames)] /\ calls \in 0 .. MaxCalls /\ MaxCalls \in Nat
  BY SyscallCacheAssumption DEF Inv, TypeInv
<1>2. stack' = [stack EXCEPT ![t] = Append(stack[t], fr)] /\ calls < MaxCalls
  BY DEF Push
<1>3. stack'[t] = Append(stack[t], fr) /\ \A u \in Thread \ {t} : stack'[u] = stack[u]
  BY <1>1, <1>2
<1>4. stack[t] \in Seq(Frames)
  BY <1>1
<1>5. Append(stack[t], fr) # <<>> /\ Append(stack[t], fr)[Len(Append(stack[t], fr))] = fr
  BY <1>4
<1>6. Top(t)' = fr
  BY <1>3, <1>5 DEF Top
<1>7. calls + 1 \in 1 .. MaxCalls
  BY <1>1, <1>2
<1> QED
  BY <1>3, <1>6, <1>7

LEMMA SysEnterImplements ==
  ASSUME Inv, NEW t \in Thread, NEW fn \in Syscalls, NEW refused \in BOOLEAN, sys_enter(t, fn, refused)
  PROVE  Private!Next
<1> DEFINE id == calls + 1
           fr == Frame(fn, id)
           v == [key |-> t, type |-> fn, data |-> id, kret |-> FALSE]
           c == [data |-> id, kret |-> FALSE]
<1>1. stack[t] = <<>> /\ Push(t, fr)
  BY DEF sys_enter
<1>2. PICK e \in Victims :
        elems' = IF refused THEN Drop(cache_syscall(t, v, e), t) ELSE cache_syscall(t, v, e)
  BY DEF sys_enter
<1>3. id \in 1 .. MaxCalls /\ Top(t)' = fr /\ \A u \in Thread \ {t} : stack'[u] = stack[u]
  BY <1>1, Pushed
<1>4. v \in Elem /\ v.key = t /\ c = [data |-> v.data, kret |-> v.kret] /\ c \in Content
  BY <1>3 DEF Elem, Content
<1>5. Top(t).at = "body" /\ Top(t)'.at = "body"
  BY <1>1, <1>3 DEF Top, Frame
<1> HIDE DEF v, c, fr
<1>6. CASE refused
  <2>1. DOMAIN elems' = 1 .. Slots /\ e \in 1 .. Slots /\ Stores(t, c, e) /\ SlotOf'[t] = {}
    BY <1>2, <1>4, <1>6, RefusedStored
  <2>2. Private!Store(t, c, {})
    BY <2>1, <1>3, <1>5, StoreImplements
  <2> QED
    BY <2>2, <1>4 DEF Private!Next
<1>7. CASE ~ refused
  <2>1. DOMAIN elems' = 1 .. Slots /\ e \in 1 .. Slots /\ Stores(t, c, e) /\ SlotOf'[t] = {c}
    BY <1>2, <1>4, <1>7, EntryStored
  <2>2. Private!Store(t, c, {c})
    BY <2>1, <1>3, <1>5, StoreImplements
  <2> QED
    BY <2>2, <1>4 DEF Private!Next
<1> QED
  BY <1>6, <1>7

LEMMA RegisterKretprobeImplements ==
  ASSUME Inv, NEW t \in Thread, register_kretprobe(t)
  PROVE  Private!Next
<1> DEFINE id == calls + 1
           fr == Frame("register_kretprobe", id)
           v == KprobeEntry(t, id, TRUE)
           c == [data |-> id, kret |-> TRUE]
<1>1. InKernel(t) /\ Push(t, fr)
  BY DEF register_kretprobe
<1>2. PICK e \in Victims : elems' = cache_syscall(t, v, e)
  BY DEF register_kretprobe
<1>3. id \in 1 .. MaxCalls /\ Top(t)' = fr /\ \A u \in Thread \ {t} : stack'[u] = stack[u]
  BY <1>1, Pushed
<1>4. v \in Elem /\ v.key = t /\ c = [data |-> v.data, kret |-> v.kret] /\ c \in Content
  BY <1>3 DEF Elem, Content, KprobeEntry
<1>5. Top(t).at = "body" /\ Top(t)'.at = "body"
  BY <1>1, <1>3 DEF InKernel, Frame
<1> HIDE DEF v, c, fr
<1>6. DOMAIN elems' = 1 .. Slots /\ e \in 1 .. Slots /\ Stores(t, c, e) /\ SlotOf'[t] = {c}
  BY <1>2, <1>4, EntryStored
<1>7. Private!Store(t, c, {c})
  BY <1>6, <1>3, <1>5, StoreImplements
<1> QED
  BY <1>7, <1>4 DEF Private!Next

(* Entries that are only looked up, and writes that are not cached, change *)
(* no slot and no hand.                                                    *)
LEMMA NothingStored ==
  ASSUME NEW t \in Thread, UNCHANGED elems, Top(t).at # "read", Top(t)'.at # "read",
         \A u \in Thread \ {t} : stack'[u] = stack[u]
  PROVE  UNCHANGED <<SlotOf, HandOf>>
<1>1. SlotOf' = SlotOf
  BY DEF SlotOf, EntriesOf, ContentOf
<1>2. ASSUME NEW u \in Thread PROVE HandOf'[u] = HandOf[u]
  <2>1. CASE u = t
    BY <2>1 DEF HandOf
  <2>2. CASE u # t
    <3>1. Top(u)' = Top(u)
      BY <2>2 DEF Top
    <3> QED
      BY <3>1 DEF HandOf, ContentOf
  <2> QED
    BY <2>1, <2>2
<1>3. HandOf' = [u \in Thread |-> HandOf'[u]] /\ HandOf = [u \in Thread |-> HandOf[u]]
  BY DEF HandOf
<1> QED
  BY <1>1, <1>2, <1>3

LEMMA KprobeFunctionImplements ==
  ASSUME Inv, NEW t \in Thread, NEW fn \in KernelFunctions, kprobe_function(t, fn)
  PROVE  Private!Next \/ UNCHANGED <<SlotOf, HandOf>>
<1> DEFINE id == calls + 1
           wrapped == Top(t).fn = "register_kretprobe"
           frame == [Frame(fn, id) EXCEPT !.within = IF wrapped THEN Top(t).id ELSE 0]
           v == KprobeEntry(t, 0, FALSE)
           c == [data |-> 0, kret |-> FALSE]
<1>1. Top(t).at = "body"
  BY DEF kprobe_function, InKernel
<1>2. ASSUME NEW e \in peek_syscall(t, "kprobe"),
             Push(t, [frame EXCEPT !.at = "write", !.ptr = e]), elems' = cache_kprobe(t, e)
      PROVE  UNCHANGED <<SlotOf, HandOf>>
  <2> DEFINE fr == [frame EXCEPT !.at = "write", !.ptr = e]
  <2>1. fr.at = "write"
    BY DEF Frame
  <2>2. Push(t, fr)
    BY <1>2
  <2> HIDE DEF fr
  <2>3. Top(t)' = fr /\ \A u \in Thread \ {t} : stack'[u] = stack[u]
    BY <2>2, Pushed
  <2>4. UNCHANGED elems
    BY <1>2 DEF cache_kprobe
  <2> QED
    BY <1>1, <2>1, <2>3, <2>4, NothingStored
<1>3. ASSUME NEW e \in Victims, peek_syscall(t, "kprobe") = {},
             Push(t, [frame EXCEPT !.at = "peek"]), elems' = cache_kprobe(t, e)
      PROVE  Private!Next
  <2> DEFINE fr == [frame EXCEPT !.at = "peek"]
  <2>1. fr.at = "peek"
    BY DEF Frame
  <2>2. Push(t, fr)
    BY <1>3
  <2> HIDE DEF fr
  <2>3. Top(t)' = fr /\ \A u \in Thread \ {t} : stack'[u] = stack[u]
    BY <2>2, Pushed
  <2>4. elems' = cache_syscall(t, v, e)
    BY <1>3 DEF cache_kprobe
  <2>5. v \in Elem /\ v.key = t /\ c = [data |-> v.data, kret |-> v.kret] /\ c \in Content
    BY SyscallCacheAssumption DEF Elem, Content, KprobeEntry
  <2> HIDE DEF v, c
  <2>6. DOMAIN elems' = 1 .. Slots /\ e \in 1 .. Slots /\ Stores(t, c, e) /\ SlotOf'[t] = {c}
    BY <2>4, <2>5, EntryStored
  <2>7. Private!Store(t, c, {c})
    BY <2>1, <2>3, <2>6, <1>1, StoreImplements
  <2> QED
    BY <2>5, <2>7 DEF Private!Next
<1> HIDE DEF frame
<1>4. \/ \E e \in peek_syscall(t, "kprobe") :
            Push(t, [frame EXCEPT !.at = "write", !.ptr = e]) /\ elems' = cache_kprobe(t, e)
      \/ \E e \in Victims :
            /\ peek_syscall(t, "kprobe") = {} /\ Push(t, [frame EXCEPT !.at = "peek"])
            /\ elems' = cache_kprobe(t, e)
  BY DEF kprobe_function, frame
<1> QED
  BY <1>2, <1>3, <1>4

LEMMA FileWriteImplements ==
  ASSUME Inv, NEW t \in Thread, write_enabled_file_bool(t)
  PROVE  Private!Next \/ UNCHANGED <<SlotOf, HandOf>>
<1> DEFINE id == calls + 1
           v == KprobeEntry(t, id, FALSE)
           c == [data |-> id, kret |-> FALSE]
<1>1. Top(t).at = "body"
  BY DEF write_enabled_file_bool, Top, Frame
<1>2. ASSUME NEW fn, Push(t, Frame(fn, id))
      PROVE  Top(t)'.at = "body" /\ id \in 1 .. MaxCalls /\ \A u \in Thread \ {t} : stack'[u] = stack[u]
  <2> DEFINE fr == Frame(fn, id)
  <2>1. fr.at = "body" /\ Push(t, fr)
    BY <1>2 DEF Frame
  <2> HIDE DEF fr
  <2> QED
    BY <2>1, Pushed
<1>3. ASSUME Push(t, Frame("bogus_write", id)), UNCHANGED elems
      PROVE  UNCHANGED <<SlotOf, HandOf>>
  BY <1>1, <1>2, <1>3, NothingStored
<1>4. ASSUME Push(t, Frame("write_enabled_file_bool", id)), NEW e \in Victims, elems' = cache_syscall(t, v, e)
      PROVE  Private!Next
  <2>1. Top(t)'.at = "body" /\ id \in 1 .. MaxCalls /\ \A u \in Thread \ {t} : stack'[u] = stack[u]
    BY <1>2, <1>4
  <2>2. v \in Elem /\ v.key = t /\ c = [data |-> v.data, kret |-> v.kret] /\ c \in Content
    BY <2>1 DEF Elem, Content, KprobeEntry
  <2> HIDE DEF v, c
  <2>3. DOMAIN elems' = 1 .. Slots /\ e \in 1 .. Slots /\ Stores(t, c, e) /\ SlotOf'[t] = {c}
    BY <1>4, <2>2, EntryStored
  <2>4. Private!Store(t, c, {c})
    BY <2>1, <2>3, <1>1, StoreImplements
  <2> QED
    BY <2>2, <2>4 DEF Private!Next
<1> HIDE DEF v, id
<1>5. \/ Push(t, Frame("write_enabled_file_bool", id)) /\ \E e \in Victims : elems' = cache_syscall(t, v, e)
      \/ Push(t, Frame("bogus_write", id)) /\ UNCHANGED elems
  BY DEF write_enabled_file_bool, v, id
<1> QED
  BY <1>3, <1>4, <1>5

LEMMA PeekImplements ==
  ASSUME Inv, NEW t \in Thread, peek_again(t) \/ peek_inside(t)
  PROVE  UNCHANGED <<SlotOf, HandOf>>
<1>1. /\ Top(t).at \in {"peek", "body"} /\ UNCHANGED <<elems, calls, denied, nested>>
      /\ Top(t).at # "body" \/ Top(t).fn # "none"
  BY NamesApart DEF peek_again, peek_inside
<1>2. stack[t] # <<>> /\ Top(t) \in Frames
  BY <1>1, Typing
<1>3. \/ stack' = SetTop(t, [Top(t) EXCEPT !.at = "body"])
      \/ \E e \in 1 .. Slots : stack' = SetTop(t, [Top(t) EXCEPT !.at = "write", !.ptr = e])
  BY Typing DEF peek_again, peek_inside, peek_syscall
<1>4. PICK fr \in Frames : /\ stack' = SetTop(t, fr) /\ fr.at # "read"
                           /\ fr.id = Top(t).id /\ fr.fn = Top(t).fn /\ fr.within = Top(t).within
  <2>1. CASE stack' = SetTop(t, [Top(t) EXCEPT !.at = "body"])
    <3>1. LET x == [Top(t) EXCEPT !.at = "body"]
          IN  x \in Frames /\ x.id = Top(t).id /\ x.fn = Top(t).fn /\ x.within = Top(t).within /\ x.at = "body"
      BY <1>2 DEF Frames
    <3> QED
      BY <2>1, <3>1
  <2>2. ASSUME NEW e \in 1 .. Slots, stack' = SetTop(t, [Top(t) EXCEPT !.at = "write", !.ptr = e])
        PROVE  \E fr \in Frames : /\ stack' = SetTop(t, fr) /\ fr.at # "read"
                                  /\ fr.id = Top(t).id /\ fr.fn = Top(t).fn /\ fr.within = Top(t).within
    <3>1. e \in 0 .. Slots
      BY Typing
    <3>2. LET x == [Top(t) EXCEPT !.at = "write", !.ptr = e]
          IN  x \in Frames /\ x.id = Top(t).id /\ x.fn = Top(t).fn /\ x.within = Top(t).within /\ x.at = "write"
      BY <1>2, <3>1 DEF Frames
    <3> QED
      BY <2>2, <3>2
  <2> QED
    BY <2>1, <2>2, <1>3
<1>5. Top(t)' = fr /\ \A u \in Thread \ {t} : stack'[u] = stack[u]
  BY <1>1, <1>2, <1>4, SetTopStack
<1> QED
  BY <1>1, <1>4, <1>5, NothingStored

(* A write through a pointer completes the thread's own entry, or strays   *)
(* into the element's present content when the thread has lost its own.    *)
LEMMA WriteThroughImplements ==
  ASSUME Inv, NEW t \in Thread, write_through(t)
  PROVE  Private!Next
<1>1. Top(t).at = "write" /\ UNCHANGED <<calls, denied, nested>>
  BY DEF write_through
<1>2. stack[t] # <<>> /\ Top(t) \in Frames /\ Top(t).id \in Nat /\ Top(t).id \in 1 .. calls
  BY <1>1, Typing
<1>3. PICK e \in 1 .. Slots : e = Top(t).ptr /\ (elems[e].key = t \/ EntriesOf(t) = {})
  BY <1>1 DEF Inv, PointerInv, WriteInv
<1>4. PICK d \in Nat : d = Top(t).id
  BY <1>2
<1> DEFINE fr == [Top(t) EXCEPT !.at = "body", !.ptr = 0]
<1>5. /\ elems' = [elems EXCEPT ![e].data = d]
       /\ spoiled' = spoiled \cup Hurt(t, e) /\ stack' = SetTop(t, fr)
  BY <1>3, <1>4 DEF write_through
<1>6. fr \in Frames /\ fr.id = Top(t).id /\ fr.fn = Top(t).fn /\ fr.within = Top(t).within /\ fr.at = "body"
  <2>1. 0 \in 0 .. Slots
    BY Typing
  <2> QED
    BY <1>2, <2>1 DEF Frames
<1> HIDE DEF fr
<1>7. (\A u \in Thread \ {t} : stack'[u] = stack[u]) /\ Top(t)' = fr
  BY <1>1, <1>2, <1>5, <1>6, SetTopStack
<1>8. /\ \A u \in Thread : EntriesOf(u)' = EntriesOf(u) /\ EntriesOf(u) \subseteq 1 .. Slots
      /\ \A f \in 1 .. Slots : /\ elems'[f].key = elems[f].key /\ elems'[f].kret = elems[f].kret
                               /\ f # e => elems'[f] = elems[f]
      /\ elems'[e].data = d
  BY <1>5, WritesData, Typing
<1>9. \A f \in 1 .. Slots \ {e} : ContentOf(f)' = ContentOf(f)
  BY <1>8 DEF ContentOf
<1>10. ContentOf(e)' = [ContentOf(e) EXCEPT !.data = d]
  BY <1>3, <1>8 DEF ContentOf
<1>11. \A x, y : y = [x EXCEPT !.data = d] => Private!WithData({x}, d) = {y}
  BY DEF Private!WithData
<1>12. Private!WithData({}, d) = {}
  BY DEF Private!WithData
<1>13. ASSUME NEW u \in Thread
       PROVE  SlotOf'[u] = IF elems[e].key = u THEN Private!WithData(SlotOf[u], d) ELSE SlotOf[u]
  <2>1. CASE elems[e].key = u
    <3>1. EntriesOf(u) = {e}
      BY <2>1, <1>3, <1>8, Typing DEF Inv, OneEntry, EntriesOf
    <3>2. SlotOf[u] = {ContentOf(e)}
      BY <3>1 DEF SlotOf
    <3>3. SlotOf'[u] = {ContentOf(e)'}
      BY <3>1, <1>8 DEF SlotOf, ContentOf
    <3> QED
      BY <2>1, <3>2, <3>3, <1>10, <1>11
  <2>2. CASE elems[e].key # u
    <3>1. e \notin EntriesOf(u)
      BY <2>2 DEF EntriesOf
    <3>2. {ContentOf(f)' : f \in EntriesOf(u)'} = {ContentOf(f) : f \in EntriesOf(u)}
      BY <3>1, <1>8, <1>9
    <3> QED
      BY <2>2, <3>2 DEF SlotOf
  <2> QED
    BY <2>1, <2>2
<1>14. SlotOf' = [u \in Thread |-> SlotOf'[u]] /\ SlotOf = [u \in Thread |-> SlotOf[u]]
  BY DEF SlotOf
<1>15. HandOf[t] = {} /\ HandOf'[t] = {}
  BY <1>1, <1>7, <1>6 DEF HandOf
<1>16. \E mixed \in SUBSET (Thread \ {t}) :
         HandOf' = [u \in Thread |-> IF u \in mixed THEN Private!WithData(HandOf[u], d) ELSE HandOf[u]]
  <2> DEFINE mixed == {u \in Thread \ {t} : Top(u).ptr = e}
  <2>1. ASSUME NEW u \in Thread \ {t}
        PROVE  HandOf'[u] = IF u \in mixed THEN Private!WithData(HandOf[u], d) ELSE HandOf[u]
    <3>1. Top(u)' = Top(u)
      BY <1>7 DEF Top
    <3>2. CASE Top(u).at # "read"
      BY <3>1, <3>2, <1>12 DEF HandOf
    <3>3. CASE Top(u).at = "read"
      <4>1. HandOf'[u] = {ContentOf(Top(u).ptr)'} /\ HandOf[u] = {ContentOf(Top(u).ptr)}
        BY <3>1, <3>3 DEF HandOf, ContentOf
      <4>2. Top(u).ptr \in 1 .. Slots
        BY <3>3 DEF Inv, PointerInv, ReadInv
      <4>3. CASE Top(u).ptr = e
        <5>1. ContentOf(Top(u).ptr)' = [ContentOf(Top(u).ptr) EXCEPT !.data = d]
          BY <4>3, <3>1, <1>10 DEF ContentOf
        <5> QED
          BY <4>1, <4>3, <5>1, <1>11
      <4>4. CASE Top(u).ptr # e
        <5>1. ContentOf(Top(u).ptr)' = ContentOf(Top(u).ptr)
          BY <4>2, <4>4, <3>1, <1>9 DEF ContentOf
        <5> QED
          BY <4>1, <4>4, <5>1
      <4> QED
        BY <4>3, <4>4
    <3> QED
      BY <3>2, <3>3
  <2>2. HandOf' = [u \in Thread |-> HandOf'[u]] /\ t \notin mixed
    BY DEF HandOf
  <2>3. mixed \in SUBSET (Thread \ {t})
    OBVIOUS
  <2> HIDE DEF mixed
  <2> WITNESS mixed \in SUBSET (Thread \ {t})
  <2> QED
    BY <2>1, <2>2, <1>15
<1>17. [data |-> d, kret |-> TRUE] \in Content /\ [data |-> d, kret |-> TRUE].data = d
  <2>1. d \in 0 .. MaxCalls
    BY <1>2, <1>4, SyscallCacheAssumption DEF Inv, TypeInv
  <2> QED
    BY <2>1 DEF Content
<1>18. CASE elems[e].key = t
  <2>1. SlotOf[t] # {}
    <3>1. e \in EntriesOf(t)
      BY <1>18, <1>3, Typing DEF EntriesOf
    <3> QED
      BY <3>1 DEF SlotOf
  <2>2. SlotOf' = [SlotOf EXCEPT ![t] = Private!WithData(SlotOf[t], d)]
    BY <1>13, <1>14, <1>18
  <2>3. Private!Complete(t, d)
    BY <2>1, <2>2, <1>16 DEF Private!Complete
  <2> QED
    BY <2>3, <1>17 DEF Private!Next
<1>19. CASE elems[e].key # t
  <2>1. SlotOf[t] = {}
    BY <1>3, <1>19 DEF SlotOf
  <2> DEFINE hit == IF elems[e].key = Free THEN t ELSE elems[e].key
  <2>2. hit \in Thread
    <3>1. elems[e] \in Elem
      BY <1>3, Typing
    <3> QED
      BY <3>1 DEF Elem
  <2>3. \A u \in Thread : SlotOf'[u] = IF u = hit THEN Private!WithData(SlotOf[hit], d) ELSE SlotOf[u]
    <3>1. \A u \in Thread : elems[e].key = u => u = hit
      BY Typing
    <3>2. elems[e].key = Free => SlotOf'[hit] = Private!WithData(SlotOf[hit], d)
      BY <2>1, <1>12, <1>13, <1>19
    <3>3. elems[e].key # Free => hit = elems[e].key
      OBVIOUS
    <3> HIDE DEF hit
    <3> QED
      BY <2>2, <3>1, <3>2, <3>3, <1>13
  <2> HIDE DEF hit
  <2>4. SlotOf' = [SlotOf EXCEPT ![hit] = Private!WithData(SlotOf[hit], d)]
    BY <2>2, <2>3, <1>14
  <2>5. Private!Stray(t, d)
    BY <2>1, <2>2, <2>4, <1>15, <1>16 DEF Private!Stray
  <2> QED
    BY <2>5, <1>17 DEF Private!Next
<1> QED
  BY <1>18, <1>19

LEMMA PopSyscallImplements ==
  ASSUME Inv, NEW t \in Thread, pop_syscall(t)
  PROVE  Private!Next
<1>1. Top(t).at = "body" /\ Top(t).fn # "none" /\ UNCHANGED <<calls, denied, nested>>
  BY DEF pop_syscall, Returning
<1>2. PICK e \in peek_syscall(t, TypeOf(Top(t).fn)) :
        /\ elems' = [elems EXCEPT ![e].key = Free]
        /\ stack' = SetTop(t, [Top(t) EXCEPT !.at = "read", !.ptr = e])
  BY DEF pop_syscall
<1>3. /\ e \in 1 .. Slots /\ elems[e].key = t /\ stack[t] # <<>> /\ t # Free /\ Top(t) \in Frames
      /\ elems \in [1 .. Slots -> Elem] /\ \A u \in Thread : u # Free
  BY <1>1, <1>2, Typing DEF peek_syscall, EntriesOf
<1>4. Top(t)'.ptr = e /\ Top(t)'.at = "read" /\ \A u \in Thread \ {t} : stack'[u] = stack[u]
  <2> DEFINE fr == [Top(t) EXCEPT !.at = "read", !.ptr = e]
  <2>1. e \in 0 .. Slots
    BY <1>3, Typing
  <2>2. /\ fr \in Frames /\ fr.id = Top(t).id /\ fr.fn = Top(t).fn /\ fr.within = Top(t).within
        /\ fr.at = "read" /\ fr.ptr = e
    BY <2>1, <1>3 DEF Frames
  <2> HIDE DEF fr
  <2> QED
    BY <2>2, <1>1, <1>2, <1>3, SetTopStack DEF fr
<1>5. /\ DOMAIN elems' = 1 .. Slots /\ \A f \in 1 .. Slots \ {e} : elems'[f] = elems[f]
      /\ elems'[e].key = Free /\ elems'[e].data = elems[e].data /\ elems'[e].kret = elems[e].kret
  <2>1. elems[e] \in Elem
    BY <1>3
  <2>2. elems' = [elems EXCEPT ![e] = [elems[e] EXCEPT !.key = Free]]
    BY <1>2, <1>3
  <2>3. elems'[e] = [elems[e] EXCEPT !.key = Free]
    BY <2>2, <1>3
  <2>4. elems'[e].key = Free /\ elems'[e].data = elems[e].data /\ elems'[e].kret = elems[e].kret
    BY <2>1, <2>3 DEF Elem
  <2> QED
    BY <2>2, <2>4, <1>3
<1>6. \A f \in 1 .. Slots : ContentOf(f)' = ContentOf(f)
  BY <1>5 DEF ContentOf
<1>7. EntriesOf(t) = {e} /\ EntriesOf(t)' = {} /\ \A u \in Thread \ {t} : EntriesOf(u)' = EntriesOf(u)
  <2>1. \A f \in 1 .. Slots \ {e} : elems[f].key # t
    BY <1>3 DEF Inv, OneEntry
  <2> QED
    BY <2>1, <1>3, <1>5 DEF EntriesOf
<1>8. SlotOf[t] = {ContentOf(e)} /\ SlotOf'[t] = {}
  BY <1>7 DEF SlotOf
<1>9. ASSUME NEW u \in Thread \ {t} PROVE SlotOf'[u] = SlotOf[u]
  <2>1. EntriesOf(u) \subseteq 1 .. Slots
    BY Typing
  <2>2. {ContentOf(f)' : f \in EntriesOf(u)'} = {ContentOf(f) : f \in EntriesOf(u)}
    BY <2>1, <1>6, <1>7
  <2> QED
    BY <2>2 DEF SlotOf
<1>10. SlotOf' = [SlotOf EXCEPT ![t] = {}]
  <2>1. SlotOf' = [u \in Thread |-> SlotOf'[u]] /\ SlotOf = [u \in Thread |-> SlotOf[u]]
    BY DEF SlotOf
  <2> QED
    BY <2>1, <1>8, <1>9
<1>11. HandOf[t] = {} /\ HandOf'[t] = {ContentOf(e)}
  <2>1. HandOf'[t] = {ContentOf(e)'}
    BY <1>3, <1>4 DEF HandOf, ContentOf
  <2> QED
    BY <2>1, <1>1, <1>3, <1>6 DEF HandOf
<1>12. ASSUME NEW u \in Thread \ {t} PROVE HandOf'[u] = HandOf[u]
  <2>1. Top(u)' = Top(u)
    BY <1>4 DEF Top
  <2>2. CASE Top(u).at # "read"
    BY <2>1, <2>2 DEF HandOf
  <2>3. CASE Top(u).at = "read"
    <3>1. Top(u).ptr \in 1 .. Slots
      BY <2>3 DEF Inv, PointerInv, ReadInv
    <3>2. HandOf'[u] = {ContentOf(Top(u).ptr)'} /\ HandOf[u] = {ContentOf(Top(u).ptr)}
      BY <2>1, <2>3 DEF HandOf, ContentOf
    <3>3. ContentOf(Top(u).ptr)' = ContentOf(Top(u).ptr)
      BY <2>1, <3>1, <1>6 DEF ContentOf
    <3> QED
      BY <3>2, <3>3
  <2> QED
    BY <2>2, <2>3
<1>13. HandOf' = [HandOf EXCEPT ![t] = SlotOf[t]]
  <2>1. HandOf' = [u \in Thread |-> HandOf'[u]] /\ HandOf = [u \in Thread |-> HandOf[u]]
    BY DEF HandOf
  <2> QED
    BY <2>1, <1>8, <1>11, <1>12
<1>14. Private!Take(t)
  BY <1>8, <1>10, <1>11, <1>13 DEF Private!Take
<1> QED
  BY <1>14 DEF Private!Next

(* A call that returns lets go of what its probe held, if anything.        *)
LEMMA ReturnImplements ==
  ASSUME Inv, NEW t \in Thread, stack[t] # <<>>, stack' = [stack EXCEPT ![t] = Below(t)],
         UNCHANGED <<elems, calls, denied, nested>>
  PROVE  Private!Next
<1>1. Top(t)'.at = "body" /\ \A u \in Thread \ {t} : stack'[u] = stack[u]
  <2>1. /\ \A u \in Thread \ {t} : stack'[u] = stack[u]
        /\ Top(t)' = Frame("none", 0) \/ Outer(Top(t)')
    BY PopStack
  <2> QED
    BY <2>1 DEF Frame, Outer
<1>2. SlotOf' = SlotOf
  BY DEF SlotOf, EntriesOf, ContentOf
<1>3. HandOf'[t] = {}
  BY <1>1 DEF HandOf
<1>4. ASSUME NEW u \in Thread \ {t} PROVE HandOf'[u] = HandOf[u]
  <2>1. Top(u)' = Top(u)
    BY <1>1 DEF Top
  <2> QED
    BY <2>1 DEF HandOf, ContentOf
<1>5. HandOf' = [HandOf EXCEPT ![t] = {}]
  <2>1. HandOf' = [u \in Thread |-> HandOf'[u]] /\ HandOf = [u \in Thread |-> HandOf[u]]
    BY DEF HandOf
  <2> QED
    BY <2>1, <1>3, <1>4
<1>6. Private!LetGo(t)
  BY <1>2, <1>5 DEF Private!LetGo
<1> QED
  BY <1>6 DEF Private!Next

LEMMA StepImplements == Inv /\ [Next]_vars => [Private!Next]_<<SlotOf, HandOf>>
<1> SUFFICES ASSUME Inv, [Next]_vars PROVE [Private!Next]_<<SlotOf, HandOf>>
  OBVIOUS
<1>1. CASE UNCHANGED vars
  BY <1>1 DEF vars, SlotOf, HandOf, EntriesOf, ContentOf, Top
<1>2. ASSUME NEW t \in Thread, NEW fn \in Syscalls, sys_enter(t, fn, TRUE) \/ sys_enter(t, fn, FALSE)
      PROVE  Private!Next
  BY <1>2, SysEnterImplements
<1>3. ASSUME NEW t \in Thread, NEW fn \in KernelFunctions, kprobe_function(t, fn)
      PROVE  [Private!Next]_<<SlotOf, HandOf>>
  BY <1>3, KprobeFunctionImplements
<1>4. ASSUME NEW t \in Thread, register_kretprobe(t) PROVE Private!Next
  BY <1>4, RegisterKretprobeImplements
<1>5. ASSUME NEW t \in Thread, pop_syscall(t) PROVE Private!Next
  BY <1>5, PopSyscallImplements
<1>6. ASSUME NEW t \in Thread, register_kretprobe_returns(t) \/ pop_nothing(t) \/ send_event(t)
      PROVE  Private!Next
  <2>1. stack' = [stack EXCEPT ![t] = Below(t)] /\ UNCHANGED <<elems, calls, denied, nested>>
    BY <1>6 DEF register_kretprobe_returns, pop_nothing, send_event, Return
  <2>2. Top(t).fn # "none" \/ Top(t).at # "body"
    BY <1>6 DEF register_kretprobe_returns, pop_nothing, send_event, Returning
  <2>3. stack[t] # <<>>
    BY <2>2, Typing
  <2> QED
    BY <2>1, <2>3, ReturnImplements
<1>7. ASSUME NEW t \in Thread, peek_again(t) \/ peek_inside(t) \/ write_through(t) \/ write_enabled_file_bool(t)
      PROVE  [Private!Next]_<<SlotOf, HandOf>>
  BY <1>7, PeekImplements, WriteThroughImplements, FileWriteImplements
<1> QED
  BY <1>1, <1>2, <1>3, <1>4, <1>5, <1>6, <1>7 DEF Next

(* The LRU map shared by all threads implements a slot and a hand for each *)
(* as ThreadSlots describes them, for any number of threads, elements and  *)
(* calls: the content of a thread's slot is what it stored, its hand is    *)
(* filled from it, and what others can do to either is what ThreadSlots    *)
(* admits, a stray write of a thread that lost its entry included          *)
(* (cache_syscall, peek_syscall, pop_syscall, the writes through the       *)
(* pointers of the entry probes).                                          *)
THEOREM ImplementsThreadSlots == Spec => SlotsPrivate
<1>1. Init => Private!Init
  <2> SUFFICES ASSUME Init PROVE Private!Init
    OBVIOUS
  <2>1. \A t \in Thread : EntriesOf(t) = {} /\ Top(t).at = "body"
    BY SyscallCacheAssumption DEF Init, EntriesOf, Blank, Top, Frame
  <2> QED
    BY <2>1 DEF Private!Init, Private!Empty, SlotOf, HandOf
<1> QED
  BY <1>1, StepImplements, Invariance, PTL DEF Spec, SlotsPrivate, Private!Spec, Private!vars
=============================================================================
