-------------------------- MODULE BpfObjectsProofs --------------------------
(***************************************************************************)
(* Proofs about the tracking of BPF objects, for any threads, descriptors, *)
(* helpers and numbers of objects.                                         *)
(***************************************************************************)
EXTENDS BpfObjects, FiniteSetTheorems, TLAPS

Ids == Nat \ {0}
Objs == [kind : Kind \cup {"none", "other"}, id : Nat]
Table(K, V) == UNION {[S -> V] : S \in SUBSET K}
Calls == [cmd : Commands, map_fd : Fd \cup {NoFd}, prog_fd : Fd \cup {NoFd},
          map_id : Nat, prog_id : Nat, helpers : SUBSET Nat, met : SUBSET Helpers,
          ret : Fd \cup {NoFd}, used : [Kind -> Objs], by : {"entry", "kernel"}]

TypeInv ==
  /\ made \in [Kind -> Table(Ids, SUBSET Helpers)]
  /\ described \in [Kind -> Table(Ids, SUBSET Int)]
  /\ known \in [Kind -> Table(Fd, Nat)]
  /\ fds \in [Fd -> Objs]
  /\ call \in [Thread -> Calls \cup {NoCall}]

(* Objects are numbered from 1 without gaps: the id of a new one is new.   *)
MadeInv == \A k \in Kind : \E n \in Nat : DOMAIN made[k] = 1 .. n

(* A description is of an object that was made, with the bits of its       *)
(* helpers or none, unless it was evicted.                                 *)
Bits(S) == {Bit(h) : h \in S}
DescribedInv ==
  \A id \in DOMAIN described["prog"] :
     id \in DOMAIN made["prog"] /\ described["prog"][id] \in {Undescribed, {}, Bits(made["prog"][id])}

(* The object of a descriptor was described at some time.                  *)
FdsInv ==
  \A fd \in Fd : fds[fd].kind \in Kind => fds[fd].id \in DOMAIN described[fds[fd].kind]

(* A descriptor KRIe was shown is recorded with its object, or forgotten.  *)
SettledInv ==
  \A fd \in settled : (fd \in Fd /\ fds[fd].kind \in Kind) =>
     fd \in DOMAIN known[fds[fd].kind] /\ known[fds[fd].kind][fd] \in {fds[fd].id, Forgotten}

(* What a call in progress has in its cache entry: the helpers the         *)
(* verifier met, none unless it loads a program, and, when it makes a      *)
(* descriptor, the object the kernel took. A call with an id or a target   *)
(* uses no object.                                                         *)
IdOf(c, k) == IF k = "map" THEN c.map_id ELSE c.prog_id
CallInv(c) ==
  /\ c.helpers = Bits(c.met) /\ (c.cmd # "PROG_LOAD" => c.met = {})
  /\ (c.map_fd = NoFd) = (c.cmd \notin OnMap \cup FromId) /\ (c.prog_fd = NoFd) = (c.cmd \notin OnProg)
  /\ c.cmd \in Makers => \A k \in Kind :
        c.used[k] = Closed \/ (/\ Target(c.cmd, k) /\ IdOf(c, k) \in Ids
                               /\ c.used[k] = [kind |-> k, id |-> IdOf(c, k)])
  /\ c.cmd \in OnTarget \cup FromId => \A k \in Kind : c.used[k] = Closed

Inv ==
  /\ TypeInv /\ MadeInv /\ DescribedInv /\ FdsInv /\ SettledInv
  /\ \A t \in Thread : call[t] # NoCall => CallInv(call[t])

-----------------------------------------------------------------------------
LEMMA Written ==
  ASSUME NEW K, NEW V, NEW f \in Table(K, V), NEW x \in K, NEW v \in V
  PROVE  With(f, x, v) \in Table(K, V)
<1>1. PICK S \in SUBSET K : f \in [S -> V]
  BY DEF Table
<1>2. With(f, x, v) \in [S \cup {x} -> V] /\ S \cup {x} \in SUBSET K
  BY <1>1 DEF With
<1> QED
  BY <1>2 DEF Table

LEMMA BitValue ==
  ASSUME NEW h \in Nat
  PROVE  /\ Bit(h) \in Nat /\ (h < 192 => Bit(h) = h)
         /\ (h >= 192 => Bit(h) \in 128 .. 191)
<1>1. CASE h < 128
  BY <1>1 DEF Bit
<1>2. CASE h >= 128
  <2> DEFINE n == h - 128
  <2>1. n \in Nat /\ Bit(h) = 128 + (n % 64)
    BY <1>2 DEF Bit
  <2> HIDE DEF n
  <2>2. n % 64 \in 0 .. 63 /\ (n < 64 => n % 64 = n)
    BY <2>1
  <2>3. n = h - 128
    BY DEF n
  <2> QED
    BY <1>2, <2>1, <2>2, <2>3
<1> QED
  BY <1>1, <1>2

LEMMA BitsOf ==
  ASSUME NEW S \in SUBSET Nat
  PROVE  /\ Bits(S) \in SUBSET Nat
         /\ Bits(S) \cap 0 .. 127 = S \cap 0 .. 127
         /\ S \cap 128 .. 191 \subseteq Bits(S)
         /\ \A b \in Bits(S) \ S : b \in 128 .. 191 /\ \E h \in S : h >= 192
<1>1. \A h \in S : /\ h \in Nat /\ Bit(h) \in Nat /\ (h < 192 => Bit(h) = h)
                   /\ (h >= 192 => Bit(h) \in 128 .. 191)
  BY BitValue
<1>2. \A b \in Bits(S) : \E h \in S : b = Bit(h)
  BY DEF Bits
<1>3. \A h \in S : Bit(h) \in Bits(S)
  BY DEF Bits
<1> QED
  BY <1>1, <1>2, <1>3

LEMMA BitsGrow == \A S, h : Bits(S \cup {h}) = Bits(S) \cup {Bit(h)}
  BY DEF Bits

(* The rest of a call's invariant does not depend on other threads.        *)
LEMMA CallsKept ==
  ASSUME Inv, NEW t \in Thread, NEW STATE c, call' = [call EXCEPT ![t] = c],
         c = NoCall \/ (c \in Calls /\ CallInv(c))
  PROVE  call' \in [Thread -> Calls \cup {NoCall}]
         /\ \A u \in Thread : call'[u] # NoCall => CallInv(call'[u])
<1>1. call \in [Thread -> Calls \cup {NoCall}]
  BY DEF Inv, TypeInv
<1>2. call'[t] = c /\ \A u \in Thread \ {t} : call'[u] = call[u]
  BY <1>1
<1>3. call' \in [Thread -> Calls \cup {NoCall}]
  BY <1>1
<1>4. ASSUME NEW u \in Thread, call'[u] # NoCall PROVE CallInv(call'[u])
  BY <1>2, <1>4 DEF Inv
<1> QED
  BY <1>3, <1>4

LEMMA CallTyped ==
  ASSUME Inv, NEW t \in Thread, call[t].cmd \in Commands
  PROVE  call[t] \in Calls /\ CallInv(call[t])
<1>1. "none" \notin Commands
  BY DEF Commands, Makers, OnBoth, OnMap, OnTarget, OnProg, FromId
<1>2. call[t] # NoCall
  BY <1>1 DEF NoCall
<1> QED
  BY <1>2 DEF Inv, TypeInv

-----------------------------------------------------------------------------
LEMMA EntryKeeps ==
  ASSUME Inv, NEW t \in Thread, NEW cmd \in Commands, NEW map_fd \in Fd \cup {NoFd},
         NEW prog_fd \in Fd \cup {NoFd}, sys_bpf(t, cmd, map_fd, prog_fd)
  PROVE  Inv'
<1> DEFINE c == [cmd |-> cmd, map_fd |-> map_fd, prog_fd |-> prog_fd,
                 map_id |-> 0, prog_id |-> 0, helpers |-> {}, met |-> {}, ret |-> NoFd,
                 used |-> [k \in Kind |-> Closed], by |-> "entry"]
<1>1. /\ (map_fd = NoFd) = (cmd \notin OnMap \cup FromId) /\ (prog_fd = NoFd) = (cmd \notin OnProg)
      /\ call' = [call EXCEPT ![t] = c] /\ UNCHANGED <<made, fds, known, described, settled, evicted>>
  BY DEF sys_bpf
<1>2. Closed \in Objs
  BY DEF Closed, Objs
<1>3. c \in Calls /\ CallInv(c)
  <2>1. "PROG_LOAD" \in Makers /\ Bits({}) = {}
    BY DEF Makers, Bits
  <2> QED
    BY <1>1, <1>2, <2>1 DEF Calls, CallInv
<1> HIDE DEF c
<1>4. call' \in [Thread -> Calls \cup {NoCall}] /\ \A u \in Thread : call'[u] # NoCall => CallInv(call'[u])
  BY <1>1, <1>3, CallsKept
<1>5. TypeInv' /\ MadeInv' /\ DescribedInv' /\ FdsInv' /\ SettledInv'
  BY <1>1, <1>4 DEF Inv, TypeInv, MadeInv, DescribedInv, FdsInv, SettledInv
<1> QED
  BY <1>4, <1>5 DEF Inv

LEMMA HelperKeeps ==
  ASSUME Inv, NEW t \in Thread, NEW h \in Helpers, check_helper_call(t, h)
  PROVE  Inv'
<1> DEFINE c == [call[t] EXCEPT !.helpers = call[t].helpers \cup {Bit(h)}, !.met = call[t].met \cup {h}]
<1>1. call[t].cmd = "PROG_LOAD" /\ UNCHANGED <<made, fds, known, described, settled, evicted>>
      /\ call' = [Record(t, h) EXCEPT ![t].met = @ \cup {h}]
  BY DEF check_helper_call
<1>2. call[t] \in Calls /\ CallInv(call[t])
  BY <1>1, CallTyped DEF Commands, Makers
<1>3. call' = [call EXCEPT ![t] = c]
  BY <1>1, <1>2 DEF Record, Inv, TypeInv, Calls
<1>4. c \in Calls /\ CallInv(c)
  <2>1. Bit(h) \in Nat
    BY BitValue, BpfObjectsAssumption
  <2>2. Bits(call[t].met \cup {h}) = Bits(call[t].met) \cup {Bit(h)}
    BY BitsGrow
  <2>3. /\ c \in Calls /\ c.helpers = call[t].helpers \cup {Bit(h)} /\ c.met = call[t].met \cup {h}
        /\ c.cmd = call[t].cmd /\ c.map_fd = call[t].map_fd /\ c.prog_fd = call[t].prog_fd
        /\ c.used = call[t].used /\ c.map_id = call[t].map_id /\ c.prog_id = call[t].prog_id
    BY <1>2, <2>1 DEF Calls
  <2> HIDE DEF c
  <2> QED
    BY <1>1, <1>2, <2>2, <2>3 DEF CallInv, IdOf
<1> HIDE DEF c
<1>5. call' \in [Thread -> Calls \cup {NoCall}] /\ \A u \in Thread : call'[u] # NoCall => CallInv(call'[u])
  BY <1>3, <1>4, CallsKept
<1>6. TypeInv' /\ MadeInv' /\ DescribedInv' /\ FdsInv' /\ SettledInv'
  BY <1>1, <1>5 DEF Inv, TypeInv, MadeInv, DescribedInv, FdsInv, SettledInv
<1> QED
  BY <1>5, <1>6 DEF Inv

LEMMA UseKeeps ==
  ASSUME Inv, NEW t \in Thread, use(t)
  PROVE  Inv'
<1> DEFINE w == IF call[t].cmd \in Makers \cup OnTarget \cup FromId THEN call[t].used
                ELSE [k \in Kind |-> Uses(GivenFd(call[t], k), k)]
           c == [call[t] EXCEPT !.by = "kernel", !.used = w]
<1>1. call[t].cmd \in Commands /\ UNCHANGED <<made, fds, known, described, settled, evicted>>
      /\ call' = [call EXCEPT ![t] = c]
  BY DEF use
<1>2. call[t] \in Calls /\ CallInv(call[t])
  BY <1>1, CallTyped
<1>3. w \in [Kind -> Objs] /\ (call[t].cmd \in Makers \cup OnTarget \cup FromId => w = call[t].used)
  <2>1. \A fd, k : Uses(fd, k) \in Objs
    BY DEF Uses, Closed, Objs, Inv, TypeInv
  <2> QED
    BY <1>2, <2>1 DEF Calls
<1> HIDE DEF w
<1>4. c \in Calls /\ CallInv(c)
  BY <1>1, <1>2, <1>3 DEF Calls, CallInv, IdOf
<1> HIDE DEF c
<1>5. call' \in [Thread -> Calls \cup {NoCall}] /\ \A u \in Thread : call'[u] # NoCall => CallInv(call'[u])
  BY <1>1, <1>4, CallsKept
<1>6. TypeInv' /\ MadeInv' /\ DescribedInv' /\ FdsInv' /\ SettledInv'
  BY <1>1, <1>5 DEF Inv, TypeInv, MadeInv, DescribedInv, FdsInv, SettledInv
<1> QED
  BY <1>5, <1>6 DEF Inv

(* The kernel makes a descriptor.                                          *)
LEMMA SecurityKeeps ==
  ASSUME Inv, NEW t \in Thread, NEW k \in Kind, NEW fd \in Fd \cup {NoFd}, NEW id \in 1 .. MaxId[k],
         security_bpf(t, k, id, fd)
  PROVE  Inv'
<1> DEFINE o == [kind |-> k, id |-> id]
           c == [call[t] EXCEPT !.by = "kernel", !.ret = fd,
                   !.map_id = IF k = "map" THEN id ELSE call[t].map_id,
                   !.prog_id = IF k = "prog" THEN id ELSE call[t].prog_id,
                   !.used = [call[t].used EXCEPT ![k] = o]]
<1>1. /\ call[t].cmd \in Makers /\ call[t].by = "entry" /\ Target(call[t].cmd, k) /\ id \in Objects(t, k)
      /\ made' = IF id \in DOMAIN made[k] THEN made ELSE [made EXCEPT ![k] = With(made[k], id, call[t].met)]
      /\ described' = [described EXCEPT ![k] = With(described[k], id, call[t].helpers)]
      /\ fds' = IF fd = NoFd THEN fds ELSE [fds EXCEPT ![fd] = o]
      /\ call' = [call EXCEPT ![t] = c]
      /\ settled' = settled \ {fd} /\ UNCHANGED known /\ UNCHANGED evicted
  BY DEF security_bpf, describe
<1>2. call[t] \in Calls /\ CallInv(call[t])
  BY <1>1, CallTyped DEF Commands
<1>3. id \in Ids
  BY BpfObjectsAssumption DEF Kind, Ids
<1>4. o \in Objs
  BY <1>3 DEF Objs, Ids
<1>5. c \in Calls
  BY <1>2, <1>3, <1>4 DEF Calls, Ids
<1>6. CallInv(c)
  <2>1. /\ c.cmd = call[t].cmd /\ c.helpers = call[t].helpers /\ c.met = call[t].met
        /\ c.map_fd = call[t].map_fd /\ c.prog_fd = call[t].prog_fd
        /\ c.used = [call[t].used EXCEPT ![k] = o] /\ IdOf(c, k) = id
        /\ \A j \in Kind \ {k} : IdOf(c, j) = IdOf(call[t], j)
    BY <1>2 DEF Calls, IdOf, Kind
  <2>2. c.used[k] = o /\ \A j \in Kind \ {k} : c.used[j] = call[t].used[j]
    BY <2>1, <1>2 DEF Calls
  <2> HIDE DEF c
  <2>3. call[t].cmd \notin OnTarget \cup FromId
    BY <1>1 DEF Makers, OnTarget, FromId
  <2> QED
    BY <2>1, <2>2, <2>3, <1>1, <1>2, <1>3 DEF CallInv
<1> HIDE DEF c
<1>7. call' \in [Thread -> Calls \cup {NoCall}] /\ \A u \in Thread : call'[u] # NoCall => CallInv(call'[u])
  BY <1>1, <1>5, <1>6, CallsKept
<1>8. call[t].met \in SUBSET Helpers /\ call[t].helpers \in SUBSET Int /\ call[t].helpers = Bits(call[t].met)
      /\ (call[t].cmd # "PROG_LOAD" => call[t].helpers = {})
  BY <1>2 DEF Calls, CallInv, Bits
<1>9. made[k] \in Table(Ids, SUBSET Helpers) /\ described[k] \in Table(Ids, SUBSET Int)
  BY DEF Inv, TypeInv
<1>10. TypeInv'
  <2>1. made' \in [Kind -> Table(Ids, SUBSET Helpers)]
    <3>1. With(made[k], id, call[t].met) \in Table(Ids, SUBSET Helpers)
      BY <1>3, <1>8, <1>9, Written
    <3> QED
      BY <3>1, <1>1 DEF Inv, TypeInv
  <2>2. described' \in [Kind -> Table(Ids, SUBSET Int)]
    <3>1. With(described[k], id, call[t].helpers) \in Table(Ids, SUBSET Int)
      BY <1>3, <1>8, <1>9, Written
    <3> QED
      BY <3>1, <1>1 DEF Inv, TypeInv
  <2>3. fds' \in [Fd -> Objs]
    BY <1>1, <1>4 DEF Inv, TypeInv
  <2> QED
    BY <2>1, <2>2, <2>3, <1>1, <1>7 DEF Inv, TypeInv
<1>11. PICK n \in Nat : DOMAIN made[k] = 1 .. n
  BY DEF Inv, MadeInv
<1>12. call[t].cmd \in {"MAP_CREATE", "PROG_LOAD"} => id = n + 1
  <2>1. Cardinality(DOMAIN made[k]) = n
    BY <1>11, FS_Interval
  <2> QED
    BY <2>1, <1>1 DEF Objects
<1>13. call[t].cmd \notin {"MAP_CREATE", "PROG_LOAD"} => id \in DOMAIN made[k]
  BY <1>1 DEF Objects
<1>14. (id \in DOMAIN made[k] => made' = made) /\ \A j \in Kind \ {k} : made'[j] = made[j]
  BY <1>1 DEF Inv, TypeInv
<1>15. id \notin DOMAIN made[k] => /\ DOMAIN made'[k] = 1 .. n + 1 /\ made'[k][id] = call[t].met
                                  /\ \A i \in DOMAIN made[k] : made'[k][i] = made[k][i]
  <2> SUFFICES ASSUME id \notin DOMAIN made[k]
               PROVE  /\ DOMAIN made'[k] = 1 .. n + 1 /\ made'[k][id] = call[t].met
                      /\ \A i \in DOMAIN made[k] : made'[k][i] = made[k][i]
    OBVIOUS
  <2>1. made'[k] = With(made[k], id, call[t].met)
    BY <1>1 DEF Inv, TypeInv
  <2>2. /\ DOMAIN made'[k] = DOMAIN made[k] \cup {id} /\ made'[k][id] = call[t].met
        /\ \A i \in DOMAIN made[k] : i # id => made'[k][i] = made[k][i]
    BY <2>1 DEF With
  <2>3. id = n + 1
    BY <1>12, <1>13
  <2>4. (1 .. n) \cup {n + 1} = 1 .. n + 1
    OBVIOUS
  <2> QED
    BY <2>1, <2>2, <2>3, <2>4, <1>11
<1>16. MadeInv'
  <2>1. CASE id \in DOMAIN made[k]
    BY <2>1, <1>14 DEF Inv, MadeInv
  <2>2. CASE id \notin DOMAIN made[k]
    <3>1. ASSUME NEW j \in Kind PROVE \E m \in Nat : DOMAIN made'[j] = 1 .. m
      <4>1. CASE j = k
        <5>1. n + 1 \in Nat
          OBVIOUS
        <5> QED
          BY <4>1, <5>1, <2>2, <1>15
      <4>2. CASE j # k
        <5>1. made'[j] = made[j]
          BY <4>2, <1>14
        <5>2. \E m \in Nat : DOMAIN made[j] = 1 .. m
          BY DEF Inv, MadeInv
        <5> QED
          BY <5>1, <5>2
      <4> QED
        BY <4>1, <4>2
    <3> QED
      BY <3>1 DEF MadeInv
  <2> QED
    BY <2>1, <2>2
<1>17. /\ described'[k] = With(described[k], id, call[t].helpers)
       /\ \A j \in Kind \ {k} : described'[j] = described[j]
  BY <1>1 DEF Inv, TypeInv
<1>18. /\ DOMAIN described'[k] = DOMAIN described[k] \cup {id} /\ described'[k][id] = call[t].helpers
       /\ \A i \in DOMAIN described[k] : i # id => described'[k][i] = described[k][i]
  BY <1>17 DEF With
<1>19. \A j \in Kind : \A i \in DOMAIN made[j] : i \in DOMAIN made'[j] /\ made'[j][i] = made[j][i]
  <2>1. CASE id \in DOMAIN made[k]
    BY <2>1, <1>14
  <2>2. CASE id \notin DOMAIN made[k]
    <3>1. 1 .. n \subseteq 1 .. n + 1
      OBVIOUS
    <3>2. \A i \in DOMAIN made[k] : i \in DOMAIN made'[k] /\ made'[k][i] = made[k][i]
      BY <3>1, <2>2, <1>11, <1>15
    <3> QED
      BY <3>2, <1>14
  <2> QED
    BY <2>1, <2>2
<1>20. id \in DOMAIN made'[k] /\ (call[t].helpers = {} \/ Bits(made'[k][id]) = call[t].helpers)
  <2>1. CASE id \in DOMAIN made[k]
    <3>1. id # n + 1
      BY <2>1, <1>11
    <3>2. call[t].helpers = {}
      BY <3>1, <1>8, <1>12
    <3> QED
      BY <2>1, <3>2, <1>14
  <2>2. CASE id \notin DOMAIN made[k]
    <3>1. id = n + 1 /\ n + 1 \in 1 .. n + 1
      BY <2>2, <1>12, <1>13
    <3> QED
      BY <2>2, <3>1, <1>8, <1>15
  <2> QED
    BY <2>1, <2>2
<1>21. DescribedInv'
  <2>0. "prog" \in Kind
    BY DEF Kind
  <2> SUFFICES ASSUME NEW i \in DOMAIN described'["prog"]
               PROVE  i \in DOMAIN made'["prog"] /\ described'["prog"][i] \in {Undescribed, {}, Bits(made'["prog"][i])}
    BY DEF DescribedInv
  <2>1. CASE k = "prog" /\ i = id
    BY <2>1, <1>18, <1>20
  <2>2. CASE ~ (k = "prog" /\ i = id)
    <3>1. i \in DOMAIN described["prog"] /\ described'["prog"][i] = described["prog"][i]
      BY <2>0, <2>2, <1>17, <1>18
    <3>2. i \in DOMAIN made["prog"] /\ described["prog"][i] \in {Undescribed, {}, Bits(made["prog"][i])}
      BY <3>1 DEF Inv, DescribedInv
    <3> QED
      BY <2>0, <3>1, <3>2, <1>19
  <2> QED
    BY <2>1, <2>2
<1>22. SettledInv'
  <2>1. \A f \in settled' : f \in settled /\ (f \in Fd => fds'[f] = fds[f])
    BY <1>1 DEF Inv, TypeInv
  <2> QED
    BY <2>1, <1>1 DEF Inv, SettledInv
<1>23. FdsInv'
  <2> SUFFICES ASSUME NEW f \in Fd, fds'[f].kind \in Kind
               PROVE  fds'[f].id \in DOMAIN described'[fds'[f].kind]
    BY DEF FdsInv
  <2>1. fds \in [Fd -> Objs]
    BY DEF Inv, TypeInv
  <2>2. CASE fds'[f] = fds[f]
    BY <2>2, <1>17, <1>18 DEF Inv, FdsInv
  <2>3. CASE fds'[f] # fds[f]
    <3>1. fds'[f] = o
      BY <2>1, <2>3, <1>1
    <3> QED
      BY <3>1, <1>18
  <2> QED
    BY <2>2, <2>3
<1> QED
  BY <1>7, <1>10, <1>16, <1>21, <1>22, <1>23 DEF Inv

-----------------------------------------------------------------------------
(* The return probe: a descriptor it settles is one it has just recorded,  *)
(* and one it records over is settled no more.                             *)
LEMMA ReturnKeeps ==
  ASSUME Inv, NEW t \in Thread, sys_bpf_ret(t)
  PROVE  Inv'
<1> DEFINE c == call[t]
<1>1. /\ c.cmd \in Commands
      /\ known' = IF Identified(c) THEN save_obj_fd(c) ELSE known
      /\ settled' = IF c.cmd \notin Makers THEN settled
                    ELSE IF /\ c.ret # NoFd /\ c.cmd # "OBJ_GET"
                            /\ fds[c.ret] \in {c.used[k] : k \in Kind} \ {Closed}
                           THEN settled \cup {c.ret} ELSE settled \ {c.ret}
      /\ call' = [call EXCEPT ![t] = NoCall] /\ UNCHANGED <<made, fds, described, evicted>>
  BY DEF sys_bpf_ret, Returning
<1>2. c \in Calls /\ CallInv(c)
  BY <1>1, CallTyped
<1>3. call' \in [Thread -> Calls \cup {NoCall}] /\ \A u \in Thread : call'[u] # NoCall => CallInv(call'[u])
  BY <1>1, CallsKept
<1> HIDE DEF c
<1>4. known \in [Kind -> Table(Fd, Nat)] /\ fds \in [Fd -> Objs] /\ {"map", "prog"} = Kind
  BY DEF Inv, TypeInv, Kind
<1>5. c.ret \in Fd \cup {NoFd} /\ c.map_id \in Nat /\ c.prog_id \in Nat /\ IdOf(c, "map") = c.map_id
      /\ IdOf(c, "prog") = c.prog_id
  BY <1>2 DEF Calls, IdOf
<1>6. ASSUME NEW k \in Kind, c.ret # NoFd
      PROVE  /\ Learn(k, c.ret, IdOf(c, k)) \in [Kind -> Table(Fd, Nat)]
             /\ c.ret \in DOMAIN Learn(k, c.ret, IdOf(c, k))[k]
             /\ Learn(k, c.ret, IdOf(c, k))[k][c.ret] = IdOf(c, k)
             /\ \A j \in Kind : \A f \in DOMAIN known[j] \ {c.ret} :
                   /\ f \in DOMAIN Learn(k, c.ret, IdOf(c, k))[j]
                   /\ Learn(k, c.ret, IdOf(c, k))[j][f] = known[j][f]
  <2> DEFINE w == With(known[k], c.ret, IdOf(c, k))
  <2>1. known[k] \in Table(Fd, Nat) /\ IdOf(c, k) \in Nat
    BY <1>4, <1>5 DEF IdOf
  <2>2. /\ w \in Table(Fd, Nat) /\ DOMAIN w = DOMAIN known[k] \cup {c.ret}
        /\ w[c.ret] = IdOf(c, k) /\ \A i \in DOMAIN known[k] : i # c.ret => w[i] = known[k][i]
    BY <2>1, <1>5, <1>6, Written DEF With
  <2> HIDE DEF w
  <2>3. Learn(k, c.ret, IdOf(c, k)) = [known EXCEPT ![k] = w]
    BY <1>6 DEF Learn, w
  <2>4. [known EXCEPT ![k] = w] \in [Kind -> Table(Fd, Nat)]
        /\ [known EXCEPT ![k] = w][k] = w /\ \A j \in Kind \ {k} : [known EXCEPT ![k] = w][j] = known[j]
    BY <1>4, <2>2
  <2> QED
    BY <2>2, <2>3, <2>4
<1>7. \/ known' = known
      \/ \E k \in Kind : /\ Target(c.cmd, k) /\ c.cmd \in Makers /\ c.ret # NoFd
                         /\ known' = Learn(k, c.ret, IdOf(c, k))
  <2>1. CASE c.cmd \in {"MAP_CREATE", "MAP_GET_FD_BY_ID"}
    BY <2>1, <1>1, <1>4, <1>5 DEF save_obj_fd, Target, Makers, Learn
  <2>2. CASE c.cmd \in {"PROG_LOAD", "PROG_GET_FD_BY_ID"}
    BY <2>2, <1>1, <1>4, <1>5 DEF save_obj_fd, Target, Makers, Learn
  <2>3. CASE c.cmd \notin {"MAP_CREATE", "MAP_GET_FD_BY_ID", "PROG_LOAD", "PROG_GET_FD_BY_ID"}
    BY <2>3, <1>1 DEF save_obj_fd
  <2> QED
    BY <2>1, <2>2, <2>3
<1>8. known' \in [Kind -> Table(Fd, Nat)]
  <2>1. CASE known' = known
    BY <2>1, <1>4
  <2>2. CASE known' # known
    <3>1. PICK k \in Kind : c.ret # NoFd /\ known' = Learn(k, c.ret, IdOf(c, k))
      BY <2>2, <1>7
    <3> QED
      BY <3>1, <1>6
  <2> QED
    BY <2>1, <2>2
<1>9. \A j \in Kind : \A f \in DOMAIN known[j] : (f # c.ret \/ c.cmd \notin Makers) =>
         f \in DOMAIN known'[j] /\ known'[j][f] = known[j][f]
  <2>1. CASE known' = known
    BY <2>1
  <2>2. CASE known' # known
    <3>1. PICK k \in Kind : c.cmd \in Makers /\ c.ret # NoFd /\ known' = Learn(k, c.ret, IdOf(c, k))
      BY <2>2, <1>7
    <3> QED
      BY <3>1, <1>6
  <2> QED
    BY <2>1, <2>2
<1>10. TypeInv'
  BY <1>1, <1>3, <1>8 DEF Inv, TypeInv
<1>11. SettledInv'
  <2> SUFFICES ASSUME NEW fd \in settled', fd \in Fd, fds[fd].kind \in Kind
               PROVE  fd \in DOMAIN known'[fds[fd].kind] /\ known'[fds[fd].kind][fd] \in {fds[fd].id, Forgotten}
    BY <1>1 DEF SettledInv
  <2>1. CASE c.cmd \notin Makers \/ fd # c.ret
    <3>1. fd \in settled
      BY <2>1, <1>1
    <3>2. fd \in DOMAIN known[fds[fd].kind] /\ known[fds[fd].kind][fd] \in {fds[fd].id, Forgotten}
      BY <3>1 DEF Inv, SettledInv
    <3> QED
      BY <2>1, <3>2, <1>9
  <2>2. CASE c.cmd \in Makers /\ fd = c.ret
    <3>1. /\ c.ret # NoFd /\ c.cmd # "OBJ_GET" /\ fds[c.ret] # Closed
          /\ \E k \in Kind : fds[c.ret] = c.used[k]
      BY <2>2, <1>1
    <3>2. PICK k \in Kind : fds[fd] = c.used[k] /\ c.used[k] # Closed
      BY <2>2, <3>1
    <3>3. Target(c.cmd, k) /\ IdOf(c, k) \in Ids /\ c.used[k] = [kind |-> k, id |-> IdOf(c, k)]
      BY <2>2, <3>2, <1>2 DEF CallInv
    <3>4. fds[fd].kind = k /\ fds[fd].id = IdOf(c, k)
      BY <3>2, <3>3
    <3>5. Identified(c)
      BY <3>3, <1>5, <1>4 DEF Identified, Ids, IdOf
    <3>6. known' = Learn(k, c.ret, IdOf(c, k))
      <4>1. known' = save_obj_fd(c)
        BY <3>5, <1>1
      <4>2. CASE k = "map"
        <5>1. c.cmd \in {"MAP_CREATE", "MAP_GET_FD_BY_ID"}
          BY <4>2, <2>2, <3>1, <3>3 DEF Target, Makers
        <5> QED
          BY <4>1, <4>2, <5>1, <1>5 DEF save_obj_fd
      <4>3. CASE k = "prog"
        <5>1. c.cmd \in {"PROG_LOAD", "PROG_GET_FD_BY_ID"}
          BY <4>3, <2>2, <3>1, <3>3 DEF Target, Makers
        <5>2. c.cmd \notin {"MAP_CREATE", "MAP_GET_FD_BY_ID"}
          BY <5>1
        <5> QED
          BY <4>1, <4>3, <5>1, <5>2, <1>5 DEF save_obj_fd
      <4> QED
        BY <4>2, <4>3, <1>4
    <3> QED
      BY <2>2, <3>1, <3>4, <3>6, <1>6
  <2> QED
    BY <2>1, <2>2
<1>12. MadeInv' /\ DescribedInv' /\ FdsInv'
  BY <1>1 DEF Inv, MadeInv, DescribedInv, FdsInv
<1> QED
  BY <1>3, <1>10, <1>11, <1>12 DEF Inv

LEMMA OthersKeep ==
  ASSUME Inv, NEW fd \in Fd, close(fd) \/ open(fd)
  PROVE  Inv'
<1>1. /\ UNCHANGED <<made, known, described, call, evicted>>
      /\ \/ fds' = [fds EXCEPT ![fd] = Closed] /\ settled' = settled \ {fd}
         \/ fds' = [fds EXCEPT ![fd] = [kind |-> "other", id |-> 0]] /\ settled' = settled
  BY DEF close, open
<1>2. TypeInv'
  <2>1. Closed \in Objs /\ [kind |-> "other", id |-> 0] \in Objs
    BY DEF Closed, Objs
  <2> QED
    BY <2>1, <1>1 DEF Inv, TypeInv
<1>3. SettledInv'
  <2>1. \A f \in settled' : f \in settled /\ (f \in Fd => fds'[f] = fds[f] \/ fds'[f].kind = "other")
    BY <1>1 DEF Inv, TypeInv
  <2>2. "other" \notin Kind
    BY DEF Kind
  <2> QED
    BY <2>1, <2>2, <1>1 DEF Inv, SettledInv
<1>5. FdsInv'
  <2>1. \A f \in Fd : fds'[f] = fds[f] \/ fds'[f].kind \in {"other", "none"}
    BY <1>1 DEF Inv, TypeInv, Closed
  <2>2. {"other", "none"} \cap Kind = {}
    BY DEF Kind
  <2> QED
    BY <2>1, <2>2, <1>1 DEF Inv, FdsInv
<1>4. MadeInv' /\ DescribedInv' /\ \A t \in Thread : call'[t] # NoCall => CallInv(call'[t])
  BY <1>1 DEF Inv, MadeInv, DescribedInv
<1> QED
  BY <1>2, <1>3, <1>4, <1>5 DEF Inv

(* Eviction: a forgotten entry is still an entry, marked.                  *)
LEMMA EvictFdKeeps ==
  ASSUME Inv, NEW k \in Kind, NEW fd \in Fd, evict_fd(k, fd)
  PROVE  Inv'
<1> DEFINE w == With(known[k], fd, Forgotten)
<1>1. /\ known' = [known EXCEPT ![k] = w] /\ UNCHANGED <<made, fds, described, call, settled>>
      /\ fd \in DOMAIN known[k]
  <2>1. fd # NoFd
    BY BpfObjectsAssumption DEF NoFd
  <2> QED
    BY <2>1 DEF evict_fd, Learn
<1>2. known \in [Kind -> Table(Fd, Nat)] /\ Forgotten \in Nat
  BY DEF Inv, TypeInv, Forgotten
<1>3. w \in Table(Fd, Nat)
  BY <1>2, Written
<1>4. DOMAIN w = DOMAIN known[k] /\ w[fd] = Forgotten /\ \A f \in DOMAIN known[k] \ {fd} : w[f] = known[k][f]
  BY <1>1 DEF With
<1> HIDE DEF w
<1>5. known'[k] = w /\ \A j \in Kind \ {k} : known'[j] = known[j]
  BY <1>1, <1>2
<1>6. TypeInv'
  BY <1>1, <1>2, <1>3 DEF Inv, TypeInv
<1>7. SettledInv'
  BY <1>1, <1>4, <1>5 DEF Inv, SettledInv
<1> QED
  BY <1>1, <1>6, <1>7 DEF Inv, MadeInv, DescribedInv, FdsInv

LEMMA EvictObjectKeeps ==
  ASSUME Inv, NEW k \in Kind, NEW id \in 1 .. MaxId[k], evict_object(k, id)
  PROVE  Inv'
<1> DEFINE w == With(described[k], id, Undescribed)
<1>1. /\ described' = [described EXCEPT ![k] = w] /\ UNCHANGED <<made, fds, known, call, settled>>
      /\ id \in DOMAIN described[k]
  BY DEF evict_object, describe
<1>2. described \in [Kind -> Table(Ids, SUBSET Int)] /\ Undescribed \in SUBSET Int /\ id \in Ids
  BY BpfObjectsAssumption DEF Inv, TypeInv, Undescribed, Ids, Kind
<1>3. w \in Table(Ids, SUBSET Int)
  BY <1>2, Written
<1>4. /\ DOMAIN w = DOMAIN described[k] /\ w[id] = Undescribed
      /\ \A i \in DOMAIN described[k] \ {id} : w[i] = described[k][i]
  BY <1>1 DEF With
<1> HIDE DEF w
<1>5. described'[k] = w /\ \A j \in Kind \ {k} : described'[j] = described[j]
  BY <1>1, <1>2
<1>6. TypeInv'
  BY <1>1, <1>2, <1>3 DEF Inv, TypeInv
<1>7. \A j \in Kind : DOMAIN described'[j] = DOMAIN described[j]
  BY <1>4, <1>5
<1>8. FdsInv'
  BY <1>1, <1>7 DEF Inv, FdsInv
<1>9. DescribedInv'
  BY <1>1, <1>4, <1>5 DEF Inv, DescribedInv, Kind
<1> QED
  BY <1>1, <1>6, <1>8, <1>9 DEF Inv, MadeInv, SettledInv

LEMMA InvStart == Init => Inv
<1> SUFFICES ASSUME Init PROVE Inv
  OBVIOUS
<1>1. \A K, V : Empty \in Table(K, V)
  BY DEF Empty, Table
<1>2. Closed \in Objs
  BY DEF Closed, Objs
<1>3. TypeInv
  BY <1>1, <1>2 DEF Init, TypeInv
<1>4. DOMAIN Empty = {}
  BY DEF Empty
<1>5. MadeInv
  <2>1. DOMAIN Empty = 1 .. 0 /\ 0 \in Nat
    BY <1>4
  <2> QED
    BY <2>1 DEF Init, MadeInv
<1>6. DescribedInv
  <2>1. described["prog"] = Empty
    BY DEF Init, Kind
  <2> QED
    BY <2>1, <1>4 DEF DescribedInv
<1>7. SettledInv /\ \A t \in Thread : call[t] = NoCall
  BY DEF Init, SettledInv
<1>8. FdsInv
  BY DEF Init, FdsInv, Closed, Kind
<1> QED
  BY <1>3, <1>5, <1>6, <1>7, <1>8 DEF Inv

LEMMA InvStep == Inv /\ [Next]_vars => Inv'
<1> SUFFICES ASSUME Inv, [Next]_vars PROVE Inv'
  OBVIOUS
<1>1. CASE UNCHANGED vars
  BY <1>1 DEF vars, Inv, TypeInv, MadeInv, DescribedInv, FdsInv, SettledInv
<1>2. ASSUME NEW fd \in Fd, close(fd) \/ open(fd) PROVE Inv'
  BY <1>2, OthersKeep
<1>3. ASSUME NEW t \in Thread, NEW cmd \in Commands, NEW map_fd \in Fd \cup {NoFd},
             NEW prog_fd \in Fd \cup {NoFd}, sys_bpf(t, cmd, map_fd, prog_fd)
      PROVE  Inv'
  BY <1>3, EntryKeeps
<1>4. ASSUME NEW t \in Thread, NEW h \in Helpers, check_helper_call(t, h) PROVE Inv'
  BY <1>4, HelperKeeps
<1>5. ASSUME NEW t \in Thread, NEW k \in Kind, NEW fd \in Fd \cup {NoFd}, NEW id \in 1 .. MaxId[k],
             security_bpf(t, k, id, fd)
      PROVE  Inv'
  BY <1>5, SecurityKeeps
<1>6. ASSUME NEW t \in Thread, use(t) \/ sys_bpf_ret(t) PROVE Inv'
  BY <1>6, UseKeeps, ReturnKeeps
<1>7. ASSUME NEW k \in Kind, NEW fd \in Fd, evict_fd(k, fd) PROVE Inv'
  BY <1>7, EvictFdKeeps
<1>8. ASSUME NEW k \in Kind, NEW id \in 1 .. MaxId[k], evict_object(k, id) PROVE Inv'
  BY <1>8, EvictObjectKeeps
<1> QED
  BY <1>1, <1>2, <1>3, <1>4, <1>5, <1>6, <1>7, <1>8 DEF Next

LEMMA Invariance == Spec => []Inv
  BY InvStart, InvStep, PTL DEF Spec

(* The object named in the event of a call on a descriptor is the one the  *)
(* kernel used, for any threads and descriptors that are closed, opened    *)
(* and made in any order, as long as the descriptor is KRIe's to know, and *)
(* none at all when an LRU map has evicted what was known of it            *)
(* (save_obj_fd, populate_map_id_and_prog_id, send_bpf_event).             *)
THEOREM ObjectAlwaysNamed == Spec => []ObjectNamed
<1>1. Inv => ObjectNamed
  <2> SUFFICES ASSUME Inv, NEW t \in Thread, Returning(t), NEW k \in Kind,
                      call[t].used[k] # Closed, Uses(GivenFd(call[t], k), k) = call[t].used[k]
               PROVE  LET fd == GivenFd(call[t], k)
                          id == call[t].used[k].id
                          ids == populate_map_id_and_prog_id(call[t])
                      IN  /\ fd \in DOMAIN known[k] /\ id \in DOMAIN described[k]
                          /\ call[t].cmd \notin Makers =>
                                IdShown(k, IF k = "map" THEN ids.map ELSE ids.prog)
                                  = IF Evicted(k, fd, id) THEN 0 ELSE id
    BY DEF ObjectNamed, NamedAs, Learnt, send_bpf_event, Kind
  <2> DEFINE fd == GivenFd(call[t], k)
             id == call[t].used[k].id
             ids == populate_map_id_and_prog_id(call[t])
             seen == IF k = "map" THEN ids.map ELSE ids.prog
  <2>1. call[t] \in Calls /\ CallInv(call[t])
    BY CallTyped DEF Returning
  <2>2. fd \in Fd /\ fds[fd].kind = k /\ fd \in settled /\ fds[fd] = call[t].used[k]
    BY DEF Uses
  <2>3. fd \in DOMAIN known[k] /\ known[k][fd] \in {id, Forgotten}
    BY <2>2 DEF Inv, SettledInv
  <2>4. id \in DOMAIN described[k] /\ 0 \notin DOMAIN described[k] /\ 0 # id
    <3>1. id \in DOMAIN described[k]
      BY <2>2 DEF Inv, FdsInv
    <3>2. DOMAIN described[k] \subseteq Ids
      BY DEF Inv, TypeInv, Table
    <3> QED
      BY <3>1, <3>2 DEF Ids
  <2>5. fetch_id(k, fd) = known[k][fd]
    BY <2>3 DEF fetch_id
  <2>6. fd # NoFd
    BY <2>2, BpfObjectsAssumption DEF NoFd
  <2>7. IF k = "map" THEN call[t].cmd \in OnMap /\ fd = call[t].map_fd
        ELSE call[t].cmd \in OnProg /\ fd = call[t].prog_fd
    BY <2>1, <2>6 DEF CallInv, GivenFd, Calls
  <2>8. seen = fetch_id(k, fd)
    BY <2>7 DEF populate_map_id_and_prog_id, Kind
  <2> HIDE DEF fd, id, seen
  <2>9. IdShown(k, seen) = IF Evicted(k, fd, id) THEN 0 ELSE id
    <3>1. CASE fetch_id(k, fd) = Forgotten
      <4>1. seen = 0
        BY <3>1, <2>8 DEF Forgotten
      <4> QED
        BY <3>1, <4>1 DEF IdShown, Evicted
    <3>2. CASE fetch_id(k, fd) # Forgotten
      <4>1. seen = id
        BY <3>2, <2>3, <2>5, <2>8
      <4> QED
        BY <3>2, <4>1 DEF IdShown, Evicted
    <3> QED
      BY <3>1, <3>2
  <2> QED
    BY <2>3, <2>4, <2>9 DEF fd, id, seen
<1> QED
  BY <1>1, Invariance, PTL

(* The helpers shown for a program are those its verifier met, or none,    *)
(* never those of another program, whichever loads run at the same time,   *)
(* for helpers below 192; a helper from 192 on is shown as one between 128 *)
(* and 191 (kprobe_check_helper_call, kprobe_security_bpf_prog).           *)
THEOREM HelpersAlwaysTrue == Spec => []HelpersTrue
<1>1. Inv => HelpersTrue
  <2> SUFFICES ASSUME Inv, NEW t \in Thread,
                      NEW id, id = populate_map_id_and_prog_id(call[t]).prog,
                      IdShown("prog", id) # 0, Described("prog", id) # {}
               PROVE  LET met == made["prog"][IdShown("prog", id)]
                          shown == Described("prog", id)
                      IN  /\ shown \cap 0 .. 127 = met \cap 0 .. 127
                          /\ met \cap 128 .. 191 \subseteq shown
                          /\ \A b \in shown \ met : b \in 128 .. 191 /\ \E h \in met : h >= 192
    BY DEF HelpersTrue, send_bpf_event
  <2>1. IdShown("prog", id) = id /\ Described("prog", id) # Undescribed
    BY DEF IdShown
  <2>2. id \in DOMAIN described["prog"] /\ Described("prog", id) = described["prog"][id]
    BY <2>1 DEF Described
  <2>3. id \in DOMAIN made["prog"] /\ Described("prog", id) = Bits(made["prog"][id])
    BY <2>1, <2>2 DEF Inv, DescribedInv
  <2>4. made["prog"][id] \in SUBSET Nat
    <3>1. made["prog"] \in Table(Ids, SUBSET Helpers)
      BY DEF Inv, TypeInv, Kind
    <3>2. PICK S : made["prog"] \in [S -> SUBSET Helpers]
      BY <3>1 DEF Table
    <3> QED
      BY <2>3, <3>2, BpfObjectsAssumption
  <2> QED
    BY <2>1, <2>3, <2>4, BitsOf
<1> QED
  BY <1>1, Invariance, PTL
=============================================================================
