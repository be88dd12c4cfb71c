----------------------------- MODULE BpfObjects -----------------------------
(***************************************************************************)
(* How KRIe names the maps and programs of a bpf() call                    *)
(* (ebpf/krie/hooks/bpf.h): hooks on security_bpf_map and                  *)
(* security_bpf_prog describe an object when the kernel makes a descriptor *)
(* for it, the return probe remembers the object of the new descriptor,    *)
(* and later calls on a descriptor are looked up. Nothing tells KRIe when  *)
(* a descriptor is closed, duplicated, or made by BPF_OBJ_GET.             *)
(*                                                                         *)
(* One process; its threads share the descriptors. Maps and programs have  *)
(* separate ids; descriptor NoFd stands for an error as a return value.    *)
(* KRIe's four maps are LRU maps that all processes of the host fill: an   *)
(* entry may be evicted at any time. It then stays in the model as a mark, *)
(* which every lookup treats as an absent entry.                           *)
(***************************************************************************)
EXTENDS Integers, FiniteSets

CONSTANTS
  Thread, Fd,
  MaxId,       \* bound, per kind: objects ever made
  MaxEvicted,  \* bound: evictions from KRIe's maps
  Helpers      \* numbers of the helper functions a program may call

ASSUME BpfObjectsAssumption ==
  /\ Fd \subseteq Nat \ {0} /\ MaxId \in [{"map", "prog"} -> Nat] /\ MaxEvicted \in Nat
  /\ Helpers \subseteq Nat

VARIABLES
  made,      \* per kind, the helpers of every object made so far
  fds,       \* the process's descriptors: kind and id of their object
  known,     \* per kind, tgid_fd_map_id and tgid_fd_prog_id: an id per descriptor
  described, \* per kind, bpf_maps and bpf_progs: the helpers recorded for an id
  call,      \* the bpf() call of each thread, with its entry in the syscall cache
  settled,   \* history: descriptors whose object KRIe was shown
  evicted    \* how many entries were evicted so far

vars == <<made, fds, known, described, call, settled, evicted>>

Kind == {"map", "prog"}
NoFd == -1
Closed == [kind |-> "none", id |-> 0]
NoCall == [cmd |-> "none"]
Undescribed == {-1}     \* mark of a description that was evicted
Forgotten == 0          \* mark of a descriptor that was evicted: no object has this id

(* An entry of a hash map is written.                                      *)
With(f, x, v) == [i \in DOMAIN f \cup {x} |-> IF i = x THEN v ELSE f[i]]

(* Commands by what they do with descriptors: those that make one, and     *)
(* those that are looked up by a descriptor they are given, or by an id.   *)
(* MAP_UPDATE_ELEM stands for the map commands, batches included;          *)
(* LINK_CREATE for PROG_ATTACH, PROG_TEST_RUN, RAW_TRACEPOINT_OPEN and     *)
(* LINK_UPDATE (by the program it replaces); PROG_BIND_MAP for OBJ_PIN and *)
(* OBJ_GET_INFO_BY_FD, which name one descriptor for both kinds.           *)
(* PROG_DETACH stands for PROG_QUERY and TASK_FD_QUERY, which are looked   *)
(* up as programs by the descriptor of their target, not of a program. The *)
(* start_id of the last two is the word that holds map_fd in others.       *)
Makers == {"MAP_CREATE", "PROG_LOAD", "MAP_GET_FD_BY_ID", "PROG_GET_FD_BY_ID", "OBJ_GET"}
OnBoth == {"PROG_BIND_MAP"}
OnMap == {"MAP_UPDATE_ELEM"} \cup OnBoth
OnTarget == {"PROG_DETACH"}
OnProg == {"LINK_CREATE"} \cup OnTarget \cup OnBoth
FromId == {"MAP_GET_NEXT_ID", "PROG_GET_NEXT_ID"}
Commands == Makers \cup OnMap \cup OnProg \cup FromId

-----------------------------------------------------------------------------
(* Entry: a fresh cache entry; the arguments stay in user space and are    *)
(* read at the return.                                                     *)
sys_bpf(t, cmd, map_fd, prog_fd) ==
  /\ call[t] = NoCall
  /\ (map_fd = NoFd) = (cmd \notin OnMap \cup FromId)
  /\ (prog_fd = NoFd) = (cmd \notin OnProg)
  /\ call' = [call EXCEPT ![t] = [cmd |-> cmd, map_fd |-> map_fd, prog_fd |-> prog_fd,
                                  map_id |-> 0, prog_id |-> 0, helpers |-> {}, met |-> {},
                                  ret |-> NoFd, used |-> [k \in Kind |-> Closed], by |-> "entry"]]
  /\ UNCHANGED <<made, fds, known, described, settled, evicted>>

(* The verifier meets a helper call ("met" is what it met, for the         *)
(* properties); its number becomes a bit of the entry's three words, and   *)
(* a shift by 64 or more wraps within the last one.                        *)
Bit(h) == IF h >= 128 THEN 128 + ((h - 128) % 64) ELSE h
RecordForAll(t, h) ==      \* mutant: the entry is that of the process, not of the thread
  [u \in Thread |-> IF call[u] = NoCall THEN NoCall ELSE [call[u] EXCEPT !.helpers = @ \cup {Bit(h)}]]
Record(t, h) == [call EXCEPT ![t].helpers = @ \cup {Bit(h)}]
check_helper_call(t, h) ==
  /\ call[t].cmd = "PROG_LOAD" /\ call[t].by = "entry"
  /\ call' = [Record(t, h) EXCEPT ![t].met = @ \cup {h}]
  /\ UNCHANGED <<made, fds, known, described, settled, evicted>>

(* The kernel makes a descriptor for a new or an existing object: the      *)
(* security hook describes it, from the entry of this call, and then the   *)
(* descriptor is installed, or there is none left.                         *)
Target(cmd, k) == IF cmd = "MAP_CREATE" THEN k = "map"
                  ELSE IF cmd = "PROG_LOAD" THEN k = "prog"
                  ELSE IF cmd = "MAP_GET_FD_BY_ID" THEN k = "map"
                  ELSE IF cmd = "PROG_GET_FD_BY_ID" THEN k = "prog" ELSE cmd = "OBJ_GET"
Objects(t, k) == IF call[t].cmd \in {"MAP_CREATE", "PROG_LOAD"}
                   THEN {Cardinality(DOMAIN made[k]) + 1} \cap 1 .. MaxId[k] ELSE DOMAIN made[k]
describe(k, id, helpers) ==
  [described EXCEPT ![k] = With(described[k], id, helpers)]
security_bpf(t, k, id, fd) ==
  /\ call[t].cmd \in Makers /\ call[t].by = "entry"
  /\ Target(call[t].cmd, k) /\ id \in Objects(t, k)
  /\ fd # NoFd => fds[fd] = Closed
  /\ made' = IF id \in DOMAIN made[k] THEN made
             ELSE [made EXCEPT ![k] = With(made[k], id, call[t].met)]
  /\ described' = describe(k, id, call[t].helpers)
  /\ fds' = IF fd = NoFd THEN fds ELSE [fds EXCEPT ![fd] = [kind |-> k, id |-> id]]
  /\ call' = [call EXCEPT ![t] = [call[t] EXCEPT
                !.by = "kernel", !.ret = fd,
                !.map_id = IF k = "map" THEN id ELSE call[t].map_id,
                !.prog_id = IF k = "prog" THEN id ELSE call[t].prog_id,
                !.used = [call[t].used EXCEPT ![k] = [kind |-> k, id |-> id]]]]
  /\ settled' = settled \ {fd}
  /\ UNCHANGED <<known, evicted>>

(* The kernel carries out a call on descriptors, or refuses it; no program *)
(* is used through the descriptor of a target.                             *)
GivenFd(c, k) == IF k = "map" THEN c.map_fd ELSE c.prog_fd
Uses(fd, k) == IF fd \in Fd /\ fds[fd].kind = k /\ fd \in settled THEN fds[fd] ELSE Closed
use(t) ==
  /\ call[t].cmd \in Commands /\ call[t].by = "entry"
  /\ call' = [call EXCEPT ![t] = [call[t] EXCEPT
                !.by = "kernel",
                !.used = IF call[t].cmd \in Makers \cup OnTarget \cup FromId THEN call[t].used
                         ELSE [k \in Kind |-> Uses(GivenFd(call[t], k), k)]]]
  /\ UNCHANGED <<made, fds, known, described, settled, evicted>>

-----------------------------------------------------------------------------
(* The return probe.                                                       *)

(* What is remembered under an error is left out: no descriptor that a     *)
(* call is given has such a number.                                        *)
Learn(k, fd, id) == IF fd = NoFd THEN known ELSE [known EXCEPT ![k] = With(known[k], fd, id)]
SaveCreated(c) ==      \* mutant: only new objects are remembered
  CASE c.cmd = "MAP_CREATE" -> Learn("map", c.ret, c.map_id)
    [] c.cmd = "PROG_LOAD" -> Learn("prog", c.ret, c.prog_id)
    [] OTHER -> known
save_obj_fd(c) ==
  CASE c.cmd \in {"MAP_CREATE", "MAP_GET_FD_BY_ID"} -> Learn("map", c.ret, c.map_id)
    [] c.cmd \in {"PROG_LOAD", "PROG_GET_FD_BY_ID"} -> Learn("prog", c.ret, c.prog_id)
    [] OTHER -> known

fetch_id(k, fd) == IF fd \in DOMAIN known[k] THEN known[k][fd] ELSE 0
populate_map_id_and_prog_id(c) ==
  [map |-> IF c.cmd \in OnMap THEN fetch_id("map", c.map_fd)
           ELSE IF c.cmd = "MAP_GET_NEXT_ID" THEN c.map_fd ELSE c.map_id,
   prog |-> IF c.cmd \in OnProg THEN fetch_id("prog", c.prog_fd)
            ELSE IF c.cmd = "PROG_GET_NEXT_ID" THEN c.map_fd ELSE c.prog_id]
Described(k, id) == IF id \in DOMAIN described[k] THEN described[k][id] ELSE Undescribed

(* The event of the call: of each object the description of its id, or     *)
(* zeroes when there is none, whatever the id was.                         *)
IdShown(k, id) == IF Described(k, id) = Undescribed THEN 0 ELSE id
send_bpf_event(c) ==
  LET ids == populate_map_id_and_prog_id(c)
  IN  [map |-> IdShown("map", ids.map), prog |-> IdShown("prog", ids.prog),
       helpers |-> IF IdShown("prog", ids.prog) = 0 THEN {} ELSE Described("prog", ids.prog)]

Identified(c) == c.map_id # 0 \/ c.prog_id # 0
Returning(t) == call[t].cmd \in Commands /\ call[t].by = "kernel"
sys_bpf_ret(t) ==
  LET c == call[t] IN
  /\ Returning(t)
  /\ known' = IF Identified(c) THEN save_obj_fd(c) ELSE known
  /\ settled' = IF c.cmd \notin Makers THEN settled
                ELSE IF /\ c.ret # NoFd /\ c.cmd # "OBJ_GET"
                        /\ fds[c.ret] \in {c.used[k] : k \in Kind} \ {Closed}
                       THEN settled \cup {c.ret} ELSE settled \ {c.ret}
  /\ call' = [call EXCEPT ![t] = NoCall]      \* having sent send_bpf_event(c)
  /\ UNCHANGED <<made, fds, described, evicted>>

(* Other system calls: close, and whatever opens a file.                   *)
close(fd) ==
  /\ fds[fd] # Closed
  /\ fds' = [fds EXCEPT ![fd] = Closed]
  /\ settled' = settled \ {fd}
  /\ UNCHANGED <<made, known, described, call, evicted>>
open(fd) ==
  /\ fds[fd] = Closed
  /\ fds' = [fds EXCEPT ![fd] = [kind |-> "other", id |-> 0]]
  /\ UNCHANGED <<made, known, described, call, settled, evicted>>

(* An entry of one of the four maps makes room for another.                *)
evict_fd(k, fd) ==
  /\ evicted < MaxEvicted /\ fd \in DOMAIN known[k]
  /\ known' = Learn(k, fd, Forgotten)
  /\ evicted' = evicted + 1
  /\ UNCHANGED <<made, fds, described, call, settled>>
evict_object(k, id) ==
  /\ evicted < MaxEvicted /\ id \in DOMAIN described[k]
  /\ described' = describe(k, id, Undescribed)
  /\ evicted' = evicted + 1
  /\ UNCHANGED <<made, fds, known, call, settled>>

Empty == [i \in {} |-> {}]
Init ==
  /\ made = [k \in Kind |-> Empty] /\ described = [k \in Kind |-> Empty]
  /\ known = [k \in Kind |-> Empty]
  /\ fds = [fd \in Fd |-> Closed]
  /\ call = [t \in Thread |-> NoCall]
  /\ settled = {}
  /\ evicted = 0

Next ==
  \/ \E fd \in Fd : close(fd) \/ open(fd)
  \/ \E k \in Kind, fd \in Fd : evict_fd(k, fd)
  \/ \E k \in Kind : \E id \in 1 .. MaxId[k] : evict_object(k, id)
  \/ \E t \in Thread :
        \/ \E cmd \in Commands, map_fd, prog_fd \in Fd \cup {NoFd} : sys_bpf(t, cmd, map_fd, prog_fd)
        \/ \E h \in Helpers : check_helper_call(t, h)
        \/ \E k \in Kind, fd \in Fd \cup {NoFd} : \E id \in 1 .. MaxId[k] : security_bpf(t, k, id, fd)
        \/ use(t) \/ sys_bpf_ret(t)
Spec == Init /\ [][Next]_vars

-----------------------------------------------------------------------------
(* A call on a descriptor is reported with the object the descriptor was   *)
(* of when the kernel used it, although the maps of descriptors are never  *)
(* cleaned: the descriptor was made by a command KRIe follows (not         *)
(* BPF_OBJ_GET), the return of that command was seen before the use, and   *)
(* the descriptor was not given to another object until the return. When   *)
(* an LRU map has evicted what was known of it, the event names nothing.   *)
Evicted(k, fd, id) == fetch_id(k, fd) = Forgotten \/ Described(k, id) = Undescribed
NamedAs(c, k, shown) ==
  (c.used[k] # Closed /\ Uses(GivenFd(c, k), k) = c.used[k]) =>
     shown = IF Evicted(k, GivenFd(c, k), c.used[k].id) THEN 0 ELSE c.used[k].id
Learnt(c, k) ==      \* an entry was there to be evicted
  (c.used[k] # Closed /\ Uses(GivenFd(c, k), k) = c.used[k]) =>
     GivenFd(c, k) \in DOMAIN known[k] /\ c.used[k].id \in DOMAIN described[k]
ObjectNamed ==
  \A t \in Thread : (Returning(t) /\ call[t].cmd \notin Makers) =>
     LET c == call[t]  e == send_bpf_event(c) IN
     /\ NamedAs(c, "map", e.map) /\ NamedAs(c, "prog", e.prog)
     /\ \A k \in Kind : Learnt(c, k)

(* The helpers shown for a program are those the verifier met when it was  *)
(* loaded, or none at all: a later command that makes a descriptor for the *)
(* program describes it again, without helpers. The event of the load      *)
(* itself shows them unless another thread has done so in between. Helpers *)
(* from 192 on do not fit the three words: each is shown as one between    *)
(* 128 and 191, which the program may not call.                            *)
HelpersTrue ==
  \A t \in Thread : Returning(t) =>
     LET e == send_bpf_event(call[t])
         met == made["prog"][e.prog]
     IN  (e.prog # 0 /\ e.helpers # {}) =>
            /\ e.helpers \cap 0 .. 127 = met \cap 0 .. 127
            /\ met \cap 128 .. 191 \subseteq e.helpers
            /\ \A b \in e.helpers \ met : b \in 128 .. 191 /\ \E h \in met : h >= 192
=============================================================================
