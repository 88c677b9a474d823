------------------------------- MODULE SysVShm -------------------------------
(***************************************************************************)
(* Shared memory of PRoot's System V IPC emulation                         *)
(* (extension/sysvipc/sysvipc_shm.c).                                      *)
(*                                                                         *)
(* A segment is a file descriptor of a helper process.  shmat makes the    *)
(* tracee execute a chain of calls it never asked for: socket, connect to  *)
(* the helper, recvmsg of the descriptor, mmap.  The helper cannot tell    *)
(* its clients apart: PRoot tells it to send one descriptor to whoever     *)
(* connected first, and relies on one shmat running at a time.  Meanwhile  *)
(* a mapping of size 0 keeps IPC_RMID from removing the segment.           *)
(*                                                                         *)
(* PRoot's list of mappings follows what the kernel does, a stop earlier   *)
(* or later: an execve and a shmdt drop mappings before the kernel has     *)
(* done anything, an mmap and a clone are heard of when it has.  Between   *)
(* the two the other threads of the process run.                           *)
(*                                                                         *)
(* What a call reports is left out: its status is always "OK" here.        *)
(***************************************************************************)
EXTENDS SysVIpc, FiniteSets

CONSTANTS
  MaxShms,        \* bound: slots (the code has none)
  MaxGeneration,  \* bound: removals of one slot
  MaxAddr,        \* bound: addresses mmap may choose, 1..MaxAddr
  DetachAddrs,    \* what guests pass to shmdt; 0 is the address of a pending mapping
  SigsysModes,    \* how calls arrive: FALSE at the entry stop, TRUE by SIGSYS
  CloneThread,    \* how guests clone: TRUE with CLONE_THREAD, FALSE without
  Careless,       \* "execve", "fork": whether guests do that while a sibling
                  \* thread attaches or detaches
  ExecveFails,    \* whether the kernel may refuse an execve PRoot translated
  Faults,         \* whether a call of the chain may fail
  Mortal          \* tracees that may be killed

VARIABLES
  shms,           \* ipc_namespace->shms
  process,        \* config->process, named after its first thread
  mapped_shms,    \* process->mapped_shms, newest first; shm->mappings are
                  \* those of all processes with that shm_index
  requests,       \* pipe to the helper: descriptors to distribute
  backlog,        \* connections the helper has not accepted
  inbox,          \* the descriptor sent to the tracee's socket
  mem_fd,         \* config->shmat_mem_fd
  regions,        \* kernel: what the process has mapped, by address
  pending,        \* the tracee's call that only the kernel, or only PRoot,
                  \* has done so far, see Calls
  aborted         \* PRoot died on an assertion

shmVars == <<shms, process, mapped_shms, requests, backlog, inbox, mem_fd,
             regions, pending, aborted>>
vars == <<tracees, at, config, sigstop, kick,
          shms, process, mapped_shms, requests, backlog, inbox, mem_fd,
          regions, pending, aborted>>

None == [shm |-> 0, generation |-> 0]   \* no descriptor
Closed == "closed"      \* the client of a connection is gone

(* A descriptor is named after the segment it was opened for.              *)
Fd(i) == [shm |-> i, generation |-> shms[i].generation]
Fds == [shm : 1..MaxShms, generation : 0..MaxGeneration]
Shm == [valid : BOOLEAN, rmid_pending : BOOLEAN, generation : 0..MaxGeneration]

(* What mmap returns when it fails: PRoot takes it for an address.         *)
MmapError == MaxAddr + 1
Mapping == [shm_index : 1..MaxShms, addr : 0..MmapError, size : {0, 1}]
Region == [addr : 1..MaxAddr, asked : Fds, got : Fds]

(* A munmap and an execve are pending in the kernel: PRoot has already     *)
(* freed the mappings.  An mmap and a clone are pending in PRoot: the      *)
(* kernel has mapped the memory, or copied the regions for the child.      *)
NoCall == [call |-> "none"]
Calls == {NoCall} \cup [call : {"execve"}] \cup [call : {"munmap"}, addr : 0..MmapError]
  \cup [call : {"mmap"}, addr : 1..MmapError]
  \cup [call : {"clone"}, child : Tracees, thread : BOOLEAN, regions : SUBSET Region]

ASSUME ShmAssumption ==
  /\ MaxShms \in Nat /\ MaxGeneration \in Nat /\ MaxAddr \in Nat
  /\ DetachAddrs \subseteq 0..MmapError
  /\ SigsysModes \subseteq BOOLEAN /\ CloneThread \subseteq BOOLEAN
  /\ Careless \subseteq {"execve", "fork"}
  /\ ExecveFails \in BOOLEAN /\ Faults \in BOOLEAN
  /\ Mortal \subseteq Tracees /\ Closed \notin Tracees

Valid(i) == i \in 1..Len(shms) /\ shms[i].valid
Chaining(c) == c.chain_state \in {"CSTATE_SHMAT_SOCKET", "CSTATE_SHMAT_CONNECT",
                                  "CSTATE_SHMAT_RECVMSG", "CSTATE_SHMAT_MMAP"}

Threads(t) == {s \in Tracees : at[s] # "none" /\ process[s] = process[t]}
Siblings(t) == {s \in Threads(t) \ {t} : at[s] # "dead"}
Attaches(t) ==
  at[t] \notin {"none", "dead"} /\ (Chaining(config[t]) \/ Asleep(config[t]))

(* t is forking: the child will have the regions of now, and the mappings  *)
(* of when PRoot hears of it.                                              *)
Forks(t) == pending[t].call = "clone" /\ ~pending[t].thread

-----------------------------------------------------------------------------
MapsOf(m, i) == {p \in Tracees : \E k \in 1..Len(m[p]) : m[p][k].shm_index = i}

(* Mutant: frees the segment under the mappings of other processes.        *)
DoRmid_Unchecked(s, m) ==
  [i \in 1..Len(s) |->
     IF s[i].valid /\ s[i].rmid_pending
     THEN [valid |-> FALSE, rmid_pending |-> FALSE, generation |-> s[i].generation + 1]
     ELSE s[i]]

(* sysvipc_do_rmid for every segment whose last mapping went:              *)
(* sysvipc_shm_memmap_destructor when the mappings become m.               *)
DoRmid(s, m) ==
  [i \in 1..Len(s) |->
     IF s[i].valid /\ s[i].rmid_pending /\ MapsOf(m, i) = {}
     THEN [valid |-> FALSE, rmid_pending |-> FALSE, generation |-> s[i].generation + 1]
     ELSE s[i]]

(* Mutant: frees the newest mapping.                                       *)
Unlink_Newest(q, k) == Tail(q)

Unlink(q, k) == SubSeq(q, 1, k - 1) \o SubSeq(q, k + 1, Len(q))
First(S) == CHOOSE k \in S : \A j \in S : k <= j

(* sysvipc_shm_find_pending_mapping: the positions it may find.            *)
PendingMaps(p, i) ==
  {k \in 1..Len(mapped_shms[p]) :
     mapped_shms[p][k].size = 0 /\ mapped_shms[p][k].shm_index = i}

FreeSlots == {i \in 1..Len(shms) : ~shms[i].valid}

(* PRoot waits for the helper's answer to SHMHELPER_ALLOC, and the helper  *)
(* serves the requests before it in order.  A slot is added before the     *)
(* helper is asked, and stays if it refuses (ok = FALSE).                  *)
ShmgetCreate(t, sigsys, ok) ==
  /\ CanCall(t)
  /\ requests = <<>>
  /\ IF FreeSlots # {}
       THEN shms' = [shms EXCEPT ![First(FreeSlots)].valid = ok]
       ELSE /\ Len(shms) < MaxShms
            /\ shms' = Append(shms, [valid |-> ok, rmid_pending |-> FALSE,
                                     generation |-> 0])
  /\ SyscallCommon(t, config[t], "OK", sigsys)
  /\ UNCHANGED <<process, mapped_shms, requests, backlog, inbox, mem_fd,
                 regions, pending, aborted>>

(* Calls that only report: a found key, IPC_STAT, an error.                *)
Query(t, sigsys) ==
  /\ CanCall(t)
  /\ SyscallCommon(t, config[t], "OK", sigsys)
  /\ UNCHANGED shmVars

(* shmat: registers a mapping, then starts the chain or waits.  A chain    *)
(* whose socket() has not returned is not seen.                            *)
HelperBusy ==
  \E k \in 1..Len(tracees) : config[tracees[k]].chain_state \in
    {"CSTATE_SHMAT_CONNECT", "CSTATE_SHMAT_RECVMSG", "CSTATE_SHMAT_MMAP"}

\* bound: one more mapping finds an address
Roomy(p) ==
  /\ Len(mapped_shms[p]) < MaxAddr
  /\ Cardinality(regions[p])
       + Cardinality({k \in 1..Len(mapped_shms[p]) : mapped_shms[p][k].size = 0}) < MaxAddr

Shmat(t, sigsys, i) ==
  /\ CanCall(t)
  /\ Valid(i)
  /\ Roomy(process[t])
  /\ mapped_shms' = [mapped_shms EXCEPT ![process[t]] =
       <<[shm_index |-> i, addr |-> 0, size |-> 0]>> \o @]
  /\ LET c == [config[t] EXCEPT !.waiting_object_index = i]
     IN  SyscallCommon(t, IF HelperBusy
                          THEN [c EXCEPT !.wait_reason = "WR_WAIT_SHMAT_HELPER_BUSY"]
                          ELSE [c EXCEPT !.chain_state = "CSTATE_SHMAT_SOCKET"],
                       "OK", sigsys)
  /\ UNCHANGED <<shms, process, requests, backlog, inbox, mem_fd, regions,
                 pending, aborted>>

(* shmdt of the first mapping with that address, which is freed; the call  *)
(* becomes munmap.                                                         *)
Shmdt(t, sigsys, addr) ==
  LET p == process[t]
      K == {k \in 1..Len(mapped_shms[p]) : mapped_shms[p][k].addr = addr}
  IN  /\ CanCall(t)
      /\ "fork" \in Careless \/ ~\E s \in Siblings(t) : Forks(s)
      /\ K # {}
      /\ mapped_shms' = [mapped_shms EXCEPT ![p] = Unlink(@, First(K))]
      /\ shms' = DoRmid(shms, mapped_shms')
      /\ pending' = [pending EXCEPT ![t] = [call |-> "munmap", addr |-> addr]]
      /\ SyscallCommon(t, [config[t] EXCEPT !.chain_state = "CSTATE_SINGLE"],
                       "OK", sigsys)
      /\ UNCHANGED <<process, requests, backlog, inbox, mem_fd, regions, aborted>>

(* shmctl(IPC_RMID).                                                       *)
ShmctlRmid(t, sigsys, i) ==
  /\ CanCall(t)
  /\ Valid(i)
  /\ shms[i].generation < MaxGeneration
  /\ shms' = DoRmid([shms EXCEPT ![i].rmid_pending = TRUE], mapped_shms)
  /\ SyscallCommon(t, config[t], "OK", sigsys)
  /\ UNCHANGED <<process, mapped_shms, requests, backlog, inbox, mem_fd,
                 regions, pending, aborted>>

-----------------------------------------------------------------------------
(* The wait mechanism's stops.                                             *)
StartPpoll(t) == EnterPpoll(t) /\ UNCHANGED shmVars
EndPpoll(t) == ExitPpoll(t) /\ UNCHANGED shmVars
Swallow(t) == SigstopStop(t) /\ UNCHANGED shmVars
EndStatus(t) ==
  /\ ExitStatus(t)
  /\ ~Chaining(config[t])
  /\ UNCHANGED shmVars

(* munmap unmaps.                                                          *)
KernelMunmap(t) ==
  /\ at[t] = "kernel"
  /\ pending[t].call = "munmap"
  /\ regions' = [regions EXCEPT ![process[t]] = {r \in @ : r.addr # pending[t].addr}]
  /\ pending' = [pending EXCEPT ![t] = NoCall]
  /\ UNCHANGED ipcVars
  /\ UNCHANGED <<shms, process, mapped_shms, requests, backlog, inbox, mem_fd, aborted>>

(* munmap, or the calls that close a chain, have returned.                 *)
EndVoid(t) ==
  /\ ExitVoid(t)
  /\ ~Chaining(config[t])
  /\ pending[t] = NoCall
  /\ UNCHANGED shmVars

(* A rewound tracee issues the call that stands for its shmat or shmdt:    *)
(* sysvipc_syscall_common does not know it.                                *)
StartReplaced(t) ==
  /\ at[t] = "rewound"
  /\ config[t].wait_state = "WSTATE_NOT_WAITING"
  /\ at' = [at EXCEPT ![t] = "kernel"]
  /\ UNCHANGED <<tracees, config, sigstop, kick>> /\ UNCHANGED shmVars

(* SYSCALL_CHAINED_ENTER: the ppoll of a waiter that was woken before it   *)
(* got there is made to fail.                                              *)
ChainedEnter(t) ==
  /\ at[t] = "rewound"
  /\ config[t].wait_state = "WSTATE_RESTARTED_INTO_PPOLL_CANCELED"
  /\ config' = [config EXCEPT ![t].wait_state = "WSTATE_SIGNALED_PPOLL"]
  /\ at' = [at EXCEPT ![t] = "kernel"]
  /\ UNCHANGED <<tracees, sigstop, kick>> /\ UNCHANGED shmVars

(* SYSCALL_CHAINED_EXIT of that ppoll: next comes socket().                *)
ChainedExit(t) ==
  /\ at[t] = "kernel"
  /\ config[t].wait_state = "WSTATE_SIGNALED_PPOLL"
  /\ Chaining(config[t])
  /\ config' = [config EXCEPT ![t].wait_state = "WSTATE_NOT_WAITING"]
  /\ UNCHANGED <<tracees, at, sigstop, kick>> /\ UNCHANGED shmVars

-----------------------------------------------------------------------------
(* The chain, sysvipc_shmat_chain.  t is inside the call of its state.     *)
InChain(t, state) ==
  /\ at[t] = "kernel"
  /\ config[t].chain_state = state
  /\ config[t].wait_state = "WSTATE_NOT_WAITING"

Advance(t, state) ==
  /\ config' = [config EXCEPT ![t].chain_state = state]
  /\ UNCHANGED <<tracees, at, sigstop, kick>>

Waiters == {k \in 1..Len(tracees) :
              config[tracees[k]].wait_reason = "WR_WAIT_SHMAT_HELPER_BUSY"}

(* Mutant: the end of a chain wakes nobody.                                *)
ChainDone_Silent(t) ==
  /\ config' = [config EXCEPT ![t].chain_state = "CSTATE_NOT_CHAINED"]
  /\ UNCHANGED <<tracees, at, sigstop, kick>>

(* The chain of t ends, and sysvipc_shm_wake_pending_shmat starts that of  *)
(* the first waiter.                                                       *)
ChainDone(t) ==
  LET w == tracees[First(Waiters)]
      kicked == config[w].wait_state = "WSTATE_ENTERED_PPOLL"
  IN  /\ UNCHANGED <<tracees, at>>
      /\ IF Waiters = {}
           THEN /\ config' = [config EXCEPT ![t].chain_state = "CSTATE_NOT_CHAINED"]
                /\ UNCHANGED <<sigstop, kick>>
           ELSE /\ config' = [config EXCEPT
                     ![t].chain_state = "CSTATE_NOT_CHAINED",
                     ![w] = [WakeConfig(@, "OK") EXCEPT
                               !.chain_state = "CSTATE_SHMAT_SOCKET"]]
                /\ kick' = [kick EXCEPT ![w] = @ \/ (kicked /\ at[w] # "dead")]
                /\ sigstop' = [sigstop EXCEPT
                     ![w] = IF kicked THEN "SIGSTOP_IGNORED" ELSE @]

ExitSocket(t) ==
  /\ InChain(t, "CSTATE_SHMAT_SOCKET")
  /\ Advance(t, "CSTATE_SHMAT_CONNECT")
  /\ UNCHANGED shmVars

Connected(t) == \/ \E k \in 1..Len(backlog) : backlog[k] = t
                \/ inbox[t] # None

(* The kernel queues the connection (listen() allows one more than its     *)
(* backlog of 1); PRoot learns of it at the exit stop, in whatever order   *)
(* the stops of the tracees arrive.                                        *)
KernelConnect(t) ==
  /\ InChain(t, "CSTATE_SHMAT_CONNECT")
  /\ ~Connected(t)
  /\ Len(backlog) <= 1
  /\ backlog' = Append(backlog, t)
  /\ UNCHANGED ipcVars
  /\ UNCHANGED <<shms, process, mapped_shms, requests, inbox, mem_fd, regions,
                 pending, aborted>>

(* Mutant: the helper is told before the tracee has connected.             *)
ExitConnect_Early(t) ==
  /\ InChain(t, "CSTATE_SHMAT_CONNECT")
  /\ requests' = Append(requests, Fd(config[t].waiting_object_index))
  /\ Advance(t, "CSTATE_SHMAT_RECVMSG")
  /\ UNCHANGED <<shms, process, mapped_shms, backlog, inbox, mem_fd, regions,
                 pending, aborted>>

(* connect() has returned: SHMHELPER_DISTRIBUTE, then recvmsg.             *)
ExitConnect(t) ==
  /\ InChain(t, "CSTATE_SHMAT_CONNECT")
  /\ Connected(t)
  /\ requests' = Append(requests, Fd(config[t].waiting_object_index))
  /\ Advance(t, "CSTATE_SHMAT_RECVMSG")
  /\ UNCHANGED <<shms, process, mapped_shms, backlog, inbox, mem_fd, regions,
                 pending, aborted>>

(* The helper accepts the oldest connection and sends it the descriptor,   *)
(* in vain if the client is gone.                                          *)
HelperDistribute ==
  /\ requests # <<>> /\ backlog # <<>>
  /\ requests' = Tail(requests)
  /\ backlog' = Tail(backlog)
  /\ inbox' = IF Head(backlog) = Closed THEN inbox
              ELSE [inbox EXCEPT ![Head(backlog)] = Head(requests)]
  /\ UNCHANGED ipcVars
  /\ UNCHANGED <<shms, process, mapped_shms, mem_fd, regions, pending, aborted>>

(* recvmsg has returned the helper's message.                              *)
ExitRecvmsg(t) ==
  /\ InChain(t, "CSTATE_SHMAT_RECVMSG")
  /\ inbox[t] # None
  /\ mem_fd' = [mem_fd EXCEPT ![t] = inbox[t]]
  /\ inbox' = [inbox EXCEPT ![t] = None]
  /\ Advance(t, "CSTATE_SHMAT_MMAP")
  /\ UNCHANGED <<shms, process, mapped_shms, requests, backlog, regions,
                 pending, aborted>>

(* mmap maps the memory at a free address, or fails.                       *)
FreeAddr(p) == First({a \in 1..MmapError : \A r \in regions[p] : r.addr # a})

KernelMmap(t) ==
  LET p == process[t]
      i == config[t].waiting_object_index
  IN  /\ InChain(t, "CSTATE_SHMAT_MMAP")
      /\ pending[t] = NoCall
      /\ \/ /\ FreeAddr(p) <= MaxAddr
            /\ pending' = [pending EXCEPT ![t] = [call |-> "mmap", addr |-> FreeAddr(p)]]
            /\ regions' = [regions EXCEPT ![p] = @ \cup
                 {[addr |-> FreeAddr(p), asked |-> Fd(i), got |-> mem_fd[t]]}]
         \/ /\ Faults
            /\ pending' = [pending EXCEPT ![t] = [call |-> "mmap", addr |-> MmapError]]
            /\ UNCHANGED regions
      /\ UNCHANGED ipcVars
      /\ UNCHANGED <<shms, process, mapped_shms, requests, backlog, inbox, mem_fd, aborted>>

(* mmap has returned: the result goes, unchecked, into the pending mapping.*)
ExitMmap(t) ==
  LET p == process[t]
      K == PendingMaps(p, config[t].waiting_object_index)
  IN  /\ InChain(t, "CSTATE_SHMAT_MMAP")
      /\ pending[t].call = "mmap"
      /\ K # {}
      /\ mapped_shms' = [mapped_shms EXCEPT ![p][First(K)].addr = pending[t].addr,
                                            ![p][First(K)].size = 1]
      /\ mem_fd' = [mem_fd EXCEPT ![t] = None]
      /\ pending' = [pending EXCEPT ![t] = NoCall]
      /\ ChainDone(t)
      /\ UNCHANGED <<shms, process, requests, backlog, inbox, regions, aborted>>

(* The sockets of the tracees D are closed.                                *)
Hangup(D) == [k \in 1..Len(backlog) |-> IF backlog[k] \in D THEN Closed ELSE backlog[k]]

(* A call of the chain failed: the socket is closed, the pending mapping   *)
(* freed, the shmat reports ENOMEM.                                        *)
ChainFails(t) ==
  LET p == process[t]
      K == PendingMaps(p, config[t].waiting_object_index)
  IN  /\ Faults
      /\ \/ InChain(t, "CSTATE_SHMAT_SOCKET")
         \/ InChain(t, "CSTATE_SHMAT_CONNECT")
         \/ InChain(t, "CSTATE_SHMAT_RECVMSG") /\ inbox[t] # None
      /\ K # {}
      /\ mapped_shms' = [mapped_shms EXCEPT ![p] = Unlink(@, First(K))]
      /\ shms' = DoRmid(shms, mapped_shms')
      /\ backlog' = Hangup({t})
      /\ inbox' = [inbox EXCEPT ![t] = None]
      /\ ChainDone(t)
      /\ UNCHANGED <<process, requests, mem_fd, regions, pending, aborted>>

(* assert(!"No pending mapping found"), or assert(shm->valid).             *)
ChainAborts(t) ==
  /\ at[t] = "kernel" /\ Chaining(config[t])
  /\ config[t].wait_state = "WSTATE_NOT_WAITING"
  /\ \/ ~Valid(config[t].waiting_object_index)
     \/ /\ pending[t].call = "mmap" \/ Faults
        /\ PendingMaps(process[t], config[t].waiting_object_index) = {}
  /\ aborted' = TRUE
  /\ UNCHANGED ipcVars
  /\ UNCHANGED <<shms, process, mapped_shms, requests, backlog, inbox, mem_fd,
                 regions, pending>>

-----------------------------------------------------------------------------
(* The kernel clones: a thread shares the process, else the child has a    *)
(* copy of the regions.                                                    *)
KernelClone(parent, child, thread) ==
  /\ CanCall(parent)
  /\ at[child] = "none" /\ ~\E s \in Tracees : at[s] # "none" /\ process[s] = child
  /\ \A s \in Tracees : pending[s].call = "clone" => pending[s].child # child
  /\ thread \/ "fork" \in Careless
       \/ ~\E s \in Siblings(parent) : pending[s].call \in {"mmap", "munmap", "execve"}
  /\ at' = [at EXCEPT ![parent] = "kernel"]
  /\ pending' = [pending EXCEPT ![parent] =
       [call |-> "clone", child |-> child, thread |-> thread,
        regions |-> IF thread THEN {} ELSE regions[process[parent]]]]
  /\ UNCHANGED <<tracees, config, sigstop, kick>>
  /\ UNCHANGED <<shms, process, mapped_shms, requests, backlog, inbox, mem_fd,
                 regions, aborted>>

(* PRoot hears of the child.                                               *)
Inherit(parent, child) ==
  /\ at[parent] = "kernel"
  /\ pending[parent].call = "clone" /\ pending[parent].child = child
  /\ tracees' = Listed(child)
  /\ at' = [at EXCEPT ![parent] = "user", ![child] = "user"]
  /\ config' = [config EXCEPT ![child] = ZeroConfig]
  /\ sigstop' = [sigstop EXCEPT ![child] = "SIGSTOP_ALLOWED"]
  /\ kick' = [kick EXCEPT ![child] = FALSE]
  /\ pending' = [pending EXCEPT ![parent] = NoCall]
  /\ process' = [process EXCEPT ![child] =
                   IF pending[parent].thread THEN process[parent] ELSE child]

(* Mutant: the child's process starts without mappings.                    *)
NewChild_Unmapped(parent, child) ==
  /\ Inherit(parent, child)
  /\ regions' = IF pending[parent].thread THEN regions
                ELSE [regions EXCEPT ![child] = pending[parent].regions]
  /\ UNCHANGED <<shms, mapped_shms, requests, backlog, inbox, mem_fd, aborted>>

(* INHERIT_CHILD: the process of a child that is not a thread copies every *)
(* mapping there is now (sysvipc_shm_inherit_process).                     *)
NewChild(parent, child) ==
  /\ Inherit(parent, child)
  /\ IF pending[parent].thread THEN UNCHANGED <<mapped_shms, regions>>
     ELSE /\ mapped_shms' = [mapped_shms EXCEPT ![child] = mapped_shms[process[parent]]]
          /\ regions' = [regions EXCEPT ![child] = pending[parent].regions]
  /\ UNCHANGED <<shms, requests, backlog, inbox, mem_fd, aborted>>

(* execve, by the first thread: SYSCALL_ENTER_END frees every mapping of   *)
(* the process, whose threads still run.                                   *)
ExecveEnter(t) ==
  /\ CanCall(t)
  /\ process[t] = t
  /\ "execve" \in Careless \/ ~\E s \in Siblings(t) : Attaches(s) \/ Forks(s)
  /\ mapped_shms' = [mapped_shms EXCEPT ![t] = <<>>]
  /\ shms' = DoRmid(shms, mapped_shms')
  /\ at' = [at EXCEPT ![t] = "kernel"]
  /\ pending' = [pending EXCEPT ![t] = [call |-> "execve"]]
  /\ UNCHANGED <<tracees, config, sigstop, kick>>
  /\ UNCHANGED <<process, requests, backlog, inbox, mem_fd, regions, aborted>>

(* The kernel ends the tracees D and unmaps the memory of their process;   *)
(* t, if it is not among them, goes on.  A child PRoot has not heard of is *)
(* left out: it ends with its parent.                                      *)
Ends(D, t) ==
  /\ at' = [s \in Tracees |-> IF s \in D THEN "dead" ELSE IF s = t THEN "user" ELSE at[s]]
  /\ kick' = [s \in Tracees |-> kick[s] /\ s \notin D]
  /\ backlog' = Hangup(D)
  /\ inbox' = [s \in Tracees |-> IF s \in D THEN None ELSE inbox[s]]
  /\ pending' = [s \in Tracees |-> IF s \in D \cup {t} THEN NoCall ELSE pending[s]]
  /\ regions' = [regions EXCEPT ![process[t]] = {}]
  /\ UNCHANGED <<tracees, config, sigstop>>
  /\ UNCHANGED <<shms, process, mapped_shms, requests, mem_fd, aborted>>

(* The kernel ends the other threads and replaces the program.             *)
ExecveDone(t) ==
  /\ at[t] = "kernel" /\ pending[t].call = "execve"
  /\ Ends(Siblings(t), t)

(* The kernel refuses: the process goes on with its memory.                *)
ExecveRefused(t) ==
  /\ ExecveFails
  /\ at[t] = "kernel" /\ pending[t].call = "execve"
  /\ at' = [at EXCEPT ![t] = "user"]
  /\ pending' = [pending EXCEPT ![t] = NoCall]
  /\ UNCHANGED <<tracees, config, sigstop, kick>>
  /\ UNCHANGED <<shms, process, mapped_shms, requests, backlog, inbox, mem_fd,
                 regions, aborted>>

(* SIGKILL, or an exit_group: the end of all threads.                      *)
Kill(t) ==
  /\ t \in Mortal
  /\ at[t] \in {"user", "rewound", "kernel"}
  /\ Ends({t} \cup Siblings(t), t)

(* A thread ends that is not the last one.                                 *)
Exit(t) ==
  /\ t \in Mortal
  /\ CanCall(t)
  /\ Siblings(t) # {}
  /\ at' = [at EXCEPT ![t] = "dead"]
  /\ UNCHANGED <<tracees, config, sigstop, kick>> /\ UNCHANGED shmVars

(* The config goes, and with the last thread's the process and its         *)
(* mappings.                                                               *)
ReapTracee(t) ==
  /\ Reap(t)
  /\ IF Threads(t) = {t}
       THEN /\ mapped_shms' = [mapped_shms EXCEPT ![process[t]] = <<>>]
            /\ shms' = DoRmid(shms, mapped_shms')
       ELSE UNCHANGED <<mapped_shms, shms>>
  /\ process' = [process EXCEPT ![t] = t]
  /\ mem_fd' = [mem_fd EXCEPT ![t] = None]
  /\ UNCHANGED <<requests, backlog, inbox, regions, pending, aborted>>

(* The event loop ended with its last tracee, or PRoot aborted.            *)
Terminated == (tracees = <<>> \/ aborted) /\ UNCHANGED vars

Init ==
  /\ IpcInit
  /\ shms = <<>>
  /\ process = [t \in Tracees |-> t]
  /\ mapped_shms = [t \in Tracees |-> <<>>]
  /\ requests = <<>> /\ backlog = <<>>
  /\ inbox = [t \in Tracees |-> None]
  /\ mem_fd = [t \in Tracees |-> None]
  /\ regions = [t \in Tracees |-> {}]
  /\ pending = [t \in Tracees |-> NoCall]
  /\ aborted = FALSE

Stop(t) ==
  \/ StartPpoll(t) \/ StartReplaced(t) \/ ChainedEnter(t) \/ ChainedExit(t)
  \/ EndVoid(t) \/ EndStatus(t) \/ Swallow(t)
  \/ ExitSocket(t) \/ KernelConnect(t) \/ ExitConnect(t)
  \/ ExitRecvmsg(t) \/ KernelMmap(t) \/ ExitMmap(t) \/ ChainAborts(t)
  \/ KernelMunmap(t) \/ ExecveDone(t) \/ \E child \in Tracees : NewChild(t, child)

Step(t) ==
  \/ Stop(t) \/ EndPpoll(t) \/ ChainFails(t)
  \/ ExecveEnter(t) \/ ExecveRefused(t) \/ Kill(t) \/ Exit(t) \/ ReapTracee(t)

Syscall(t, sigsys) ==
  \/ \E ok \in {TRUE, ~Faults} : ShmgetCreate(t, sigsys, ok)
  \/ Query(t, sigsys)
  \/ \E addr \in DetachAddrs : Shmdt(t, sigsys, addr)
  \/ \E i \in 1..Len(shms) : Shmat(t, sigsys, i) \/ ShmctlRmid(t, sigsys, i)

Next ==
  \/ /\ ~aborted
     /\ \/ \E t \in Tracees : Step(t)
        \/ \E t \in Tracees, sigsys \in SigsysModes : Syscall(t, sigsys)
        \/ \E parent, child \in Tracees, thread \in CloneThread :
             KernelClone(parent, child, thread)
        \/ HelperDistribute
  \/ Terminated

Spec == Init /\ [][Next]_vars

(* Fairness: PRoot handles every stop, the kernel ends calls that do not   *)
(* block, and the helper runs.                                             *)
Fairness ==
  /\ \A t \in Tracees : WF_vars(~aborted /\ Stop(t))
  /\ WF_vars(~aborted /\ HelperDistribute)

FairSpec == Spec /\ Fairness

-----------------------------------------------------------------------------
(* Type invariant of the shared memory emulation.                          *)
TypeOK ==
  /\ IpcTypeOK
  /\ shms \in Seq(Shm) /\ Len(shms) <= MaxShms
  /\ process \in [Tracees -> Tracees]
  /\ mapped_shms \in [Tracees -> Seq(Mapping)]
  /\ requests \in Seq(Fds)
  /\ backlog \in Seq(Tracees \cup {Closed})
  /\ inbox \in [Tracees -> Fds \cup {None}]
  /\ mem_fd \in [Tracees -> Fds \cup {None}]
  /\ regions \in [Tracees -> SUBSET Region]
  /\ pending \in [Tracees -> Calls]
  /\ aborted \in BOOLEAN

(* The assertions of the chain hold: while a tracee waits for the helper   *)
(* or is in the chain its segment is valid (337) and its process has a     *)
(* mapping for it that is still pending (330), one for each such tracee,   *)
(* although other tracees attach, detach, fork and remove the segment.     *)
ChainHasMapping ==
  /\ ~aborted
  /\ \A t \in Tracees : at[t] \notin {"none", "dead"} =>
       LET Same == {s \in Threads(t) :
                      /\ at[s] # "dead"
                      /\ Chaining(config[s]) \/ Asleep(config[s])
                      /\ config[s].waiting_object_index = config[t].waiting_object_index}
       IN  t \in Same =>
             /\ Valid(config[t].waiting_object_index)
             /\ Cardinality(Same) <=
                  Cardinality(PendingMaps(process[t], config[t].waiting_object_index))

ChainsAgree == TypeOK /\ ChainHasMapping

(* PRoot has let go of region r already: a munmap of it, or an execve of   *)
(* the process, is on its way.                                             *)
Leaving(p, r) ==
  \E s \in Tracees :
    /\ process[s] = p
    /\ \/ pending[s].call = "munmap" /\ pending[s].addr = r.addr
       \/ pending[s].call = "execve"

(* PRoot has not heard of region r yet: the mmap of a shmat has mapped it. *)
Arriving(p, r) ==
  \E s \in Tracees :
    /\ process[s] = p
    /\ pending[s].call = "mmap" /\ pending[s].addr = r.addr
    /\ config[s].waiting_object_index = r.asked.shm

(* A segment is not removed, and its slot not given to another, while a    *)
(* process is about to map it or has it mapped (sysvipc_internal.h 96:     *)
(* "While there is any map, IPC_RMID cannot be completed"), but for one    *)
(* that is on its way to unmap it.                                         *)
MappedSegmentLives ==
  \A p \in Tracees :
    /\ \A k \in 1..Len(mapped_shms[p]) : Valid(mapped_shms[p][k].shm_index)
    /\ \A r \in regions[p] : Leaving(p, r) \/ r.asked = Fd(r.asked.shm)

(* The helper never waits in accept(): a connection is there for every     *)
(* descriptor PRoot told it to send.  Otherwise it would not answer the    *)
(* next SHMHELPER_ALLOC, for which PRoot waits without serving anyone.     *)
HelperNeverBlocks == Len(requests) <= Len(backlog)

(* shmat maps the segment it was asked for (sysvipc_shm.c 303: "Check if   *)
(* any tracee is running concurrent shmat and wait if so").                *)
RightSegment ==
  \A p \in Tracees : \A r \in regions[p] : r.got = r.asked

(* What a process has attached PRoot knows of, by its address and segment: *)
(* shmdt finds it and IPC_RMID waits for it (sysvipc.c 200: "If we've just *)
(* finished execve remove mapped shms from this process"), but for what    *)
(* arrives or leaves.                                                      *)
AttachedIsRegistered ==
  \A p \in Tracees : \A r \in regions[p] :
    \/ Leaving(p, r) \/ Arriving(p, r)
    \/ \E k \in 1..Len(mapped_shms[p]) :
         mapped_shms[p][k].addr = r.addr /\ mapped_shms[p][k].shm_index = r.asked.shm

(* A shmat ends: its caller is back in guest code.                         *)
ShmatReturns ==
  \A t \in Tracees :
    (Chaining(config[t]) \/ Asleep(config[t])) ~> CanCall(t)

=============================================================================
