---------------------------- MODULE SysVShmProofs ----------------------------
(***************************************************************************)
(* Proofs about the shared memory emulation, for any number of tracees,    *)
(* processes, segments and addresses.                                      *)
(***************************************************************************)
EXTENDS SysVShm, LoopLemmas

-----------------------------------------------------------------------------
(* The inductive invariant, in six parts.                                  *)

MemTypeOK ==
  /\ shms \in Seq(Shm) /\ Len(shms) <= MaxShms
  /\ process \in [Tracees -> Tracees]
  /\ mapped_shms \in [Tracees -> Seq(Mapping)]
  /\ requests \in Seq(Fds)
  /\ backlog \in Seq(Tracees \cup {Closed})
  /\ inbox \in [Tracees -> Fds \cup {None}]
  /\ mem_fd \in [Tracees -> Fds \cup {None}]
  /\ regions \in [Tracees -> SUBSET Region]
  /\ pending \in [Tracees -> Calls]
  /\ aborted \in BOOLEAN

(* Only a valid segment waits for its removal, and the bound on removals   *)
(* is kept for it.                                                         *)
Removable(s) ==
  \A i \in 1..Len(s) : s[i].rmid_pending =>
     s[i].valid /\ s[i].generation < MaxGeneration

Busy == "WR_WAIT_SHMAT_HELPER_BUSY"
PastSocket == {"CSTATE_SHMAT_CONNECT", "CSTATE_SHMAT_RECVMSG", "CSTATE_SHMAT_MMAP"}

(* How the config c of a tracee, where it is (a), the number of slots and  *)
(* its descriptor fit together.                                            *)
Fit(c, a, slots, fd) ==
  /\ c.chain_state = "CSTATE_NOT_CHAINED" \/ Chaining(c)
  /\ c.wait_reason = Busy => Asleep(c) /\ c.chain_state = "CSTATE_NOT_CHAINED"
  /\ c.wait_reason # Busy => ~Asleep(c) /\ c.wait_reason = "WR_NOT_WAITING"
  /\ c.chain_state \in PastSocket =>
       a \in {"kernel", "dead"} /\ c.wait_state = "WSTATE_NOT_WAITING"
  /\ a \in {"none", "user"} =>
       c.wait_state = "WSTATE_NOT_WAITING" /\ c.chain_state = "CSTATE_NOT_CHAINED"
  /\ Chaining(c) \/ Asleep(c) => c.waiting_object_index \in 1..slots
  /\ c.chain_state = "CSTATE_SHMAT_MMAP" => fd \in Fds

Fits == \A t \in Tracees : Fit(config[t], at[t], Len(shms), mem_fd[t])

(* Types, and what the wait mechanism and the chain leave in a config.     *)
WaitInv == IpcTypeOK /\ MemTypeOK /\ Removable(shms) /\ Fits

(* The tracees whose connection is queued or served, but whose request to  *)
(* the helper PRoot has not sent yet.                                      *)
Unserved ==
  {t \in Tracees : config[t].chain_state = "CSTATE_SHMAT_CONNECT" /\ Connected(t)}

(* HelperNeverBlocks is not inductive: connect() returns before PRoot      *)
(* hears of it, so the connections of Unserved must be there beyond those  *)
(* that were asked for, once each, and none may outlive its chain.         *)
HelperInv ==
  /\ \A t \in Tracees : Connected(t) =>
       /\ at[t] = "kernel"
       /\ config[t].chain_state \in {"CSTATE_SHMAT_CONNECT", "CSTATE_SHMAT_RECVMSG"}
  /\ \A j, k \in 1..Len(backlog) :
       backlog[j] = backlog[k] /\ backlog[j] # Closed => j = k
  /\ \A k \in 1..Len(backlog) : backlog[k] # Closed => inbox[backlog[k]] = None
  /\ IsFiniteSet(Unserved)
  /\ Len(requests) + Cardinality(Unserved) <= Len(backlog)

(* A call of which only the kernel, or only PRoot, has heard is the one    *)
(* its caller is in.                                                       *)
InCall(d, c, a) ==
  /\ d # NoCall => a \in {"rewound", "kernel"} /\ c.wait_state = "WSTATE_NOT_WAITING"
  /\ d.call \in {"mmap", "clone", "execve"} => a = "kernel"
  /\ d.call = "mmap" => c.chain_state = "CSTATE_SHMAT_MMAP"
  /\ d.call \in {"munmap", "clone", "execve"} => c.chain_state = "CSTATE_NOT_CHAINED"

(* The child of a clone is nobody yet, nor the name of a process.          *)
PendInv ==
  /\ \A t \in Tracees : InCall(pending[t], config[t], at[t])
  /\ \A t \in Tracees : pending[t].call = "clone" =>
       /\ at[pending[t].child] = "none"
       /\ \A s \in Tracees : at[s] # "none" => process[s] # pending[t].child
       /\ \A s \in Tracees :
            pending[s].call = "clone" /\ pending[s].child = pending[t].child => s = t

(* A mapping points to a valid segment and has no address before it has a  *)
(* size.                                                                   *)
MapInv ==
  \A p \in Tracees : \A k \in 1..Len(mapped_shms[p]) :
    /\ Valid(mapped_shms[p][k].shm_index)
    /\ mapped_shms[p][k].size = 0 => mapped_shms[p][k].addr = 0

(* The living threads of process p that wait for the helper, or are in the *)
(* chain, to attach segment i.                                             *)
Attaching(p, i) ==
  {s \in Tracees :
     /\ at[s] \notin {"none", "dead"} /\ process[s] = p
     /\ Chaining(config[s]) \/ Asleep(config[s])
     /\ config[s].waiting_object_index = i}

(* Each of them has a pending mapping of its own to find.                  *)
CountInv ==
  /\ ~aborted
  /\ \A p \in Tracees, i \in 1..MaxShms :
       /\ IsFiniteSet(Attaching(p, i))
       /\ Cardinality(Attaching(p, i)) <= Cardinality(PendingMaps(p, i))

(* Process p knows of region r.                                            *)
Registered(p, r) ==
  \E k \in 1..Len(mapped_shms[p]) :
    mapped_shms[p][k].addr = r.addr /\ mapped_shms[p][k].shm_index = r.asked.shm

(* A thread of process p runs.                                             *)
Lives(p) == \E s \in Tracees : at[s] \notin {"none", "dead"} /\ process[s] = p

(* A region belongs to a process that lives, and unless it is on its way   *)
(* out, to the segment it was asked for and to a mapping, which the end of *)
(* its mmap may still have to fill in.  A child that is on its way has     *)
(* regions that its parent's process knows of.                             *)
RegionInv ==
  /\ \A p \in Tracees : \A r \in regions[p] :
       /\ Lives(p)
       /\ \/ Leaving(p, r)
          \/ r.asked = Fd(r.asked.shm) /\ (Arriving(p, r) \/ Registered(p, r))
  /\ \A t \in Tracees : Forks(t) => \A r \in pending[t].regions :
       r.asked = Fd(r.asked.shm) /\ Registered(process[t], r)

-----------------------------------------------------------------------------
(* Operators on values.                                                    *)

(* A list walk that stops at the first hit stops at one.                   *)
LEMMA FirstIn ==
  ASSUME NEW S, S \subseteq Nat, S # {}
  PROVE  First(S) \in S /\ \A j \in S : First(S) <= j
<1>1. \E n \in S : \A m \in S : n <= m
  BY LeastElement
<1> QED BY <1>1 DEF First

(* sysvipc_do_rmid frees unmapped segments only, and keeps every slot.     *)
LEMMA DoRmidFacts ==
  ASSUME NEW s \in Seq(Shm), Removable(s), NEW m, NEW r, r = DoRmid(s, m)
  PROVE  /\ r \in Seq(Shm) /\ Len(r) = Len(s) /\ Removable(r)
         /\ \A i \in 1..Len(s) : MapsOf(m, i) # {} => r[i] = s[i]
<1>1. MaxGeneration \in Nat
  BY ShmAssumption
<1> DEFINE freed(i) == [valid |-> FALSE, rmid_pending |-> FALSE,
                        generation |-> s[i].generation + 1]
<1>2. /\ r = [i \in 1..Len(s) |->
                IF s[i].valid /\ s[i].rmid_pending /\ MapsOf(m, i) = {}
                THEN freed(i) ELSE s[i]]
      /\ Len(s) \in Nat
  BY DEF DoRmid
<1>3. ASSUME NEW i \in 1..Len(s)
      PROVE  /\ s[i] \in Shm
             /\ s[i].rmid_pending => s[i].valid /\ s[i].generation < MaxGeneration
             /\ s[i].valid /\ s[i].rmid_pending => freed(i) \in Shm
  <2>1. s[i] \in Shm
    OBVIOUS
  <2>2. s[i].rmid_pending => s[i].valid /\ s[i].generation < MaxGeneration
    BY DEF Removable
  <2>3. s[i].generation \in Nat
    BY <1>1, <2>1 DEF Shm
  <2>4. s[i].valid /\ s[i].rmid_pending => s[i].generation + 1 \in 0..MaxGeneration
    BY <1>1, <2>2, <2>3
  <2> QED BY <2>1, <2>2, <2>4 DEF Shm
<1> HIDE DEF freed
<1>4. r \in Seq(Shm) /\ Len(r) = Len(s)
  <2>1. \A i \in 1..Len(s) : (IF s[i].valid /\ s[i].rmid_pending /\ MapsOf(m, i) = {}
                              THEN freed(i) ELSE s[i]) \in Shm
    BY <1>3
  <2> QED BY <1>2, <2>1
<1>5. ASSUME NEW i \in 1..Len(s)
      PROVE  r[i].rmid_pending => r[i].valid /\ r[i].generation < MaxGeneration
  <2>1. r[i] = freed(i) \/ r[i] = s[i]
    BY <1>2
  <2> QED BY <2>1, <1>3 DEF freed
<1>6. \A i \in 1..Len(s) : MapsOf(m, i) # {} => r[i] = s[i]
  BY <1>2
<1> QED BY <1>4, <1>5, <1>6 DEF Removable

(* What TypeOK says is what the two type parts of the invariant say.       *)
LEMMA TypeParts == TypeOK <=> IpcTypeOK /\ MemTypeOK
BY DEF TypeOK, MemTypeOK

-----------------------------------------------------------------------------
(* The wait mechanism.                                                     *)

(* One tracee, t, moves to a with config c; the others stay as they are.   *)
LEMMA WaitStep ==
  ASSUME WaitInv, NEW t \in Tracees, NEW c \in Configs, NEW a \in Locations,
         tracees' \in Seq(Tracees),
         config' = [config EXCEPT ![t] = c], at' = [at EXCEPT ![t] = a],
         sigstop' \in [Tracees -> {"SIGSTOP_IGNORED", "SIGSTOP_ALLOWED"}],
         kick' \in [Tracees -> BOOLEAN],
         Len(shms) <= Len(shms'), Len(shms') \in Nat,
         \A s \in Tracees : s # t => mem_fd'[s] = mem_fd[s],
         Fit(c, a, Len(shms'), mem_fd'[t])
  PROVE  /\ IpcTypeOK' /\ Fits'
         /\ config'[t] = c /\ at'[t] = a
         /\ \A s \in Tracees : s # t => config'[s] = config[s] /\ at'[s] = at[s]
<1>1. IpcTypeOK'
  BY DEF WaitInv, IpcTypeOK
<1>2. /\ config'[t] = c /\ at'[t] = a
      /\ \A s \in Tracees : s # t => config'[s] = config[s] /\ at'[s] = at[s]
  BY DEF WaitInv, IpcTypeOK
<1>3. ASSUME NEW s \in Tracees
      PROVE  Fit(config'[s], at'[s], Len(shms'), mem_fd'[s])
  <2>1. CASE s = t
    BY <1>2, <2>1
  <2>2. CASE s # t
    <3>1. Fit(config[s], at[s], Len(shms), mem_fd[s])
      BY DEF WaitInv, Fits
    <3>2. config'[s] = config[s] /\ at'[s] = at[s] /\ mem_fd'[s] = mem_fd[s]
      BY <1>2, <2>2
    <3>3. Len(shms) \in Nat
      BY DEF WaitInv, MemTypeOK
    <3>4. config[s].waiting_object_index \in 1..Len(shms) =>
            config[s].waiting_object_index \in 1..Len(shms')
      BY <3>3
    <3> QED BY <3>1, <3>2, <3>4 DEF Fit
  <2> QED BY <2>1, <2>2
<1> QED BY <1>1, <1>2, <1>3 DEF Fits

(* A caller runs guest code: it neither waits nor chains.                  *)
LEMMA CallerConfig ==
  ASSUME WaitInv, NEW t \in Tracees, CanCall(t)
  PROVE  /\ config[t] \in Configs
         /\ config[t].wait_state = "WSTATE_NOT_WAITING"
         /\ config[t].wait_reason = "WR_NOT_WAITING"
         /\ config[t].chain_state = "CSTATE_NOT_CHAINED"
         /\ ~Chaining(config[t]) /\ ~Asleep(config[t])
<1>1. Fit(config[t], at[t], Len(shms), mem_fd[t]) /\ config[t] \in Configs
  BY DEF WaitInv, Fits, IpcTypeOK
<1> QED BY <1>1 DEF Fit, CanCall, Asleep, Chaining, Busy

(* A handler returned without waiting or chaining.                         *)
LEMMA PlainConfig ==
  ASSUME NEW c \in Configs, c.wait_state = "WSTATE_NOT_WAITING",
         c.wait_reason = "WR_NOT_WAITING",
         c.chain_state \in {"CSTATE_NOT_CHAINED", "CSTATE_SINGLE"},
         NEW status \in Statuses, NEW sigsys \in BOOLEAN, NEW slots, NEW fd
  PROVE  LET d == CommonConfig(c, status, sigsys)
             a == CommonAt(c, sigsys)
         IN  /\ d \in Configs /\ a \in Locations /\ Fit(d, a, slots, fd)
             /\ ~Chaining(d) /\ ~Asleep(d)
             /\ a \notin {"none", "dead"}
<1> DEFINE d == CommonConfig(c, status, sigsys)
           a == CommonAt(c, sigsys)
<1>1. a \in {"user", "rewound", "kernel"}
  BY DEF CommonAt, Resume
<1>2. d \in Configs /\ d.chain_state = "CSTATE_NOT_CHAINED"
        /\ d.wait_reason = "WR_NOT_WAITING"
        /\ d.wait_state \in {"WSTATE_NOT_WAITING", "WSTATE_ENTERED_GETPID"}
  BY DEF CommonConfig, Configs, WaitStates, ChainStates
<1>3. a = "user" => d.wait_state = "WSTATE_NOT_WAITING"
  BY DEF CommonAt, CommonConfig, Resume
<1> HIDE DEF d, a
<1>4. Fit(d, a, slots, fd) /\ ~Chaining(d) /\ ~Asleep(d) /\ a \notin {"none", "dead"}
  BY <1>1, <1>2, <1>3 DEF Fit, Asleep, Chaining, PastSocket, Busy
<1>5. a \in Locations
  BY <1>1 DEF Locations
<1> QED BY <1>2, <1>4, <1>5 DEF d, a

(* shmat returned: it waits for the helper, or starts its chain.           *)
LEMMA ShmatConfig ==
  ASSUME NEW c \in Configs, c.wait_state = "WSTATE_NOT_WAITING",
         \/ /\ c.wait_reason = Busy
            /\ c.chain_state = "CSTATE_NOT_CHAINED"
         \/ /\ c.wait_reason = "WR_NOT_WAITING"
            /\ c.chain_state = "CSTATE_SHMAT_SOCKET",
         NEW status \in Statuses, NEW sigsys \in BOOLEAN, NEW slots, NEW fd,
         c.waiting_object_index \in 1..slots
  PROVE  LET d == CommonConfig(c, status, sigsys)
             a == CommonAt(c, sigsys)
         IN  /\ d \in Configs /\ a \in Locations /\ Fit(d, a, slots, fd)
             /\ a \notin {"none", "dead"}
             /\ d.waiting_object_index = c.waiting_object_index
             /\ d.chain_state \notin PastSocket
             /\ Chaining(d) \/ Asleep(d)
<1> DEFINE d == CommonConfig(c, status, sigsys)
           a == CommonAt(c, sigsys)
<1>1. a \in {"rewound", "kernel"}
  BY DEF CommonAt, Resume, Busy
<1>2. d \in Configs /\ d.chain_state = c.chain_state
        /\ d.wait_reason = c.wait_reason
        /\ d.waiting_object_index = c.waiting_object_index
        /\ (c.wait_reason = Busy => Asleep(d))
        /\ (c.wait_reason # Busy => d.wait_state = "WSTATE_NOT_WAITING")
  BY DEF CommonConfig, Configs, WaitStates, ChainStates, Asleep, Busy
<1> HIDE DEF d, a
<1>3. Fit(d, a, slots, fd) /\ a \notin {"none", "dead"} /\ d.chain_state \notin PastSocket
        /\ (Chaining(d) \/ Asleep(d))
  BY <1>1, <1>2 DEF Fit, Asleep, Chaining, PastSocket, Busy
<1>4. a \in Locations
  BY <1>1 DEF Locations
<1> QED BY <1>2, <1>3, <1>4 DEF d, a

(* The tracee that moves is fit to begin with.                             *)
LEMMA FitsNow ==
  ASSUME WaitInv, NEW t \in Tracees
  PROVE  /\ Fit(config[t], at[t], Len(shms), mem_fd[t])
         /\ config[t] \in Configs /\ at[t] \in Locations
         /\ Len(shms) \in Nat
BY DEF WaitInv, Fits, IpcTypeOK, MemTypeOK

(* A step of PRoot or of the helper that touches no tracee.                *)
LEMMA QuietStep ==
  ASSUME WaitInv, UNCHANGED ipcVars, UNCHANGED mem_fd,
         Len(shms) <= Len(shms'), Len(shms') \in Nat
  PROVE  IpcTypeOK' /\ Fits'
<1>1. IpcTypeOK'
  BY DEF WaitInv, IpcTypeOK, ipcVars
<1>2. ASSUME NEW s \in Tracees
      PROVE  Fit(config'[s], at'[s], Len(shms'), mem_fd'[s])
  <2>1. Fit(config[s], at[s], Len(shms), mem_fd[s]) /\ Len(shms) \in Nat
    BY FitsNow
  <2>2. config'[s] = config[s] /\ at'[s] = at[s] /\ mem_fd'[s] = mem_fd[s]
    BY DEF ipcVars
  <2>3. config[s].waiting_object_index \in 1..Len(shms) =>
          config[s].waiting_object_index \in 1..Len(shms')
    BY <2>1
  <2> QED BY <2>1, <2>2, <2>3 DEF Fit
<1> QED BY <1>1, <1>2 DEF Fits

(* Who was talking to the helper is where it was.                          *)
HelperFrame ==
  \A s \in Tracees :
    at[s] = "kernel" /\ config[s].chain_state \in {"CSTATE_SHMAT_CONNECT",
                                                   "CSTATE_SHMAT_RECVMSG"}
      => at'[s] = "kernel" /\ config'[s].chain_state = config[s].chain_state

(* Nobody starts to attach a segment, or turns to another.                 *)
CountFrame ==
  \A s \in Tracees :
    Attaches(s)' => /\ Attaches(s)
                    /\ config'[s].waiting_object_index = config[s].waiting_object_index

(* Both when only t moves.                                                 *)
LEMMA FrameStep ==
  ASSUME NEW t \in Tracees,
         \A s \in Tracees : s # t => config'[s] = config[s] /\ at'[s] = at[s],
         at[t] = "kernel" => config[t].chain_state \notin {"CSTATE_SHMAT_CONNECT",
                                                           "CSTATE_SHMAT_RECVMSG"},
         Attaches(t)' => /\ Attaches(t)
                         /\ config'[t].waiting_object_index = config[t].waiting_object_index
  PROVE  HelperFrame /\ CountFrame
BY DEF HelperFrame, CountFrame, Attaches

(* A handler that neither makes its caller wait nor starts a chain.        *)
LEMMA HandlerStep ==
  ASSUME WaitInv, NEW t \in Tracees, CanCall(t), NEW c \in Configs,
         c.wait_state = "WSTATE_NOT_WAITING", c.wait_reason = "WR_NOT_WAITING",
         c.chain_state \in {"CSTATE_NOT_CHAINED", "CSTATE_SINGLE"},
         NEW status \in Statuses, NEW sigsys \in BOOLEAN,
         SyscallCommon(t, c, status, sigsys), UNCHANGED mem_fd,
         Len(shms) <= Len(shms'), Len(shms') \in Nat
  PROVE  IpcTypeOK' /\ Fits' /\ HelperFrame /\ CountFrame
<1>1. PICK d : d = CommonConfig(c, status, sigsys)
  OBVIOUS
<1>2. PICK a : a = CommonAt(c, sigsys)
  OBVIOUS
<1>3. /\ d \in Configs /\ a \in Locations /\ Fit(d, a, Len(shms'), mem_fd'[t])
      /\ ~Chaining(d) /\ ~Asleep(d) /\ a \notin {"none", "dead"}
  BY <1>1, <1>2, PlainConfig
<1>4. /\ config' = [config EXCEPT ![t] = d] /\ at' = [at EXCEPT ![t] = a]
      /\ UNCHANGED <<tracees, sigstop, kick>>
  BY <1>1, <1>2 DEF SyscallCommon
<1>5. /\ tracees' \in Seq(Tracees)
      /\ sigstop' \in [Tracees -> {"SIGSTOP_IGNORED", "SIGSTOP_ALLOWED"}]
      /\ kick' \in [Tracees -> BOOLEAN]
  BY <1>4 DEF WaitInv, IpcTypeOK
<1>6. /\ IpcTypeOK' /\ Fits'
      /\ config'[t] = d /\ at'[t] = a
      /\ \A s \in Tracees : s # t => config'[s] = config[s] /\ at'[s] = at[s]
  BY <1>3, <1>4, <1>5, WaitStep
<1>7. ~Attaches(t)' /\ at[t] # "kernel"
  BY <1>3, <1>6 DEF Attaches, CanCall, Chaining, Asleep
<1> QED BY <1>6, <1>7, FrameStep

(* The stops of the wait mechanism, and the return of socket(): only the   *)
(* tracee that stops moves, and it starts nothing new.                     *)
LEMMA StopStep ==
  ASSUME WaitInv, NEW t \in Tracees,
         \/ StartPpoll(t) \/ StartReplaced(t) \/ ChainedEnter(t) \/ ChainedExit(t)
         \/ EndVoid(t) \/ EndStatus(t) \/ EndPpoll(t) \/ Swallow(t) \/ ExitSocket(t)
  PROVE  /\ IpcTypeOK' /\ Fits' /\ HelperFrame /\ CountFrame
         /\ UNCHANGED shmVars
<1> DEFINE now == config[t]
<1>0. /\ Fit(now, at[t], Len(shms), mem_fd[t])
      /\ now \in Configs /\ at[t] \in Locations /\ Len(shms) \in Nat
  BY FitsNow
<1>1. UNCHANGED shmVars
  BY DEF StartPpoll, StartReplaced, ChainedEnter, ChainedExit, EndVoid, EndStatus,
         EndPpoll, Swallow, ExitSocket
<1> DEFINE Went(c, a) ==
      /\ c \in Configs /\ a \in Locations \ {"dead"}
      /\ config' = [config EXCEPT ![t] = c] /\ at' = [at EXCEPT ![t] = a]
      /\ tracees' = tracees
      /\ sigstop' \in [Tracees -> {"SIGSTOP_IGNORED", "SIGSTOP_ALLOWED"}]
      /\ kick' \in [Tracees -> BOOLEAN]
      /\ Fit(c, a, Len(shms), mem_fd[t])
      /\ Chaining(c) \/ Asleep(c) =>
           (Chaining(now) \/ Asleep(now)) /\ c.waiting_object_index = now.waiting_object_index
      /\ at[t] \notin {"none", "dead"}
      /\ at[t] = "kernel" => now.chain_state \notin {"CSTATE_SHMAT_CONNECT",
                                                     "CSTATE_SHMAT_RECVMSG"}
<1>2. ASSUME NEW c, NEW a, Went(c, a)
      PROVE  IpcTypeOK' /\ Fits' /\ HelperFrame /\ CountFrame
  <2>1. c \in Configs /\ a \in Locations /\ tracees' \in Seq(Tracees)
    BY <1>2 DEF WaitInv, IpcTypeOK
  <2>2. /\ Len(shms) <= Len(shms') /\ Len(shms') \in Nat /\ mem_fd' = mem_fd
        /\ Fit(c, a, Len(shms'), mem_fd'[t])
    BY <1>0, <1>1, <1>2 DEF shmVars
  <2>3. /\ IpcTypeOK' /\ Fits'
        /\ config'[t] = c /\ at'[t] = a
        /\ \A s \in Tracees : s # t => config'[s] = config[s] /\ at'[s] = at[s]
    BY <2>1, <2>2, <1>2, WaitStep
  <2>4. Attaches(t)' => /\ Attaches(t)
                        /\ config'[t].waiting_object_index = now.waiting_object_index
    <3>1. Attaches(t)' <=> a \notin {"none", "dead"} /\ (Chaining(c) \/ Asleep(c))
      BY <2>3 DEF Attaches, Chaining, Asleep
    <3>2. Attaches(t) <=> at[t] \notin {"none", "dead"} /\ (Chaining(now) \/ Asleep(now))
      BY DEF Attaches
    <3> QED BY <1>2, <2>3, <3>1, <3>2
  <2> HIDE DEF now
  <2> QED BY <2>3, <2>4, <1>2, FrameStep DEF now
<1>k. /\ tracees' = tracees => tracees' \in Seq(Tracees)
      /\ kick' = kick => kick' \in [Tracees -> BOOLEAN]
      /\ sigstop' = sigstop =>
           sigstop' \in [Tracees -> {"SIGSTOP_IGNORED", "SIGSTOP_ALLOWED"}]
  BY DEF WaitInv, IpcTypeOK
<1>3. CASE StartPpoll(t)
  <2> DEFINE c == [now EXCEPT !.wait_state = "WSTATE_ENTERED_PPOLL"]
  <2>1. Went(c, "kernel")
    BY <1>0, <1>k, <1>3 DEF StartPpoll, EnterPpoll, Fit, Configs, WaitStates, Locations,
       Asleep, Chaining, PastSocket, Busy
  <2> HIDE DEF c, Went
  <2> QED BY <2>1, <1>1, <1>2
<1>4. CASE StartReplaced(t)
  <2>1. config' = [config EXCEPT ![t] = now]
    BY <1>4 DEF StartReplaced, WaitInv, IpcTypeOK
  <2>2. Went(now, "kernel")
    BY <1>0, <1>k, <1>4, <2>1 DEF StartReplaced, Fit, Locations, Asleep, Chaining,
       PastSocket
  <2> HIDE DEF Went
  <2> QED BY <2>2, <1>1, <1>2
<1>5. CASE ChainedEnter(t)
  <2> DEFINE c == [now EXCEPT !.wait_state = "WSTATE_SIGNALED_PPOLL"]
  <2>1. Went(c, "kernel")
    BY <1>0, <1>k, <1>5 DEF ChainedEnter, Fit, Configs, WaitStates, Locations,
       Asleep, Chaining, PastSocket, Busy
  <2> HIDE DEF c, Went
  <2> QED BY <2>1, <1>1, <1>2
<1>6. CASE ChainedExit(t)
  <2> DEFINE c == [now EXCEPT !.wait_state = "WSTATE_NOT_WAITING"]
  <2>1. at' = [at EXCEPT ![t] = "kernel"]
    BY <1>6 DEF ChainedExit, WaitInv, IpcTypeOK
  <2>2. Went(c, "kernel")
    BY <1>0, <1>k, <1>6, <2>1 DEF ChainedExit, Fit, Configs, WaitStates, Locations,
       Asleep, Chaining, PastSocket, Busy
  <2> HIDE DEF c, Went
  <2> QED BY <2>2, <1>1, <1>2
<1>7. CASE EndVoid(t)
  <2>1. config' = [config EXCEPT ![t] = now]
    BY <1>7 DEF EndVoid, ExitVoid, WaitInv, IpcTypeOK
  <2>2. Went(now, "user")
    BY <1>0, <1>k, <1>7, <2>1 DEF EndVoid, ExitVoid, Fit, Locations, Asleep, Chaining,
       PastSocket
  <2> HIDE DEF Went
  <2> QED BY <2>2, <1>1, <1>2
<1>8. CASE EndStatus(t)
  <2> DEFINE c == [now EXCEPT !.wait_state = "WSTATE_NOT_WAITING"]
  <2>1. Went(c, "user")
    BY <1>0, <1>k, <1>8 DEF EndStatus, ExitStatus, Fit, Configs, WaitStates, Locations,
       Asleep, Chaining, PastSocket, Busy
  <2> HIDE DEF c, Went
  <2> QED BY <2>1, <1>1, <1>2
<1>9. CASE EndPpoll(t)
  <2> DEFINE c == [now EXCEPT !.wait_state = "WSTATE_NOT_WAITING",
                              !.wait_reason = "WR_NOT_WAITING"]
  <2>1. Went(c, "user")
    BY <1>0, <1>k, <1>9 DEF EndPpoll, ExitPpoll, Fit, Configs, WaitStates, WaitReasons,
       Locations, Asleep, Chaining, PastSocket, Busy
  <2> HIDE DEF c, Went
  <2> QED BY <2>1, <1>1, <1>2
<1>10. CASE Swallow(t)
  <2>1. config' = [config EXCEPT ![t] = now] /\ at' = [at EXCEPT ![t] = at[t]]
    BY <1>10 DEF Swallow, SigstopStop, WaitInv, IpcTypeOK
  <2>2. /\ sigstop' \in [Tracees -> {"SIGSTOP_IGNORED", "SIGSTOP_ALLOWED"}]
        /\ kick' \in [Tracees -> BOOLEAN] /\ tracees' = tracees
    BY <1>10 DEF Swallow, SigstopStop, WaitInv, IpcTypeOK
  <2>3. Went(now, at[t])
    BY <1>0, <1>10, <2>1, <2>2 DEF Swallow, SigstopStop, Fit, Locations, PastSocket
  <2> HIDE DEF Went
  <2> QED BY <2>3, <1>1, <1>2
<1>11. CASE ExitSocket(t)
  <2> DEFINE c == [now EXCEPT !.chain_state = "CSTATE_SHMAT_CONNECT"]
  <2>1. at' = [at EXCEPT ![t] = "kernel"]
    BY <1>11 DEF ExitSocket, InChain, Advance, WaitInv, IpcTypeOK
  <2>2. Went(c, "kernel")
    BY <1>0, <1>k, <1>11, <2>1 DEF ExitSocket, InChain, Advance, Fit, Configs,
       ChainStates, Locations, Asleep, Chaining, PastSocket, Busy
  <2> HIDE DEF c, Went
  <2> QED BY <2>2, <1>1, <1>2
<1> HIDE DEF now, Went
<1> QED BY <1>1, <1>3, <1>4, <1>5, <1>6, <1>7, <1>8, <1>9, <1>10, <1>11

(* The end of a chain: t is done, and the first waiter, if there is one,   *)
(* is about to start its chain.                                            *)
LEMMA ChainDoneStep ==
  ASSUME WaitInv, NEW t \in Tracees, at[t] = "kernel", Chaining(config[t]),
         config[t].wait_state = "WSTATE_NOT_WAITING",
         ChainDone(t), Len(shms) <= Len(shms'), Len(shms') \in Nat,
         \A s \in Tracees : s # t => mem_fd'[s] = mem_fd[s]
  PROVE  /\ IpcTypeOK' /\ Fits' /\ CountFrame /\ at' = at
         /\ ~Attaches(t)' /\ config'[t].chain_state = "CSTATE_NOT_CHAINED"
         /\ \A s \in Tracees : s # t /\ config'[s] # config[s] =>
              /\ config[s].chain_state = "CSTATE_NOT_CHAINED"
              /\ config'[s].chain_state = "CSTATE_SHMAT_SOCKET"
<1> DEFINE c == [config[t] EXCEPT !.chain_state = "CSTATE_NOT_CHAINED"]
           w == tracees[First(Waiters)]
           d == [WakeConfig(config[w], "OK") EXCEPT !.chain_state = "CSTATE_SHMAT_SOCKET"]
<1>1. /\ Fit(config[t], at[t], Len(shms), mem_fd[t])
      /\ config[t] \in Configs /\ Len(shms) \in Nat
  BY FitsNow
<1>2. c \in Configs /\ c.chain_state = "CSTATE_NOT_CHAINED" /\ ~Chaining(c) /\ ~Asleep(c)
        /\ c.wait_reason = "WR_NOT_WAITING"
  <2>1. /\ config[t].wait_reason = "WR_NOT_WAITING"
        /\ config[t].wait_state = "WSTATE_NOT_WAITING"
    BY <1>1 DEF Fit, Asleep
  <2> QED BY <1>1, <2>1 DEF Configs, ChainStates, Chaining, Asleep
<1>3. Fit(c, "kernel", Len(shms'), mem_fd'[t])
  BY <1>2 DEF Fit, PastSocket, Busy
<1>4. /\ at' = at /\ tracees' = tracees /\ at \in [Tracees -> Locations]
      /\ config \in [Tracees -> Configs] /\ tracees \in Seq(Tracees)
      /\ sigstop \in [Tracees -> {"SIGSTOP_IGNORED", "SIGSTOP_ALLOWED"}]
      /\ kick \in [Tracees -> BOOLEAN]
  BY DEF ChainDone, WaitInv, IpcTypeOK
<1>5. CASE Waiters = {}
  <2>1. config' = [config EXCEPT ![t] = c] /\ UNCHANGED <<sigstop, kick>>
    BY <1>5 DEF ChainDone
  <2>2. at' = [at EXCEPT ![t] = "kernel"] /\ "kernel" \in Locations
    BY <1>4 DEF Locations
  <2>3. /\ tracees' \in Seq(Tracees)
        /\ sigstop' \in [Tracees -> {"SIGSTOP_IGNORED", "SIGSTOP_ALLOWED"}]
        /\ kick' \in [Tracees -> BOOLEAN]
    BY <1>4, <2>1
  <2>4. /\ IpcTypeOK' /\ Fits' /\ config'[t] = c
        /\ \A s \in Tracees : s # t => config'[s] = config[s] /\ at'[s] = at[s]
    <3> HIDE DEF c
    <3> QED BY <1>2, <1>3, <2>1, <2>2, <2>3, WaitStep
  <2>5. ~Attaches(t)'
    BY <1>2, <2>4 DEF Attaches, Chaining, Asleep
  <2>6. CountFrame
    BY <2>4, <2>5 DEF CountFrame, Attaches
  <2> QED BY <1>2, <1>4, <2>4, <2>5, <2>6
<1>6. CASE Waiters # {}
  <2>1. First(Waiters) \in Waiters
    <3>1. Waiters \subseteq Nat BY DEF Waiters
    <3> QED BY <1>6, <3>1, FirstIn
  <2>2. w \in Tracees /\ config[w].wait_reason = Busy
    BY <1>4, <2>1 DEF Waiters, Busy
  <2>3. /\ Fit(config[w], at[w], Len(shms), mem_fd[w])
        /\ config[w] \in Configs /\ at[w] \in Locations
    BY <2>2, FitsNow
  <2>4. /\ w # t
    BY <1>1, <2>2, <2>3 DEF Fit, Asleep, Chaining
  <2>5. /\ d \in Configs /\ d.chain_state = "CSTATE_SHMAT_SOCKET"
        /\ d.waiting_object_index = config[w].waiting_object_index
        /\ Chaining(d) /\ ~Asleep(d) /\ d.wait_reason = "WR_NOT_WAITING"
    BY <2>3 DEF WakeConfig, Configs, ChainStates, WaitStates, WaitReasons, Statuses,
       Chaining, Asleep
  <2>6. Asleep(config[w]) /\ config[w].chain_state = "CSTATE_NOT_CHAINED"
          /\ config[w].waiting_object_index \in 1..Len(shms)
          /\ at[w] \notin {"none", "user"}
    BY <2>2, <2>3 DEF Fit, Asleep
  <2>7. Fit(d, at[w], Len(shms'), mem_fd'[w])
    <3>1. config[w].waiting_object_index \in 1..Len(shms')
      BY <1>1, <2>6
    <3> HIDE DEF d, w
    <3> QED BY <2>5, <2>6, <3>1 DEF Fit, PastSocket, Busy, Chaining
  <2>8. config' = [config EXCEPT ![t] = c, ![w] = d]
    <3>1. config' = [config EXCEPT
                     ![t].chain_state = "CSTATE_NOT_CHAINED",
                     ![w] = [WakeConfig(@, "OK") EXCEPT
                               !.chain_state = "CSTATE_SHMAT_SOCKET"]]
      BY <1>6 DEF ChainDone
    <3> QED BY <3>1, <1>4, <2>2, <2>4
  <2>9. /\ sigstop' \in [Tracees -> {"SIGSTOP_IGNORED", "SIGSTOP_ALLOWED"}]
        /\ kick' \in [Tracees -> BOOLEAN]
    <3>1. PICK b : b = (kick[w] \/ (config[w].wait_state = "WSTATE_ENTERED_PPOLL"
                                      /\ at[w] # "dead"))
      OBVIOUS
    <3>2. PICK e : e = IF config[w].wait_state = "WSTATE_ENTERED_PPOLL"
                       THEN "SIGSTOP_IGNORED" ELSE sigstop[w]
      OBVIOUS
    <3>3. kick' = [kick EXCEPT ![w] = b] /\ sigstop' = [sigstop EXCEPT ![w] = e]
      BY <1>6, <3>1, <3>2 DEF ChainDone
    <3>4. b \in BOOLEAN /\ e \in {"SIGSTOP_IGNORED", "SIGSTOP_ALLOWED"}
      BY <1>4, <2>2, <3>1, <3>2
    <3> HIDE DEF w
    <3> QED BY <1>4, <3>3, <3>4
  <2> HIDE DEF c, d, w
  <2>10. /\ config'[t] = c /\ config'[w] = d
         /\ \A s \in Tracees : s # t /\ s # w => config'[s] = config[s]
         /\ config' \in [Tracees -> Configs]
    BY <1>2, <1>4, <2>2, <2>4, <2>5, <2>8
  <2>11. IpcTypeOK'
    BY <1>4, <2>9, <2>10 DEF IpcTypeOK
  <2>12. ASSUME NEW s \in Tracees, s # t, s # w
         PROVE  Fit(config'[s], at'[s], Len(shms'), mem_fd'[s])
    <3>1. Fit(config[s], at[s], Len(shms), mem_fd[s])
      BY FitsNow
    <3>2. config'[s] = config[s] /\ at'[s] = at[s] /\ mem_fd'[s] = mem_fd[s]
      BY <1>4, <2>10, <2>12
    <3>3. config[s].waiting_object_index \in 1..Len(shms) =>
            config[s].waiting_object_index \in 1..Len(shms')
      BY <1>1
    <3> QED BY <3>1, <3>2, <3>3 DEF Fit
  <2>13. Fits'
    BY <1>3, <1>4, <2>7, <2>10, <2>12 DEF Fits
  <2>14. ~Attaches(t)'
    BY <1>2, <2>10 DEF Attaches, Chaining, Asleep
  <2>15. CountFrame
    <3> SUFFICES ASSUME NEW s \in Tracees, Attaches(s)'
                 PROVE  /\ Attaches(s)
                        /\ config'[s].waiting_object_index =
                             config[s].waiting_object_index
      BY DEF CountFrame
    <3>1. s # t BY <2>14
    <3>2. CASE s = w
      BY <1>4, <2>5, <2>6, <2>10, <3>2 DEF Attaches
    <3>3. CASE s # w
      BY <1>4, <2>10, <3>1, <3>3 DEF Attaches
    <3> QED BY <3>2, <3>3
  <2> QED BY <1>2, <1>4, <2>5, <2>6, <2>10, <2>11, <2>13, <2>14, <2>15
<1> QED BY <1>5, <1>6

-----------------------------------------------------------------------------
(* WaitInv, action by action.                                              *)

(* A new fd table entry or a freed one: the slots change, nothing else.    *)
LEMMA SlotStep ==
  ASSUME WaitInv, NEW r \in Seq(Shm), shms' = r, Removable(r),
         Len(r) >= Len(shms), Len(r) <= MaxShms,
         UNCHANGED <<process, requests, backlog, inbox, mem_fd, aborted>>,
         mapped_shms' \in [Tracees -> Seq(Mapping)],
         regions' \in [Tracees -> SUBSET Region], pending' \in [Tracees -> Calls],
         IpcTypeOK', Fits'
  PROVE  WaitInv'
<1>1. MemTypeOK'
  BY DEF WaitInv, MemTypeOK
<1> QED BY <1>1 DEF WaitInv

(* Lists of mappings stay lists of mappings when one is unlinked.          *)
LEMMA UnlinkType ==
  ASSUME NEW q \in Seq(Mapping), NEW k \in 1..Len(q)
  PROVE  /\ Unlink(q, k) \in Seq(Mapping) /\ Len(Unlink(q, k)) = Len(q) - 1
         /\ \A j \in 1..(k - 1) : Unlink(q, k)[j] = q[j]
         /\ \A j \in k..(Len(q) - 1) : Unlink(q, k)[j] = q[j + 1]
BY UnlinkedList DEF Unlink

(* shmget of a new segment.                                                *)
LEMMA ShmgetStep ==
  ASSUME WaitInv, NEW t \in Tracees, NEW sigsys \in BOOLEAN, NEW ok \in BOOLEAN,
         ShmgetCreate(t, sigsys, ok)
  PROVE  /\ WaitInv' /\ HelperFrame /\ CountFrame
         /\ Len(shms') >= Len(shms)
         /\ \A i \in 1..Len(shms) : Valid(i) => shms'[i] = shms[i]
<1>0. shms \in Seq(Shm) /\ Len(shms) \in Nat /\ Len(shms) <= MaxShms /\ Removable(shms)
  BY DEF WaitInv, MemTypeOK
<1>1. /\ shms' \in Seq(Shm) /\ Len(shms') >= Len(shms) /\ Len(shms') <= MaxShms
      /\ Removable(shms')
      /\ \A i \in 1..Len(shms) : Valid(i) => shms'[i] = shms[i]
  <2>1. CASE FreeSlots # {}
    <3>1. First(FreeSlots) \in FreeSlots
      <4>1. FreeSlots \subseteq Nat BY DEF FreeSlots
      <4> QED BY <2>1, <4>1, FirstIn
    <3>2. PICK k \in 1..Len(shms) : k = First(FreeSlots) /\ ~shms[k].valid
      BY <3>1 DEF FreeSlots
    <3>3. shms' = [shms EXCEPT ![k].valid = ok]
      BY <2>1, <3>2 DEF ShmgetCreate
    <3>4. PICK e : e = [shms[k] EXCEPT !.valid = ok]
      OBVIOUS
    <3>5. shms[k] \in Shm BY <1>0
    <3>6. e \in Shm /\ e.rmid_pending = shms[k].rmid_pending
      BY <3>4, <3>5 DEF Shm
    <3>7. ~shms[k].rmid_pending
      BY <1>0, <3>2 DEF Removable
    <3>8. shms' = [shms EXCEPT ![k] = e]
      BY <3>3, <3>4
    <3>9. shms' \in Seq(Shm) /\ Len(shms') = Len(shms)
      BY <1>0, <3>6, <3>8
    <3>10. shms'[k] = e /\ \A i \in 1..Len(shms) : i # k => shms'[i] = shms[i]
      BY <1>0, <3>8
    <3>11. Removable(shms')
      BY <1>0, <3>6, <3>7, <3>9, <3>10 DEF Removable
    <3>12. \A i \in 1..Len(shms) : Valid(i) => shms'[i] = shms[i]
      BY <3>2, <3>10 DEF Valid
    <3> QED BY <1>0, <3>9, <3>11, <3>12
  <2>2. CASE FreeSlots = {}
    <3>1. PICK e : e = [valid |-> ok, rmid_pending |-> FALSE, generation |-> 0]
      OBVIOUS
    <3>2. e \in Shm /\ ~e.rmid_pending
      BY <3>1, ShmAssumption DEF Shm
    <3>3. shms' = Append(shms, e) /\ Len(shms) < MaxShms
      BY <2>2, <3>1 DEF ShmgetCreate
    <3>4. /\ shms' \in Seq(Shm) /\ Len(shms') = Len(shms) + 1
          /\ shms'[Len(shms) + 1] = e
          /\ \A i \in 1..Len(shms) : shms'[i] = shms[i]
      BY <1>0, <3>2, <3>3
    <3>5. \A i \in 1..Len(shms') : i \in 1..Len(shms) \/ i = Len(shms) + 1
      BY <1>0, <3>4
    <3>6. Removable(shms')
      BY <1>0, <3>2, <3>4, <3>5 DEF Removable
    <3> QED BY <1>0, <3>3, <3>4, <3>6, ShmAssumption
  <2> QED BY <2>1, <2>2
<1>2. "OK" \in Statuses
  BY DEF Statuses
<1>3. CanCall(t) /\ SyscallCommon(t, config[t], "OK", sigsys)
  BY DEF ShmgetCreate
<1>4. UNCHANGED <<process, mapped_shms, requests, backlog, inbox, mem_fd, regions,
                  pending, aborted>>
  BY DEF ShmgetCreate
<1>5. IpcTypeOK' /\ Fits' /\ HelperFrame /\ CountFrame
  BY <1>0, <1>1, <1>2, <1>3, <1>4, CallerConfig, HandlerStep
<1>6. WaitInv'
  <2>1. /\ mapped_shms' \in [Tracees -> Seq(Mapping)]
        /\ regions' \in [Tracees -> SUBSET Region] /\ pending' \in [Tracees -> Calls]
    BY <1>4 DEF WaitInv, MemTypeOK
  <2> QED BY <1>1, <1>4, <1>5, <2>1, SlotStep
<1> QED BY <1>1, <1>5, <1>6

(* A step that leaves shared memory alone.                                 *)
LEMMA IdleStep ==
  ASSUME WaitInv, UNCHANGED shmVars, IpcTypeOK', Fits'
  PROVE  WaitInv'
<1>1. MemTypeOK' /\ Removable(shms')
  BY DEF WaitInv, MemTypeOK, shmVars
<1> QED BY <1>1 DEF WaitInv

(* Calls that only report.                                                 *)
LEMMA QueryStep ==
  ASSUME WaitInv, NEW t \in Tracees, NEW sigsys \in BOOLEAN, Query(t, sigsys)
  PROVE  WaitInv' /\ HelperFrame /\ CountFrame /\ UNCHANGED shmVars
<1>1. /\ CanCall(t) /\ SyscallCommon(t, config[t], "OK", sigsys)
      /\ UNCHANGED shmVars /\ "OK" \in Statuses
  BY DEF Query, Statuses
<1>2. UNCHANGED mem_fd /\ Len(shms) <= Len(shms') /\ Len(shms') \in Nat
  BY <1>1 DEF shmVars, WaitInv, MemTypeOK
<1>3. IpcTypeOK' /\ Fits' /\ HelperFrame /\ CountFrame
  BY <1>1, <1>2, CallerConfig, HandlerStep
<1> QED BY <1>1, <1>3, IdleStep

(* shmctl(IPC_RMID).                                                       *)
LEMMA RmidStep ==
  ASSUME WaitInv, NEW t \in Tracees, NEW sigsys \in BOOLEAN, NEW i \in 1..Len(shms),
         ShmctlRmid(t, sigsys, i)
  PROVE  /\ WaitInv' /\ HelperFrame /\ CountFrame
         /\ Len(shms') = Len(shms)
         /\ \A j \in 1..Len(shms) : MapsOf(mapped_shms, j) # {} =>
              /\ shms'[j].valid = shms[j].valid
              /\ shms'[j].generation = shms[j].generation
<1>0. shms \in Seq(Shm) /\ Len(shms) \in Nat /\ Len(shms) <= MaxShms /\ Removable(shms)
  BY DEF WaitInv, MemTypeOK
<1>1. PICK e : e = [shms[i] EXCEPT !.rmid_pending = TRUE]
  OBVIOUS
<1>2. PICK s : s = [shms EXCEPT ![i] = e]
  OBVIOUS
<1>3. shms' = DoRmid(s, mapped_shms)
  BY <1>1, <1>2 DEF ShmctlRmid
<1>4. e \in Shm /\ e.valid = shms[i].valid /\ e.generation = shms[i].generation
  <2>1. shms[i] \in Shm BY <1>0
  <2> QED BY <1>1, <2>1 DEF Shm
<1>5. /\ s \in Seq(Shm) /\ Len(s) = Len(shms) /\ s[i] = e
      /\ \A j \in 1..Len(shms) : j # i => s[j] = shms[j]
  BY <1>0, <1>2, <1>4
<1>6. Removable(s)
  BY <1>0, <1>4, <1>5 DEF Removable, ShmctlRmid, Valid
<1>7. /\ shms' \in Seq(Shm) /\ Len(shms') = Len(s) /\ Removable(shms')
      /\ \A j \in 1..Len(s) : MapsOf(mapped_shms, j) # {} => shms'[j] = s[j]
  BY <1>3, <1>5, <1>6, DoRmidFacts
<1>8. CanCall(t) /\ SyscallCommon(t, config[t], "OK", sigsys) /\ "OK" \in Statuses
  BY DEF ShmctlRmid, Statuses
<1>9. UNCHANGED <<process, mapped_shms, requests, backlog, inbox, mem_fd, regions,
                  pending, aborted>>
  BY DEF ShmctlRmid
<1>10. Len(shms) <= Len(shms') /\ Len(shms') \in Nat
  BY <1>0, <1>5, <1>7
<1>11. IpcTypeOK' /\ Fits' /\ HelperFrame /\ CountFrame
  BY <1>8, <1>9, <1>10, CallerConfig, HandlerStep
<1>12. WaitInv'
  <2>1. /\ mapped_shms' \in [Tracees -> Seq(Mapping)]
        /\ regions' \in [Tracees -> SUBSET Region] /\ pending' \in [Tracees -> Calls]
    BY <1>9 DEF WaitInv, MemTypeOK
  <2> QED BY <1>0, <1>5, <1>7, <1>9, <1>10, <1>11, <2>1, SlotStep
<1> QED BY <1>4, <1>5, <1>7, <1>11, <1>12

(* The mappings of one process become q, and what that leaves unmapped is  *)
(* freed.                                                                  *)
LEMMA UnmapStep ==
  ASSUME WaitInv, NEW p \in Tracees, NEW q \in Seq(Mapping),
         mapped_shms' = [mapped_shms EXCEPT ![p] = q],
         shms' = DoRmid(shms, mapped_shms')
  PROVE  /\ mapped_shms' \in [Tracees -> Seq(Mapping)]
         /\ mapped_shms'[p] = q
         /\ \A s \in Tracees : s # p => mapped_shms'[s] = mapped_shms[s]
         /\ shms' \in Seq(Shm) /\ Len(shms') = Len(shms) /\ Removable(shms')
         /\ Len(shms) \in Nat /\ Len(shms) <= MaxShms
         /\ \A j \in 1..Len(shms) : MapsOf(mapped_shms', j) # {} => shms'[j] = shms[j]
<1>1. /\ shms \in Seq(Shm) /\ Len(shms) \in Nat /\ Len(shms) <= MaxShms /\ Removable(shms)
      /\ mapped_shms \in [Tracees -> Seq(Mapping)]
  BY DEF WaitInv, MemTypeOK
<1>2. /\ mapped_shms' \in [Tracees -> Seq(Mapping)] /\ mapped_shms'[p] = q
      /\ \A s \in Tracees : s # p => mapped_shms'[s] = mapped_shms[s]
  BY <1>1
<1>3. /\ shms' \in Seq(Shm) /\ Len(shms') = Len(shms) /\ Removable(shms')
      /\ \A j \in 1..Len(shms) : MapsOf(mapped_shms', j) # {} => shms'[j] = shms[j]
  BY <1>1, DoRmidFacts
<1> QED BY <1>1, <1>2, <1>3

(* shmdt.                                                                  *)
LEMMA ShmdtStep ==
  ASSUME WaitInv, NEW t \in Tracees, NEW sigsys \in BOOLEAN, NEW addr \in DetachAddrs,
         Shmdt(t, sigsys, addr)
  PROVE  /\ WaitInv' /\ HelperFrame /\ CountFrame
         /\ process[t] \in Tracees
         /\ \E k \in 1..Len(mapped_shms[process[t]]) :
              /\ mapped_shms[process[t]][k].addr = addr
              /\ mapped_shms' = [mapped_shms EXCEPT ![process[t]] = Unlink(@, k)]
         /\ shms' = DoRmid(shms, mapped_shms')
<1> DEFINE p == process[t]
           K == {k \in 1..Len(mapped_shms[p]) : mapped_shms[p][k].addr = addr}
<1>1. p \in Tracees /\ mapped_shms \in [Tracees -> Seq(Mapping)]
  BY DEF WaitInv, MemTypeOK
<1>2. First(K) \in K
  <2>1. K # {} BY DEF Shmdt
  <2>2. K \subseteq Nat OBVIOUS
  <2> HIDE DEF K
  <2> QED BY <2>1, <2>2, FirstIn
<1>3. PICK k \in 1..Len(mapped_shms[p]) : k = First(K) /\ mapped_shms[p][k].addr = addr
  BY <1>2
<1>4. PICK q : q = Unlink(mapped_shms[p], k)
  OBVIOUS
<1>5. /\ mapped_shms' = [mapped_shms EXCEPT ![p] = Unlink(@, k)]
      /\ shms' = DoRmid(shms, mapped_shms')
      /\ pending' = [pending EXCEPT ![t] = [call |-> "munmap", addr |-> addr]]
      /\ CanCall(t)
      /\ SyscallCommon(t, [config[t] EXCEPT !.chain_state = "CSTATE_SINGLE"], "OK", sigsys)
      /\ UNCHANGED <<process, requests, backlog, inbox, mem_fd, regions, aborted>>
  BY <1>3 DEF Shmdt
<1>6. mapped_shms' = [mapped_shms EXCEPT ![p] = q]
  BY <1>4, <1>5
<1>7. q \in Seq(Mapping)
  <2>1. mapped_shms[p] \in Seq(Mapping) BY <1>1
  <2> QED BY <2>1, <1>4, UnlinkType
<1> HIDE DEF K
<1>8. /\ mapped_shms' \in [Tracees -> Seq(Mapping)]
      /\ shms' \in Seq(Shm) /\ Len(shms') = Len(shms) /\ Removable(shms')
      /\ Len(shms) \in Nat /\ Len(shms) <= MaxShms
  BY <1>1, <1>5, <1>6, <1>7, UnmapStep
<1>9. PICK c : c = [config[t] EXCEPT !.chain_state = "CSTATE_SINGLE"]
  OBVIOUS
<1>10. /\ c \in Configs /\ c.wait_state = "WSTATE_NOT_WAITING"
       /\ c.wait_reason = "WR_NOT_WAITING" /\ c.chain_state = "CSTATE_SINGLE"
  BY <1>5, <1>9, CallerConfig DEF Configs, ChainStates
<1>11. "OK" \in Statuses
  BY DEF Statuses
<1>12. IpcTypeOK' /\ Fits' /\ HelperFrame /\ CountFrame
  <2>1. SyscallCommon(t, c, "OK", sigsys) /\ UNCHANGED mem_fd
    BY <1>5, <1>9
  <2>2. Len(shms) <= Len(shms') /\ Len(shms') \in Nat
    BY <1>8
  <2> QED BY <1>5, <1>10, <1>11, <2>1, <2>2, HandlerStep
<1>13. regions' \in [Tracees -> SUBSET Region] /\ pending' \in [Tracees -> Calls]
  <2>1. PICK d : d = [call |-> "munmap", addr |-> addr]
    OBVIOUS
  <2>2. d \in Calls
    BY <2>1, ShmAssumption DEF Calls
  <2>3. pending' = [pending EXCEPT ![t] = d]
    BY <1>5, <2>1
  <2> QED BY <1>5, <2>2, <2>3 DEF WaitInv, MemTypeOK
<1>14. WaitInv'
  <2>1. Len(shms') >= Len(shms) /\ Len(shms') <= MaxShms
    BY <1>8
  <2> QED BY <1>5, <1>8, <1>12, <1>13, <2>1, SlotStep
<1>15. \E j \in 1..Len(mapped_shms[p]) :
         /\ mapped_shms[p][j].addr = addr
         /\ mapped_shms' = [mapped_shms EXCEPT ![p] = Unlink(@, j)]
  BY <1>3, <1>5
<1> QED BY <1>1, <1>5, <1>12, <1>14, <1>15

(* shmat: the caller's process gets a pending mapping, the caller waits    *)
(* for the helper or starts its chain.                                     *)
LEMMA ShmatStep ==
  ASSUME WaitInv, NEW t \in Tracees, NEW sigsys \in BOOLEAN, NEW i \in 1..Len(shms),
         Shmat(t, sigsys, i)
  PROVE  /\ WaitInv' /\ HelperFrame
         /\ ~Attaches(t) /\ Attaches(t)' /\ config'[t].waiting_object_index = i
         /\ \A s \in Tracees : s # t => (Attaches(s)' <=> Attaches(s))
                                        /\ config'[s] = config[s]
         /\ process[t] \in Tracees /\ i \in 1..MaxShms
         /\ mapped_shms' = [mapped_shms EXCEPT ![process[t]] =
                              <<[shm_index |-> i, addr |-> 0, size |-> 0]>> \o @]
<1>0. /\ CanCall(t) /\ Valid(i)
      /\ mapped_shms' = [mapped_shms EXCEPT ![process[t]] =
                           <<[shm_index |-> i, addr |-> 0, size |-> 0]>> \o @]
      /\ UNCHANGED <<shms, process, requests, backlog, inbox, mem_fd, regions, pending,
                     aborted>>
  BY DEF Shmat
<1>1. /\ config[t] \in Configs /\ config[t].wait_state = "WSTATE_NOT_WAITING"
      /\ config[t].wait_reason = "WR_NOT_WAITING"
      /\ config[t].chain_state = "CSTATE_NOT_CHAINED"
      /\ ~Chaining(config[t]) /\ ~Asleep(config[t])
  BY <1>0, CallerConfig
<1>2. PICK c : c = IF HelperBusy
                   THEN [config[t] EXCEPT !.waiting_object_index = i,
                                          !.wait_reason = Busy]
                   ELSE [config[t] EXCEPT !.waiting_object_index = i,
                                          !.chain_state = "CSTATE_SHMAT_SOCKET"]
  OBVIOUS
<1>3. SyscallCommon(t, c, "OK", sigsys)
  BY <1>2 DEF Shmat, Busy
<1>4. /\ c \in Configs /\ c.wait_state = "WSTATE_NOT_WAITING"
      /\ c.waiting_object_index = i
      /\ \/ c.wait_reason = Busy /\ c.chain_state = "CSTATE_NOT_CHAINED"
         \/ c.wait_reason = "WR_NOT_WAITING" /\ c.chain_state = "CSTATE_SHMAT_SOCKET"
  <2>1. i \in Nat OBVIOUS
  <2> QED BY <1>1, <1>2, <2>1 DEF Configs, ChainStates, WaitReasons, Busy
<1>5. PICK d : d = CommonConfig(c, "OK", sigsys)
  OBVIOUS
<1>6. PICK a : a = CommonAt(c, sigsys)
  OBVIOUS
<1>7. PICK slots : slots = Len(shms)
  OBVIOUS
<1>8. /\ d \in Configs /\ a \in Locations /\ Fit(d, a, slots, mem_fd[t])
      /\ a \notin {"none", "dead"} /\ d.waiting_object_index = i
      /\ d.chain_state \notin PastSocket /\ (Chaining(d) \/ Asleep(d))
  <2>1. "OK" \in Statuses /\ i \in 1..slots
    BY <1>7 DEF Statuses
  <2> QED BY <1>4, <1>5, <1>6, <2>1, ShmatConfig
<1>9. config' = [config EXCEPT ![t] = d] /\ at' = [at EXCEPT ![t] = a]
  BY <1>3, <1>5, <1>6 DEF SyscallCommon
<1>10. /\ tracees' \in Seq(Tracees)
       /\ sigstop' \in [Tracees -> {"SIGSTOP_IGNORED", "SIGSTOP_ALLOWED"}]
       /\ kick' \in [Tracees -> BOOLEAN]
  BY <1>3 DEF SyscallCommon, WaitInv, IpcTypeOK
<1>11. /\ Len(shms) <= Len(shms') /\ Len(shms') \in Nat
       /\ Fit(d, a, Len(shms'), mem_fd'[t])
       /\ \A s \in Tracees : s # t => mem_fd'[s] = mem_fd[s]
  BY <1>0, <1>7, <1>8 DEF WaitInv, MemTypeOK
<1>12. /\ IpcTypeOK' /\ Fits' /\ config'[t] = d /\ at'[t] = a
       /\ \A s \in Tracees : s # t => config'[s] = config[s] /\ at'[s] = at[s]
  <2>1. d \in Configs /\ a \in Locations
    BY <1>8
  <2>2. IpcTypeOK' /\ Fits'
    BY ONLY WaitInv, t \in Tracees, <2>1, <1>9, <1>10, <1>11, WaitStep, Zenon
  <2>3. config'[t] = d /\ at'[t] = a
    BY ONLY WaitInv, t \in Tracees, <2>1, <1>9 DEF WaitInv, IpcTypeOK
  <2>4. \A s \in Tracees : s # t => config'[s] = config[s] /\ at'[s] = at[s]
    BY ONLY WaitInv, t \in Tracees, <2>1, <1>9 DEF WaitInv, IpcTypeOK
  <2> QED BY <2>2, <2>3, <2>4
<1>13. i \in 1..MaxShms /\ process[t] \in Tracees
  BY ShmAssumption DEF WaitInv, MemTypeOK
<1>14. mapped_shms' \in [Tracees -> Seq(Mapping)]
  <2>1. PICK e : e = [shm_index |-> i, addr |-> 0, size |-> 0]
    OBVIOUS
  <2>2. e \in Mapping
    BY <1>13, <2>1, ShmAssumption DEF Mapping, MmapError
  <2>3. mapped_shms \in [Tracees -> Seq(Mapping)]
    BY DEF WaitInv, MemTypeOK
  <2>4. mapped_shms' = [mapped_shms EXCEPT ![process[t]] = <<e>> \o @]
    BY <1>0, <2>1
  <2>5. <<e>> \o mapped_shms[process[t]] \in Seq(Mapping)
    BY <1>13, <2>2, <2>3
  <2> QED BY <2>3, <2>4, <2>5
<1>15. WaitInv'
  <2>1. MemTypeOK' /\ Removable(shms')
    BY <1>0, <1>14 DEF WaitInv, MemTypeOK
  <2> QED BY <1>12, <2>1 DEF WaitInv
<1>16. HelperFrame
  BY <1>0, <1>12 DEF HelperFrame, CanCall
<1>17. ~Attaches(t) /\ Attaches(t)'
  BY <1>1, <1>8, <1>12 DEF Attaches, Chaining, Asleep
<1>18. \A s \in Tracees : s # t => (Attaches(s)' <=> Attaches(s))
  BY <1>12 DEF Attaches
<1> QED BY <1>0, <1>8, <1>12, <1>13, <1>15, <1>16, <1>17, <1>18

(* The kernel queues a connection, the helper serves one, or PRoot aborts: *)
(* no tracee is stopped.                                                   *)
LEMMA HelperStep ==
  ASSUME WaitInv, \/ HelperDistribute
                  \/ \E t \in Tracees : KernelConnect(t) \/ ChainAborts(t)
  PROVE  WaitInv' /\ UNCHANGED ipcVars
<1>1. /\ UNCHANGED ipcVars
      /\ UNCHANGED <<shms, process, mapped_shms, mem_fd, regions, pending>>
  BY DEF HelperDistribute, KernelConnect, ChainAborts
<1>2. IpcTypeOK' /\ Fits'
  <2>1. Len(shms') \in Nat /\ Len(shms) <= Len(shms')
    BY <1>1 DEF WaitInv, MemTypeOK
  <2> QED BY <1>1, <2>1, QuietStep
<1> DEFINE Typed == /\ requests' \in Seq(Fds) /\ backlog' \in Seq(Tracees \cup {Closed})
                    /\ inbox' \in [Tracees -> Fds \cup {None}] /\ aborted' \in BOOLEAN
<1>3. Typed
  <2>0. /\ requests \in Seq(Fds) /\ backlog \in Seq(Tracees \cup {Closed})
        /\ inbox \in [Tracees -> Fds \cup {None}] /\ aborted \in BOOLEAN
    BY DEF WaitInv, MemTypeOK
  <2>1. CASE HelperDistribute
    <3>1. Head(requests) \in Fds /\ Tail(requests) \in Seq(Fds)
      BY <2>0, <2>1 DEF HelperDistribute
    <3>2. Head(backlog) \in Tracees \cup {Closed} /\ Tail(backlog) \in Seq(Tracees \cup {Closed})
      BY <2>0, <2>1 DEF HelperDistribute
    <3>3. inbox' \in [Tracees -> Fds \cup {None}]
      BY <2>0, <2>1, <3>1, <3>2 DEF HelperDistribute
    <3> QED BY <2>0, <2>1, <3>1, <3>2, <3>3 DEF HelperDistribute
  <2>2. ASSUME NEW t \in Tracees, KernelConnect(t) PROVE Typed
    BY <2>0, <2>2 DEF KernelConnect
  <2>3. ASSUME NEW t \in Tracees, ChainAborts(t) PROVE Typed
    BY <2>0, <2>3 DEF ChainAborts
  <2> QED BY <2>1, <2>2, <2>3
<1>4. MemTypeOK' /\ Removable(shms')
  BY <1>1, <1>3 DEF WaitInv, MemTypeOK
<1> QED BY <1>1, <1>2, <1>4 DEF WaitInv

Idle(c) ==
  c.wait_state = "WSTATE_NOT_WAITING" /\ c.chain_state = "CSTATE_NOT_CHAINED"

(* Tracees enter or leave a call without PRoot's doing, or die.            *)
LEMMA AtStep ==
  ASSUME WaitInv, UNCHANGED <<tracees, config, sigstop, mem_fd>>,
         kick' \in [Tracees -> BOOLEAN], at' \in [Tracees -> Locations],
         \A s \in Tracees : at'[s] # at[s] => at'[s] = "dead" \/ Idle(config[s]),
         Len(shms) <= Len(shms'), Len(shms') \in Nat
  PROVE  /\ IpcTypeOK' /\ Fits' /\ CountFrame
         /\ (\A s \in Tracees : at'[s] # at[s] => at'[s] # "dead") => HelperFrame
<1>1. IpcTypeOK'
  BY DEF WaitInv, IpcTypeOK
<1>2. ASSUME NEW s \in Tracees
      PROVE  Fit(config'[s], at'[s], Len(shms'), mem_fd'[s])
  <2>1. Fit(config[s], at[s], Len(shms), mem_fd[s]) /\ Len(shms) \in Nat
    BY FitsNow
  <2>2. config[s].waiting_object_index \in 1..Len(shms) =>
          config[s].waiting_object_index \in 1..Len(shms')
    BY <2>1
  <2>3. at'[s] = at[s] \/ at'[s] = "dead" \/ Idle(config[s])
    OBVIOUS
  <2> QED BY <2>1, <2>2, <2>3 DEF Fit, PastSocket, Idle
<1>3. CountFrame
  BY DEF CountFrame, Attaches, Idle, Chaining, Asleep
<1>4. (\A s \in Tracees : at'[s] # at[s] => at'[s] # "dead") => HelperFrame
  BY DEF HelperFrame, Idle
<1> QED BY <1>1, <1>2, <1>3, <1>4 DEF Fits

(* A caller is idle.                                                       *)
LEMMA CallerIdle ==
  ASSUME WaitInv, NEW t \in Tracees, CanCall(t) PROVE Idle(config[t])
BY CallerConfig DEF Idle

(* execve, as PRoot sees it: the mappings of the process go.               *)
LEMMA ExecveStep ==
  ASSUME WaitInv, NEW t \in Tracees, ExecveEnter(t)
  PROVE  WaitInv' /\ HelperFrame /\ CountFrame
<1>1. /\ mapped_shms' = [mapped_shms EXCEPT ![t] = <<>>]
      /\ shms' = DoRmid(shms, mapped_shms') /\ <<>> \in Seq(Mapping)
      /\ at' = [at EXCEPT ![t] = "kernel"] /\ CanCall(t)
      /\ pending' = [pending EXCEPT ![t] = [call |-> "execve"]]
      /\ UNCHANGED <<tracees, config, sigstop, kick>>
      /\ UNCHANGED <<process, requests, backlog, inbox, mem_fd, regions, aborted>>
  BY DEF ExecveEnter
<1>2. /\ mapped_shms' \in [Tracees -> Seq(Mapping)]
      /\ shms' \in Seq(Shm) /\ Len(shms') = Len(shms) /\ Removable(shms')
      /\ Len(shms) \in Nat /\ Len(shms) <= MaxShms
  BY <1>1, UnmapStep
<1>3. Len(shms) <= Len(shms') /\ Len(shms') \in Nat /\ Len(shms') <= MaxShms
  BY <1>2
<1>4. /\ at' \in [Tracees -> Locations] /\ kick' \in [Tracees -> BOOLEAN]
      /\ \A s \in Tracees : at'[s] # at[s] => s = t /\ at'[s] = "kernel"
  BY <1>1 DEF WaitInv, IpcTypeOK, Locations
<1>5. IpcTypeOK' /\ Fits' /\ HelperFrame /\ CountFrame
  <2>1. Idle(config[t]) BY <1>1, CallerIdle
  <2> QED BY <1>1, <1>3, <1>4, <2>1, AtStep
<1>6. regions' \in [Tracees -> SUBSET Region] /\ pending' \in [Tracees -> Calls]
  <2>1. [call |-> "execve"] \in Calls BY DEF Calls
  <2> QED BY <1>1, <2>1 DEF WaitInv, MemTypeOK
<1> QED BY <1>1, <1>2, <1>3, <1>5, <1>6, SlotStep

(* Segments, mappings and the helper are left alone.                       *)
LEMMA KernelStep ==
  ASSUME WaitInv, IpcTypeOK', Fits', pending' \in [Tracees -> Calls],
         regions' \in [Tracees -> SUBSET Region],
         backlog' \in Seq(Tracees \cup {Closed}), inbox' \in [Tracees -> Fds \cup {None}],
         UNCHANGED <<shms, process, mapped_shms, requests, mem_fd, aborted>>
  PROVE  WaitInv'
BY DEF WaitInv, MemTypeOK

(* clone, in the kernel.                                                   *)
LEMMA CloneStep ==
  ASSUME WaitInv, NEW parent \in Tracees, NEW child \in Tracees,
         NEW thread \in BOOLEAN, KernelClone(parent, child, thread)
  PROVE  WaitInv' /\ HelperFrame /\ CountFrame
<1>1. PICK g : g = IF thread THEN {} ELSE regions[process[parent]]
  OBVIOUS
<1>2. PICK d : d = [call |-> "clone", child |-> child, thread |-> thread, regions |-> g]
  OBVIOUS
<1>3. /\ at' = [at EXCEPT ![parent] = "kernel"] /\ CanCall(parent)
      /\ pending' = [pending EXCEPT ![parent] = d]
      /\ UNCHANGED <<tracees, config, sigstop, kick>>
      /\ UNCHANGED <<shms, process, mapped_shms, requests, backlog, inbox, mem_fd,
                     regions, aborted>>
  BY <1>1, <1>2 DEF KernelClone
<1>4. /\ at' \in [Tracees -> Locations] /\ kick' \in [Tracees -> BOOLEAN]
      /\ \A s \in Tracees : at'[s] # at[s] => s = parent /\ at'[s] = "kernel"
  BY <1>3 DEF WaitInv, IpcTypeOK, Locations
<1>5. Len(shms) <= Len(shms') /\ Len(shms') \in Nat
  BY <1>3 DEF WaitInv, MemTypeOK
<1>6. IpcTypeOK' /\ Fits' /\ HelperFrame /\ CountFrame
  <2>1. Idle(config[parent]) BY <1>3, CallerIdle
  <2> QED BY <1>3, <1>4, <1>5, <2>1, AtStep
<1>7. pending' \in [Tracees -> Calls]
  <2>1. g \in SUBSET Region BY <1>1 DEF WaitInv, MemTypeOK
  <2>2. d \in [call : {"clone"}, child : Tracees, thread : BOOLEAN, regions : SUBSET Region]
    BY <1>2, <2>1
  <2>3. d \in Calls BY <2>2 DEF Calls
  <2> QED BY <1>3, <2>3 DEF WaitInv, MemTypeOK
<1>8. /\ regions' \in [Tracees -> SUBSET Region]
      /\ backlog' \in Seq(Tracees \cup {Closed}) /\ inbox' \in [Tracees -> Fds \cup {None}]
  BY <1>3 DEF WaitInv, MemTypeOK
<1> QED BY <1>3, <1>6, <1>7, <1>8, KernelStep

(* The kernel refuses an execve.                                           *)
LEMMA RefusedStep ==
  ASSUME WaitInv, PendInv, NEW t \in Tracees, ExecveRefused(t)
  PROVE  WaitInv' /\ HelperFrame /\ CountFrame
<1>1. /\ at' = [at EXCEPT ![t] = "user"] /\ pending[t].call = "execve"
      /\ pending' = [pending EXCEPT ![t] = NoCall]
      /\ UNCHANGED <<tracees, config, sigstop, kick>>
      /\ UNCHANGED <<shms, process, mapped_shms, requests, backlog, inbox, mem_fd,
                     regions, aborted>>
  BY DEF ExecveRefused
<1>2. Idle(config[t])
  BY <1>1 DEF PendInv, InCall, Idle, NoCall
<1>3. /\ at' \in [Tracees -> Locations] /\ kick' \in [Tracees -> BOOLEAN]
      /\ \A s \in Tracees : at'[s] # at[s] => s = t /\ at'[s] = "user"
  BY <1>1 DEF WaitInv, IpcTypeOK, Locations
<1>4. Len(shms) <= Len(shms') /\ Len(shms') \in Nat
  BY <1>1 DEF WaitInv, MemTypeOK
<1>5. IpcTypeOK' /\ Fits' /\ HelperFrame /\ CountFrame
  BY <1>1, <1>2, <1>3, <1>4, AtStep
<1>6. pending' \in [Tracees -> Calls]
  <2>1. NoCall \in Calls BY DEF Calls
  <2> QED BY <1>1, <2>1 DEF WaitInv, MemTypeOK
<1>7. /\ regions' \in [Tracees -> SUBSET Region]
      /\ backlog' \in Seq(Tracees \cup {Closed}) /\ inbox' \in [Tracees -> Fds \cup {None}]
  BY <1>1 DEF WaitInv, MemTypeOK
<1> QED BY <1>1, <1>5, <1>6, <1>7, KernelStep

(* A thread ends.                                                          *)
LEMMA ExitStep ==
  ASSUME WaitInv, NEW t \in Tracees, Exit(t)
  PROVE  /\ WaitInv' /\ HelperFrame /\ CountFrame /\ UNCHANGED shmVars
         /\ config' = config /\ at'[t] = "dead"
         /\ \A s \in Tracees : s # t => at'[s] = at[s]
<1>1. /\ at' = [at EXCEPT ![t] = "dead"] /\ CanCall(t)
      /\ UNCHANGED <<tracees, config, sigstop, kick>> /\ UNCHANGED shmVars
  BY DEF Exit
<1>2. /\ at' \in [Tracees -> Locations] /\ kick' \in [Tracees -> BOOLEAN]
      /\ at'[t] = "dead" /\ \A s \in Tracees : s # t => at'[s] = at[s]
  BY <1>1 DEF WaitInv, IpcTypeOK, Locations
<1>3. Len(shms) <= Len(shms') /\ Len(shms') \in Nat /\ mem_fd' = mem_fd
  BY <1>1 DEF WaitInv, MemTypeOK, shmVars
<1>4. IpcTypeOK' /\ Fits' /\ CountFrame
  <2>1. \A s \in Tracees : at'[s] # at[s] => at'[s] = "dead"
    BY <1>2
  <2> QED BY <1>1, <1>2, <1>3, <2>1, AtStep
<1>5. HelperFrame
  BY <1>1, <1>2 DEF HelperFrame, CanCall
<1>6. WaitInv'
  BY <1>1, <1>4, IdleStep
<1> QED BY <1>1, <1>2, <1>4, <1>5, <1>6

(* munmap, in the kernel.                                                  *)
LEMMA MunmapStep ==
  ASSUME WaitInv, NEW t \in Tracees, KernelMunmap(t)
  PROVE  WaitInv' /\ UNCHANGED ipcVars
<1>1. /\ UNCHANGED ipcVars /\ pending' = [pending EXCEPT ![t] = NoCall]
      /\ regions' = [regions EXCEPT ![process[t]] = {r \in @ : r.addr # pending[t].addr}]
      /\ UNCHANGED <<shms, process, mapped_shms, requests, backlog, inbox, mem_fd, aborted>>
  BY DEF KernelMunmap
<1>2. IpcTypeOK' /\ Fits'
  <2>1. Len(shms') \in Nat /\ Len(shms) <= Len(shms')
    BY <1>1 DEF WaitInv, MemTypeOK
  <2> QED BY <1>1, <2>1, QuietStep
<1>3. pending' \in [Tracees -> Calls] /\ regions' \in [Tracees -> SUBSET Region]
  <2>1. NoCall \in Calls BY DEF Calls
  <2> QED BY <1>1, <2>1 DEF WaitInv, MemTypeOK
<1>4. backlog' \in Seq(Tracees \cup {Closed}) /\ inbox' \in [Tracees -> Fds \cup {None}]
  BY <1>1 DEF WaitInv, MemTypeOK
<1> QED BY <1>1, <1>2, <1>3, <1>4, KernelStep

(* The descriptor of a segment.                                            *)
LEMMA FdType ==
  ASSUME WaitInv, NEW i \in 1..Len(shms)
  PROVE  Fd(i) \in Fds
<1>1. shms[i] \in Shm /\ Len(shms) <= MaxShms
  BY DEF WaitInv, MemTypeOK
<1>2. i \in 1..MaxShms
  BY <1>1, ShmAssumption DEF WaitInv, MemTypeOK
<1> QED BY <1>1, <1>2 DEF Fd, Fds, Shm

(* connect() and recvmsg() return.                                         *)
LEMMA ReturnStep ==
  ASSUME WaitInv, NEW t \in Tracees, ExitConnect(t) \/ ExitRecvmsg(t)
  PROVE  /\ WaitInv' /\ CountFrame
         /\ at' = at
         /\ config'[t].chain_state = IF ExitConnect(t) THEN "CSTATE_SHMAT_RECVMSG"
                                     ELSE "CSTATE_SHMAT_MMAP"
         /\ \A s \in Tracees : s # t => config'[s] = config[s]
<1> DEFINE next == IF ExitConnect(t) THEN "CSTATE_SHMAT_RECVMSG" ELSE "CSTATE_SHMAT_MMAP"
           c == [config[t] EXCEPT !.chain_state = next]
<1>1. /\ Fit(config[t], at[t], Len(shms), mem_fd[t])
      /\ config[t] \in Configs /\ Len(shms) \in Nat
  BY FitsNow
<1>2. /\ at[t] = "kernel" /\ config[t].wait_state = "WSTATE_NOT_WAITING"
      /\ config[t].chain_state \in {"CSTATE_SHMAT_CONNECT", "CSTATE_SHMAT_RECVMSG"}
  BY DEF ExitConnect, ExitRecvmsg, InChain
<1>3. /\ config' = [config EXCEPT ![t] = c] /\ at' = at
      /\ UNCHANGED <<tracees, sigstop, kick, shms>>
  <2>1. CASE ExitConnect(t)
    BY <2>1 DEF ExitConnect, Advance
  <2>2. CASE ~ExitConnect(t)
    BY <2>2 DEF ExitRecvmsg, Advance
  <2> QED BY <2>1, <2>2
<1>4. /\ ExitConnect(t) => requests' \in Seq(Fds) /\ UNCHANGED <<inbox, mem_fd>>
      /\ ~ExitConnect(t) => /\ inbox' \in [Tracees -> Fds \cup {None}]
                            /\ UNCHANGED requests
                            /\ mem_fd' \in [Tracees -> Fds \cup {None}]
                            /\ mem_fd'[t] \in Fds
                            /\ \A s \in Tracees : s # t => mem_fd'[s] = mem_fd[s]
  <2>0. /\ requests \in Seq(Fds) /\ inbox \in [Tracees -> Fds \cup {None}]
        /\ mem_fd \in [Tracees -> Fds \cup {None}]
    BY DEF WaitInv, MemTypeOK
  <2>1. CASE ExitConnect(t)
    <3>1. config[t].waiting_object_index \in 1..Len(shms)
      BY <1>1, <2>1 DEF ExitConnect, InChain, Fit, Chaining
    <3>2. Fd(config[t].waiting_object_index) \in Fds
      BY <3>1, FdType
    <3> QED BY <2>0, <2>1, <3>2 DEF ExitConnect
  <2>2. CASE ~ExitConnect(t)
    BY <2>0, <2>2 DEF ExitRecvmsg
  <2> QED BY <2>1, <2>2
<1>5. /\ c \in Configs /\ c.chain_state = next
      /\ c.waiting_object_index = config[t].waiting_object_index
      /\ Chaining(c) /\ ~Asleep(c)
      /\ c.wait_reason = "WR_NOT_WAITING" /\ c.wait_state = "WSTATE_NOT_WAITING"
      /\ c.waiting_object_index \in 1..Len(shms)
  <2> HIDE DEF next
  <2>1. next \in {"CSTATE_SHMAT_RECVMSG", "CSTATE_SHMAT_MMAP"} BY DEF next
  <2>2. ~Asleep(config[t]) /\ config[t].wait_reason = "WR_NOT_WAITING"
    BY <1>1, <1>2 DEF Fit, Asleep
  <2>3. config[t].waiting_object_index \in 1..Len(shms)
    BY <1>1, <1>2 DEF Fit, Chaining
  <2> QED BY <1>1, <1>2, <2>1, <2>2, <2>3 DEF Configs, ChainStates, Chaining, Asleep
<1>6. Fit(c, "kernel", Len(shms'), mem_fd'[t])
  <2>1. c.chain_state = "CSTATE_SHMAT_MMAP" => mem_fd'[t] \in Fds
    BY <1>4, <1>5
  <2> HIDE DEF c, next
  <2> QED BY <1>3, <1>5, <2>1 DEF Fit, PastSocket, Busy
<1>7. /\ at' = [at EXCEPT ![t] = "kernel"] /\ "kernel" \in Locations
      /\ tracees' \in Seq(Tracees)
      /\ sigstop' \in [Tracees -> {"SIGSTOP_IGNORED", "SIGSTOP_ALLOWED"}]
      /\ kick' \in [Tracees -> BOOLEAN]
  BY <1>2, <1>3 DEF WaitInv, IpcTypeOK, Locations
<1>8. /\ Len(shms) <= Len(shms') /\ Len(shms') \in Nat
      /\ \A s \in Tracees : s # t => mem_fd'[s] = mem_fd[s]
  BY <1>1, <1>3, <1>4
<1> HIDE DEF c
<1>9. IpcTypeOK' /\ Fits' /\ config'[t] = c
        /\ \A s \in Tracees : s # t => config'[s] = config[s]
  <2>1. c \in Configs BY <1>5
  <2>2. IpcTypeOK' /\ Fits'
    BY ONLY WaitInv, t \in Tracees, <2>1, <1>3, <1>6, <1>7, <1>8, WaitStep, Zenon
  <2> QED BY <2>1, <2>2, <1>3 DEF WaitInv, IpcTypeOK
<1>10. MemTypeOK' /\ Removable(shms')
  <2>1. /\ requests' \in Seq(Fds) /\ inbox' \in [Tracees -> Fds \cup {None}]
        /\ mem_fd' \in [Tracees -> Fds \cup {None}]
    BY <1>4 DEF WaitInv, MemTypeOK
  <2>2. UNCHANGED <<shms, process, mapped_shms, backlog, regions, pending, aborted>>
    BY DEF ExitConnect, ExitRecvmsg
  <2> QED BY <2>1, <2>2 DEF WaitInv, MemTypeOK
<1>11. CountFrame
  <2>1. Attaches(t)
    BY <1>2 DEF Attaches, Chaining
  <2> QED BY <1>3, <1>5, <1>9, <2>1 DEF CountFrame, Attaches
<1> QED BY <1>3, <1>5, <1>9, <1>10, <1>11 DEF WaitInv

(* mmap, in the kernel: the memory is mapped where nothing was, or not.    *)
LEMMA MmapStep ==
  ASSUME WaitInv, NEW t \in Tracees, KernelMmap(t)
  PROVE  /\ WaitInv' /\ UNCHANGED ipcVars
         /\ process[t] \in Tracees /\ config[t].waiting_object_index \in 1..Len(shms)
         /\ \E addr \in 1..MmapError :
              /\ pending' = [pending EXCEPT ![t] = [call |-> "mmap", addr |-> addr]]
              /\ \/ UNCHANGED regions
                 \/ regions' = [regions EXCEPT ![process[t]] = @ \cup
                      {[addr |-> addr, asked |-> Fd(config[t].waiting_object_index),
                        got |-> mem_fd[t]]}]
<1> DEFINE i == config[t].waiting_object_index
           Free == {a \in 1..MmapError : \A r \in regions[process[t]] : r.addr # a}
<1>1. PICK p \in Tracees : p = process[t]
  BY DEF WaitInv, MemTypeOK
<1>2. /\ InChain(t, "CSTATE_SHMAT_MMAP") /\ UNCHANGED ipcVars
      /\ UNCHANGED <<shms, process, mapped_shms, requests, backlog, inbox, mem_fd, aborted>>
      /\ \/ /\ First(Free) <= MaxAddr
            /\ pending' = [pending EXCEPT ![t] = [call |-> "mmap", addr |-> First(Free)]]
            /\ regions' = [regions EXCEPT ![p] = @ \cup
                 {[addr |-> First(Free), asked |-> Fd(i), got |-> mem_fd[t]]}]
         \/ /\ pending' = [pending EXCEPT ![t] = [call |-> "mmap", addr |-> MmapError]]
            /\ UNCHANGED regions
  BY <1>1 DEF KernelMmap, FreeAddr
<1>3. MmapError = MaxAddr + 1 /\ MaxAddr \in Nat
  BY ShmAssumption DEF MmapError
<1>4. i \in 1..Len(shms) /\ mem_fd[t] \in Fds
  <2>1. Fit(config[t], at[t], Len(shms), mem_fd[t])
    BY FitsNow
  <2> QED BY <1>2, <2>1 DEF InChain, Fit, Chaining
<1>5. Fd(i) \in Fds
  BY <1>4, FdType
<1>6. IpcTypeOK' /\ Fits'
  <2>1. Len(shms') \in Nat /\ Len(shms) <= Len(shms')
    BY <1>2 DEF WaitInv, MemTypeOK
  <2> QED BY <1>2, <2>1, QuietStep
<1>7. backlog' \in Seq(Tracees \cup {Closed}) /\ inbox' \in [Tracees -> Fds \cup {None}]
  BY <1>2 DEF WaitInv, MemTypeOK
<1>8. ASSUME NEW addr \in 1..MmapError, NEW d, d = [call |-> "mmap", addr |-> addr],
             pending' = [pending EXCEPT ![t] = d],
             regions' \in [Tracees -> SUBSET Region]
      PROVE  WaitInv'
  <2>1. d \in Calls BY <1>8 DEF Calls
  <2>2. pending' \in [Tracees -> Calls]
    BY <1>8, <2>1 DEF WaitInv, MemTypeOK
  <2> QED BY <1>2, <1>6, <1>7, <1>8, <2>2, KernelStep
<1>9. CASE /\ First(Free) <= MaxAddr
           /\ pending' = [pending EXCEPT ![t] = [call |-> "mmap", addr |-> First(Free)]]
           /\ regions' = [regions EXCEPT ![p] = @ \cup
                {[addr |-> First(Free), asked |-> Fd(i), got |-> mem_fd[t]]}]
  <2>1. First(Free) \in Free
    <3>1. MmapError \in Free
      <4>1. \A r \in regions[process[t]] : r \in Region
        BY <1>1 DEF WaitInv, MemTypeOK
      <4>2. \A r \in Region : r.addr # MmapError
        BY <1>3 DEF Region
      <4>3. MmapError \in 1..MmapError BY <1>3
      <4> QED BY <4>1, <4>2, <4>3
    <3>2. Free \subseteq Nat BY <1>3
    <3> HIDE DEF Free
    <3> QED BY <3>1, <3>2, FirstIn
  <2>2. PICK addr \in 1..MmapError : addr = First(Free)
    BY <2>1
  <2>3. addr \in 1..MaxAddr BY <1>3, <1>9, <2>2
  <2>4. PICK r : r = [addr |-> addr, asked |-> Fd(i), got |-> mem_fd[t]]
    OBVIOUS
  <2>5. r \in Region BY <1>4, <1>5, <2>3, <2>4 DEF Region
  <2>6. regions' = [regions EXCEPT ![p] = @ \cup {r}]
    BY <1>9, <2>2, <2>4
  <2>7. regions' \in [Tracees -> SUBSET Region]
    BY <2>5, <2>6 DEF WaitInv, MemTypeOK
  <2>8. /\ pending' = [pending EXCEPT ![t] = [call |-> "mmap", addr |-> addr]]
        /\ regions' = [regions EXCEPT ![process[t]] = @ \cup
             {[addr |-> addr, asked |-> Fd(i), got |-> mem_fd[t]]}]
    BY <1>1, <1>9, <2>2
  <2>9. WaitInv' BY <1>8, <2>7, <2>8
  <2> QED BY <1>1, <1>2, <1>4, <2>8, <2>9
<1>10. CASE /\ pending' = [pending EXCEPT ![t] = [call |-> "mmap", addr |-> MmapError]]
            /\ UNCHANGED regions
  <2>1. MmapError \in 1..MmapError BY <1>3
  <2>2. regions' \in [Tracees -> SUBSET Region]
    BY <1>10 DEF WaitInv, MemTypeOK
  <2>3. WaitInv' BY <1>8, <1>10, <2>1, <2>2
  <2> QED BY <1>1, <1>2, <1>4, <1>10, <2>1, <2>3
<1> QED BY <1>2, <1>9, <1>10

(* mmap() has returned: the first pending mapping gets its result.         *)
LEMMA ExitMmapStep ==
  ASSUME WaitInv, NEW t \in Tracees, ExitMmap(t)
  PROVE  /\ WaitInv' /\ CountFrame /\ at' = at
         /\ ~Attaches(t)' /\ config'[t].chain_state = "CSTATE_NOT_CHAINED"
         /\ \A s \in Tracees : s # t /\ config'[s] # config[s] =>
              /\ config[s].chain_state = "CSTATE_NOT_CHAINED"
              /\ config'[s].chain_state = "CSTATE_SHMAT_SOCKET"
         /\ process[t] \in Tracees /\ config[t].waiting_object_index \in 1..Len(shms)
         /\ \E k \in PendingMaps(process[t], config[t].waiting_object_index),
               addr \in 1..MmapError :
              /\ pending[t] = [call |-> "mmap", addr |-> addr]
              /\ mapped_shms' = [mapped_shms EXCEPT ![process[t]][k].addr = addr,
                                                    ![process[t]][k].size = 1]
<1> DEFINE p == process[t]
           i == config[t].waiting_object_index
           K == PendingMaps(p, i)
<1>0. /\ InChain(t, "CSTATE_SHMAT_MMAP") /\ K # {} /\ pending[t].call = "mmap"
      /\ mapped_shms' = [mapped_shms EXCEPT ![p][First(K)].addr = pending[t].addr,
                                            ![p][First(K)].size = 1]
      /\ mem_fd' = [mem_fd EXCEPT ![t] = None]
      /\ pending' = [pending EXCEPT ![t] = NoCall]
      /\ ChainDone(t)
      /\ UNCHANGED <<shms, process, requests, backlog, inbox, regions, aborted>>
  BY DEF ExitMmap
<1>1. /\ p \in Tracees /\ mapped_shms \in [Tracees -> Seq(Mapping)]
      /\ mem_fd \in [Tracees -> Fds \cup {None}] /\ pending \in [Tracees -> Calls]
      /\ Len(shms) \in Nat /\ MaxAddr \in Nat /\ MmapError = MaxAddr + 1
  BY ShmAssumption DEF WaitInv, MemTypeOK, MmapError
<1>2. First(K) \in K
  <2>1. K \subseteq Nat BY DEF PendingMaps
  <2> HIDE DEF K
  <2> QED BY <1>0, <2>1, FirstIn
<1>3. PICK addr \in 1..MmapError : pending[t] = [call |-> "mmap", addr |-> addr]
  <2>1. pending[t] \in Calls BY <1>1
  <2> QED BY <1>0, <2>1 DEF Calls, NoCall
<1>4. addr = pending[t].addr
  BY <1>3
<1>5. PICK k \in K : k = First(K)
  BY <1>2
<1>6. mapped_shms' = [mapped_shms EXCEPT ![p][k].addr = addr, ![p][k].size = 1]
  BY <1>0, <1>4, <1>5
<1>7. /\ at[t] = "kernel" /\ Chaining(config[t]) /\ i \in 1..Len(shms)
      /\ config[t].wait_state = "WSTATE_NOT_WAITING"
  <2>1. Fit(config[t], at[t], Len(shms), mem_fd[t])
    BY FitsNow
  <2> QED BY <1>0, <2>1 DEF InChain, Fit, Chaining
<1>8. mapped_shms' \in [Tracees -> Seq(Mapping)]
  <2>1. k \in 1..Len(mapped_shms[p]) /\ mapped_shms[p] \in Seq(Mapping)
    BY <1>1 DEF PendingMaps
  <2>2. PICK m \in Mapping : m = mapped_shms[p][k]
    BY <2>1
  <2>3. PICK e : e = [m EXCEPT !.addr = addr, !.size = 1]
    OBVIOUS
  <2>4. e \in Mapping
    <3>1. /\ m.shm_index \in 1..MaxShms
          /\ m = [shm_index |-> m.shm_index, addr |-> m.addr, size |-> m.size]
      BY DEF Mapping
    <3>2. e = [shm_index |-> m.shm_index, addr |-> addr, size |-> 1]
      BY <2>3, <3>1
    <3>3. addr \in 0..MmapError
      BY <1>1
    <3> QED BY <3>1, <3>2, <3>3 DEF Mapping
  <2>5. mapped_shms' = [mapped_shms EXCEPT ![p] = [@ EXCEPT ![k] = e]]
    BY <1>1, <1>6, <2>1, <2>2, <2>3
  <2>6. [mapped_shms[p] EXCEPT ![k] = e] \in Seq(Mapping)
    BY <2>1, <2>4
  <2> QED BY <1>1, <2>5, <2>6
<1>9. pending' \in [Tracees -> Calls]
  <2>1. NoCall \in Calls BY DEF Calls
  <2> QED BY <1>0, <1>1, <2>1
<1>10. /\ IpcTypeOK' /\ Fits' /\ CountFrame /\ at' = at
       /\ ~Attaches(t)' /\ config'[t].chain_state = "CSTATE_NOT_CHAINED"
       /\ \A s \in Tracees : s # t /\ config'[s] # config[s] =>
            /\ config[s].chain_state = "CSTATE_NOT_CHAINED"
            /\ config'[s].chain_state = "CSTATE_SHMAT_SOCKET"
  <2>1. \A s \in Tracees : s # t => mem_fd'[s] = mem_fd[s]
    BY <1>0, <1>1
  <2>2. Len(shms) <= Len(shms') /\ Len(shms') \in Nat
    BY <1>0, <1>1
  <2> QED BY <1>0, <1>7, <2>1, <2>2, ChainDoneStep
<1>11. MemTypeOK' /\ Removable(shms')
  <2>1. mem_fd' \in [Tracees -> Fds \cup {None}]
    BY <1>0, <1>1
  <2> QED BY <1>0, <1>8, <1>9, <2>1 DEF WaitInv, MemTypeOK
<1> QED BY <1>1, <1>3, <1>6, <1>7, <1>10, <1>11 DEF WaitInv

(* A hung-up connection keeps its place in the backlog.                    *)
LEMMA HangupFacts ==
  ASSUME WaitInv, NEW D, D \subseteq Tracees
  PROVE  /\ Hangup(D) \in Seq(Tracees \cup {Closed}) /\ Len(Hangup(D)) = Len(backlog)
         /\ \A k \in 1..Len(backlog) :
              Hangup(D)[k] = IF backlog[k] \in D THEN Closed ELSE backlog[k]
<1>1. backlog \in Seq(Tracees \cup {Closed})
  BY DEF WaitInv, MemTypeOK
<1> QED BY <1>1 DEF Hangup

(* A call of the chain fails: the pending mapping goes.                    *)
LEMMA ChainFailsStep ==
  ASSUME WaitInv, NEW t \in Tracees, ChainFails(t)
  PROVE  /\ WaitInv' /\ CountFrame /\ at' = at
         /\ ~Attaches(t)' /\ config'[t].chain_state = "CSTATE_NOT_CHAINED"
         /\ \A s \in Tracees : s # t /\ config'[s] # config[s] =>
              /\ config[s].chain_state = "CSTATE_NOT_CHAINED"
              /\ config'[s].chain_state = "CSTATE_SHMAT_SOCKET"
         /\ process[t] \in Tracees /\ config[t].waiting_object_index \in 1..Len(shms)
         /\ \E k \in PendingMaps(process[t], config[t].waiting_object_index) :
              mapped_shms' = [mapped_shms EXCEPT ![process[t]] = Unlink(@, k)]
         /\ shms' = DoRmid(shms, mapped_shms')
         /\ backlog' = Hangup({t}) /\ inbox' = [inbox EXCEPT ![t] = None]
<1> DEFINE p == process[t]
           i == config[t].waiting_object_index
           K == PendingMaps(p, i)
<1>0. /\ \E s \in {"CSTATE_SHMAT_SOCKET", "CSTATE_SHMAT_CONNECT", "CSTATE_SHMAT_RECVMSG"} :
           InChain(t, s)
      /\ K # {}
      /\ mapped_shms' = [mapped_shms EXCEPT ![p] = Unlink(@, First(K))]
      /\ shms' = DoRmid(shms, mapped_shms')
      /\ backlog' = Hangup({t}) /\ inbox' = [inbox EXCEPT ![t] = None]
      /\ ChainDone(t)
      /\ UNCHANGED <<process, requests, mem_fd, regions, pending, aborted>>
  BY DEF ChainFails
<1>1. /\ p \in Tracees /\ mapped_shms \in [Tracees -> Seq(Mapping)]
      /\ inbox \in [Tracees -> Fds \cup {None}]
  BY DEF WaitInv, MemTypeOK
<1>2. PICK k \in K : k = First(K)
  <2>1. K \subseteq Nat BY DEF PendingMaps
  <2> HIDE DEF K
  <2> QED BY <1>0, <2>1, FirstIn
<1>3. PICK q : q = Unlink(mapped_shms[p], k)
  OBVIOUS
<1>4. mapped_shms' = [mapped_shms EXCEPT ![p] = q]
  BY <1>0, <1>2, <1>3
<1>5. q \in Seq(Mapping)
  <2>1. k \in 1..Len(mapped_shms[p]) /\ mapped_shms[p] \in Seq(Mapping)
    BY <1>1 DEF PendingMaps
  <2> QED BY <2>1, <1>3, UnlinkType
<1>6. /\ mapped_shms' \in [Tracees -> Seq(Mapping)]
      /\ shms' \in Seq(Shm) /\ Len(shms') = Len(shms) /\ Removable(shms')
      /\ Len(shms) \in Nat /\ Len(shms) <= MaxShms
  BY <1>0, <1>1, <1>4, <1>5, UnmapStep
<1>7. /\ at[t] = "kernel" /\ Chaining(config[t]) /\ i \in 1..Len(shms)
      /\ config[t].wait_state = "WSTATE_NOT_WAITING"
  <2>1. Fit(config[t], at[t], Len(shms), mem_fd[t])
    BY FitsNow
  <2> QED BY <1>0, <2>1 DEF InChain, Fit, Chaining
<1>8. /\ IpcTypeOK' /\ Fits' /\ CountFrame /\ at' = at
      /\ ~Attaches(t)' /\ config'[t].chain_state = "CSTATE_NOT_CHAINED"
      /\ \A s \in Tracees : s # t /\ config'[s] # config[s] =>
           /\ config[s].chain_state = "CSTATE_NOT_CHAINED"
           /\ config'[s].chain_state = "CSTATE_SHMAT_SOCKET"
  <2>1. \A s \in Tracees : s # t => mem_fd'[s] = mem_fd[s]
    BY <1>0
  <2>2. Len(shms) <= Len(shms') /\ Len(shms') \in Nat
    BY <1>6
  <2> QED BY <1>0, <1>7, <2>1, <2>2, ChainDoneStep
<1>9. MemTypeOK'
  <2>1. backlog' \in Seq(Tracees \cup {Closed}) /\ inbox' \in [Tracees -> Fds \cup {None}]
    BY <1>0, <1>1, HangupFacts
  <2>2. Len(shms') <= MaxShms
    BY <1>6
  <2> QED BY <1>0, <1>6, <2>1, <2>2 DEF WaitInv, MemTypeOK
<1>10. \E j \in K : mapped_shms' = [mapped_shms EXCEPT ![p] = Unlink(@, j)]
  BY <1>0, <1>2
<1> QED BY <1>0, <1>1, <1>6, <1>7, <1>8, <1>9, <1>10 DEF WaitInv

(* A zeroed config fits wherever its tracee is.                            *)
LEMMA ZeroFits ==
  ASSUME NEW a, NEW slots, NEW fd
  PROVE  /\ Fit(ZeroConfig, a, slots, fd) /\ ZeroConfig \in Configs
         /\ ~Chaining(ZeroConfig) /\ ~Asleep(ZeroConfig)
BY DEF Fit, ZeroConfig, Configs, Chaining, Asleep, PastSocket, Busy, WaitReasons,
   WaitStates, ChainStates, Statuses

(* PRoot hears of a child.                                                 *)
LEMMA ChildStep ==
  ASSUME WaitInv, PendInv, NEW parent \in Tracees, NEW child \in Tracees,
         NewChild(parent, child)
  PROVE  /\ WaitInv' /\ HelperFrame /\ CountFrame /\ ~Attaches(child)'
         /\ at[child] = "none" /\ at[parent] = "kernel"
         /\ at'[child] = "user" /\ at'[parent] = "user"
         /\ \A s \in Tracees : s # child => config'[s] = config[s]
         /\ \A s \in Tracees : s # child /\ s # parent => at'[s] = at[s]
<1>1. /\ at[parent] = "kernel" /\ pending[parent].call = "clone"
      /\ pending[parent].child = child /\ tracees' = <<child>> \o tracees
      /\ at' = [at EXCEPT ![parent] = "user", ![child] = "user"]
      /\ config' = [config EXCEPT ![child] = ZeroConfig]
      /\ sigstop' = [sigstop EXCEPT ![child] = "SIGSTOP_ALLOWED"]
      /\ kick' = [kick EXCEPT ![child] = FALSE]
      /\ pending' = [pending EXCEPT ![parent] = NoCall]
      /\ UNCHANGED <<shms, requests, backlog, inbox, mem_fd, aborted>>
  BY DEF NewChild, Inherit, Listed
<1>2. at[child] = "none" /\ Idle(config[parent])
  BY <1>1 DEF PendInv, InCall, Idle, NoCall
<1>3. /\ at'[child] = "user" /\ at'[parent] = "user" /\ parent # child
      /\ config'[child] = ZeroConfig
      /\ \A s \in Tracees : s # child => config'[s] = config[s]
      /\ \A s \in Tracees : s # child /\ s # parent => at'[s] = at[s]
  BY <1>1, <1>2 DEF WaitInv, IpcTypeOK
<1>4. IpcTypeOK'
  <2>1. ZeroConfig \in Configs /\ "user" \in Locations
    BY ZeroFits DEF Locations
  <2> QED BY <1>1, <2>1 DEF WaitInv, IpcTypeOK
<1>5. ASSUME NEW s \in Tracees
      PROVE  Fit(config'[s], at'[s], Len(shms'), mem_fd'[s])
  <2>0. shms' = shms /\ mem_fd' = mem_fd
    BY <1>1
  <2>1. CASE s = child
    BY <1>3, <2>1, ZeroFits
  <2>2. CASE s # child
    <3>1. Fit(config[s], at[s], Len(shms), mem_fd[s])
      BY FitsNow
    <3>2. config'[s] = config[s] /\ (at'[s] = at[s] \/ Idle(config[s]))
      BY <1>2, <1>3, <2>2
    <3> QED BY <2>0, <3>1, <3>2 DEF Fit, PastSocket, Idle
  <2> QED BY <2>1, <2>2
<1>6. ~Attaches(child)' /\ ~Attaches(parent)'
  BY <1>2, <1>3, ZeroFits DEF Attaches, Idle, Chaining, Asleep
<1>7. HelperFrame /\ CountFrame
  BY <1>2, <1>3, <1>6 DEF HelperFrame, CountFrame, Attaches, Idle
<1>8. MemTypeOK' /\ Removable(shms')
  <2>0. /\ process \in [Tracees -> Tracees] /\ mapped_shms \in [Tracees -> Seq(Mapping)]
        /\ regions \in [Tracees -> SUBSET Region] /\ pending \in [Tracees -> Calls]
    BY DEF WaitInv, MemTypeOK
  <2>1. process' \in [Tracees -> Tracees]
    BY <2>0 DEF NewChild, Inherit
  <2>2. pending' \in [Tracees -> Calls]
    <3>1. NoCall \in Calls BY DEF Calls
    <3> QED BY <1>1, <2>0, <3>1
  <2>3. mapped_shms' \in [Tracees -> Seq(Mapping)]
    BY <2>0 DEF NewChild
  <2>4. regions' \in [Tracees -> SUBSET Region]
    <3>1. pending[parent] \in Calls BY <2>0
    <3>2. pending[parent].regions \in SUBSET Region
      BY <1>1, <3>1 DEF Calls, NoCall
    <3> QED BY <2>0, <3>2 DEF NewChild
  <2> QED BY <1>1, <2>1, <2>2, <2>3, <2>4 DEF WaitInv, MemTypeOK
<1> QED BY <1>1, <1>2, <1>3, <1>4, <1>5, <1>6, <1>7, <1>8 DEF WaitInv, Fits

(* Tracees end, and the memory of their process goes.                      *)
LEMMA EndsStep ==
  ASSUME WaitInv, PendInv, NEW t \in Tracees, NEW D, D \subseteq Tracees, Ends(D, t),
         t \in D \/ pending[t].call = "execve"
  PROVE  /\ WaitInv' /\ CountFrame /\ config' = config
         /\ \A s \in D : at'[s] = "dead"
         /\ t \notin D => at'[t] = "user" /\ Idle(config[t])
         /\ \A s \in Tracees : s \notin D /\ s # t => at'[s] = at[s]
<1>1. /\ at' = [s \in Tracees |-> IF s \in D THEN "dead" ELSE IF s = t THEN "user" ELSE at[s]]
      /\ kick' = [s \in Tracees |-> kick[s] /\ s \notin D]
      /\ backlog' = Hangup(D)
      /\ inbox' = [s \in Tracees |-> IF s \in D THEN None ELSE inbox[s]]
      /\ pending' = [s \in Tracees |-> IF s \in D \cup {t} THEN NoCall ELSE pending[s]]
      /\ regions' = [regions EXCEPT ![process[t]] = {}]
      /\ UNCHANGED <<tracees, config, sigstop>>
      /\ UNCHANGED <<shms, process, mapped_shms, requests, mem_fd, aborted>>
  BY DEF Ends
<1>2. t \notin D => Idle(config[t])
  BY DEF PendInv, InCall, Idle, NoCall
<1>3. /\ at' \in [Tracees -> Locations] /\ kick' \in [Tracees -> BOOLEAN]
      /\ \A s \in Tracees : at'[s] # at[s] => at'[s] = "dead" \/ Idle(config[s])
  <2>1. at \in [Tracees -> Locations] /\ {"dead", "user"} \subseteq Locations
    BY DEF WaitInv, IpcTypeOK, Locations
  <2>2. at' \in [Tracees -> Locations] BY <1>1, <2>1
  <2>3. kick' \in [Tracees -> BOOLEAN] BY <1>1
  <2> QED BY <1>1, <1>2, <2>2, <2>3
<1>4. Len(shms) <= Len(shms') /\ Len(shms') \in Nat
  BY <1>1 DEF WaitInv, MemTypeOK
<1>5. IpcTypeOK' /\ Fits' /\ CountFrame
  BY <1>1, <1>3, <1>4, AtStep
<1>6. pending' \in [Tracees -> Calls] /\ regions' \in [Tracees -> SUBSET Region]
  <2>1. NoCall \in Calls BY DEF Calls
  <2> QED BY <1>1, <2>1 DEF WaitInv, MemTypeOK
<1>7. backlog' \in Seq(Tracees \cup {Closed}) /\ inbox' \in [Tracees -> Fds \cup {None}]
  BY <1>1, HangupFacts DEF WaitInv, MemTypeOK
<1>8. WaitInv'
  BY <1>1, <1>5, <1>6, <1>7, KernelStep
<1> QED BY <1>1, <1>2, <1>5, <1>8

(* The end of a process, or of the threads of one that executes.           *)
LEMMA EndIs ==
  ASSUME NEW t \in Tracees, Kill(t) \/ ExecveDone(t)
  PROVE  \E D \in SUBSET Tracees :
           /\ Ends(D, t) /\ (t \in D \/ pending[t].call = "execve")
           /\ D \subseteq Threads(t) \cup {t}
           /\ Threads(t) \subseteq D \cup {t} \cup {s \in Tracees : at[s] = "dead"}
           /\ t \in D <=> Kill(t)
<1>1. CASE Kill(t)
  <2>1. Ends({t} \cup Siblings(t), t)
    BY <1>1 DEF Kill
  <2> QED BY <1>1, <2>1 DEF Siblings, Threads
<1>2. CASE ~Kill(t)
  <2>1. Ends(Siblings(t), t) /\ pending[t].call = "execve"
    BY <1>2 DEF ExecveDone
  <2> QED BY <1>2, <2>1 DEF Siblings, Threads
<1> QED BY <1>1, <1>2

(* A dead tracee is freed, and its process with its last thread.           *)
LEMMA ReapStep ==
  ASSUME WaitInv, NEW t \in Tracees, ReapTracee(t)
  PROVE  /\ WaitInv' /\ HelperFrame /\ CountFrame
         /\ at[t] = "dead" /\ at'[t] = "none"
         /\ \A s \in Tracees : s # t => config'[s] = config[s] /\ at'[s] = at[s]
         /\ process[t] \in Tracees /\ process' = [process EXCEPT ![t] = t]
         /\ UNCHANGED <<requests, backlog, inbox, regions, pending, aborted>>
<1>1. /\ Reap(t) /\ process' = [process EXCEPT ![t] = t]
      /\ mem_fd' = [mem_fd EXCEPT ![t] = None]
      /\ UNCHANGED <<requests, backlog, inbox, regions, pending, aborted>>
      /\ process[t] \in Tracees
  BY DEF ReapTracee, WaitInv, MemTypeOK
<1>2. PICK c : c = ZeroConfig
  OBVIOUS
<1>3. /\ config' = [config EXCEPT ![t] = c] /\ at' = [at EXCEPT ![t] = "none"]
      /\ c \in Configs /\ "none" \in Locations /\ at[t] = "dead"
  BY <1>1, <1>2, ZeroFits DEF Reap, Locations
<1>4. /\ tracees' \in Seq(Tracees)
      /\ sigstop' \in [Tracees -> {"SIGSTOP_IGNORED", "SIGSTOP_ALLOWED"}]
      /\ kick' \in [Tracees -> BOOLEAN]
  <2>1. PICK k \in 1..Len(tracees) :
          tracees' = SubSeq(tracees, 1, k - 1) \o SubSeq(tracees, k + 1, Len(tracees))
    BY <1>1 DEF Reap
  <2>2. tracees \in Seq(Tracees)
    BY DEF WaitInv, IpcTypeOK
  <2>3. tracees' \in Seq(Tracees)
    BY <2>1, <2>2, UnlinkedList
  <2> QED BY <1>1, <2>3 DEF Reap, WaitInv, IpcTypeOK
<1>5. /\ shms' \in Seq(Shm) /\ Len(shms') = Len(shms) /\ Removable(shms')
      /\ Len(shms) \in Nat /\ Len(shms) <= MaxShms
      /\ mapped_shms' \in [Tracees -> Seq(Mapping)]
  <2>0. /\ shms \in Seq(Shm) /\ Removable(shms)
        /\ Len(shms) \in Nat /\ Len(shms) <= MaxShms
        /\ mapped_shms \in [Tracees -> Seq(Mapping)]
    BY DEF WaitInv, MemTypeOK
  <2>1. CASE Threads(t) = {t}
    <3>1. /\ mapped_shms' = [mapped_shms EXCEPT ![process[t]] = <<>>]
          /\ shms' = DoRmid(shms, mapped_shms') /\ <<>> \in Seq(Mapping)
      BY <2>1 DEF ReapTracee
    <3>2. /\ mapped_shms' \in [Tracees -> Seq(Mapping)]
          /\ shms' \in Seq(Shm) /\ Len(shms') = Len(shms) /\ Removable(shms')
      BY <1>1, <3>1, UnmapStep
    <3> QED BY <2>0, <3>2
  <2>2. CASE Threads(t) # {t}
    BY <2>0, <2>2 DEF ReapTracee
  <2> QED BY <2>1, <2>2
<1>6. /\ Fit(c, "none", Len(shms'), mem_fd'[t])
      /\ Len(shms) <= Len(shms') /\ Len(shms') \in Nat /\ Len(shms') <= MaxShms
      /\ \A s \in Tracees : s # t => mem_fd'[s] = mem_fd[s]
  BY <1>1, <1>2, <1>5, ZeroFits
<1>7. /\ IpcTypeOK' /\ Fits' /\ config'[t] = c /\ at'[t] = "none"
      /\ \A s \in Tracees : s # t => config'[s] = config[s] /\ at'[s] = at[s]
  <2>1. c \in Configs /\ "none" \in Locations
    BY <1>3
  <2>2. IpcTypeOK' /\ Fits'
    BY ONLY WaitInv, t \in Tracees, <2>1, <1>3, <1>4, <1>6, WaitStep, Zenon
  <2> QED BY <2>1, <2>2, <1>3 DEF WaitInv, IpcTypeOK
<1>8. HelperFrame /\ CountFrame
  <2>1. ~Attaches(t)'
    BY <1>7 DEF Attaches
  <2>2. at[t] # "kernel"
    BY <1>3
  <2> QED BY <1>7, <2>1, <2>2, FrameStep
<1>9. MemTypeOK'
  <2>1. process' \in [Tracees -> Tracees] /\ mem_fd' \in [Tracees -> Fds \cup {None}]
    BY <1>1 DEF WaitInv, MemTypeOK
  <2> QED BY <1>1, <1>5, <1>6, <2>1 DEF WaitInv, MemTypeOK
<1> QED BY <1>1, <1>3, <1>5, <1>7, <1>8, <1>9 DEF WaitInv

(* At the start nobody waits, chains or has a descriptor.                  *)
LEMMA InitWait == Init => WaitInv
<1> SUFFICES ASSUME Init PROVE WaitInv
  OBVIOUS
<1>1. PICK t \in Tracees :
        /\ tracees = <<t>>
        /\ at = [s \in Tracees |-> IF s = t THEN "user" ELSE "none"]
        /\ config = [s \in Tracees |-> ZeroConfig]
        /\ sigstop = [s \in Tracees |-> "SIGSTOP_ALLOWED"]
        /\ kick = [s \in Tracees |-> FALSE]
  BY DEF Init, IpcInit
<1>2. IpcTypeOK
  <2>1. ZeroConfig \in Configs BY ZeroFits
  <2> QED BY <1>1, <2>1 DEF IpcTypeOK, Locations
<1>3. MemTypeOK /\ Removable(shms)
  <2>1. /\ shms = <<>> /\ process = [s \in Tracees |-> s]
        /\ mapped_shms = [s \in Tracees |-> <<>>]
        /\ requests = <<>> /\ backlog = <<>>
        /\ inbox = [s \in Tracees |-> None] /\ mem_fd = [s \in Tracees |-> None]
        /\ regions = [s \in Tracees |-> {}] /\ pending = [s \in Tracees |-> NoCall]
        /\ aborted = FALSE
    BY DEF Init
  <2>2. shms \in Seq(Shm) /\ Len(shms) = 0 /\ Len(shms) <= MaxShms
    BY <2>1, ShmAssumption
  <2>3. mapped_shms \in [Tracees -> Seq(Mapping)]
    BY <2>1
  <2>4. requests \in Seq(Fds) /\ backlog \in Seq(Tracees \cup {Closed})
    BY <2>1
  <2>5. process \in [Tracees -> Tracees] /\ aborted \in BOOLEAN
    BY <2>1
  <2>6. inbox \in [Tracees -> Fds \cup {None}] /\ mem_fd \in [Tracees -> Fds \cup {None}]
    BY <2>1
  <2>7. regions \in [Tracees -> SUBSET Region] /\ pending \in [Tracees -> Calls]
    BY <2>1 DEF Calls
  <2>8. Removable(shms)
    BY <2>2 DEF Removable
  <2> QED BY <2>2, <2>3, <2>4, <2>5, <2>6, <2>7, <2>8 DEF MemTypeOK
<1>4. Fits
  BY <1>1, ZeroFits DEF Fits
<1> QED BY <1>2, <1>3, <1>4 DEF WaitInv

-----------------------------------------------------------------------------
(* Every action keeps the types.                                           *)
LEMMA NextWait == WaitInv /\ PendInv /\ [Next]_vars => WaitInv'
<1> SUFFICES ASSUME WaitInv, PendInv, [Next]_vars PROVE WaitInv'
  OBVIOUS
<1> USE ShmAssumption
<1>1. ASSUME NEW t \in Tracees, Step(t) PROVE WaitInv'
  <2>1. CASE \/ StartPpoll(t) \/ StartReplaced(t) \/ ChainedEnter(t) \/ ChainedExit(t)
             \/ EndVoid(t) \/ EndStatus(t) \/ EndPpoll(t) \/ Swallow(t) \/ ExitSocket(t)
    <3>1. IpcTypeOK' /\ Fits' /\ UNCHANGED shmVars
      BY <2>1, StopStep
    <3> QED BY <3>1, IdleStep
  <2>2. CASE KernelConnect(t) \/ ChainAborts(t) BY <2>2, HelperStep
  <2>3. CASE ExitConnect(t) \/ ExitRecvmsg(t) BY <2>3, ReturnStep
  <2>4. CASE KernelMmap(t) BY <2>4, MmapStep
  <2>5. CASE ExitMmap(t) BY <2>5, ExitMmapStep
  <2>6. CASE ChainFails(t) BY <2>6, ChainFailsStep
  <2>7. CASE KernelMunmap(t) BY <2>7, MunmapStep
  <2>8. CASE ExecveEnter(t) BY <2>8, ExecveStep
  <2>9. CASE ExecveRefused(t) BY <2>9, RefusedStep
  <2>10. CASE Kill(t) \/ ExecveDone(t) BY <2>10, EndIs, EndsStep
  <2>11. CASE Exit(t) BY <2>11, ExitStep
  <2>12. CASE ReapTracee(t) BY <2>12, ReapStep
  <2>13. ASSUME NEW child \in Tracees, NewChild(t, child) PROVE WaitInv'
    BY <2>13, ChildStep
  <2> QED BY <1>1, <2>1, <2>2, <2>3, <2>4, <2>5, <2>6, <2>7, <2>8, <2>9, <2>10, <2>11,
             <2>12, <2>13 DEF Step, Stop
<1>2. ASSUME NEW t \in Tracees, NEW sigsys \in SigsysModes, Syscall(t, sigsys)
      PROVE  WaitInv'
  <2>0. sigsys \in BOOLEAN OBVIOUS
  <2>1. ASSUME NEW ok \in {TRUE, ~Faults}, ShmgetCreate(t, sigsys, ok) PROVE WaitInv'
    <3>1. ok \in BOOLEAN OBVIOUS
    <3> QED BY <2>0, <2>1, <3>1, ShmgetStep
  <2>2. CASE Query(t, sigsys)
    BY <2>0, <2>2, QueryStep
  <2>3. ASSUME NEW addr \in DetachAddrs, Shmdt(t, sigsys, addr) PROVE WaitInv'
    BY <2>0, <2>3, ShmdtStep
  <2>4. ASSUME NEW i \in 1..Len(shms), Shmat(t, sigsys, i) PROVE WaitInv'
    BY <2>0, <2>4, ShmatStep
  <2>5. ASSUME NEW i \in 1..Len(shms), ShmctlRmid(t, sigsys, i) PROVE WaitInv'
    BY <2>0, <2>5, RmidStep
  <2> QED BY <1>2, <2>1, <2>2, <2>3, <2>4, <2>5 DEF Syscall
<1>3. ASSUME NEW parent \in Tracees, NEW child \in Tracees, NEW thread \in CloneThread,
             KernelClone(parent, child, thread)
      PROVE  WaitInv'
  <2>1. thread \in BOOLEAN OBVIOUS
  <2> QED BY <1>3, <2>1, CloneStep
<1>4. CASE HelperDistribute
  BY <1>4, HelperStep
<1>5. CASE UNCHANGED vars
  BY <1>5 DEF vars, WaitInv, IpcTypeOK, MemTypeOK, Fits
<1> QED BY <1>1, <1>2, <1>3, <1>4, <1>5 DEF Next, Terminated

-----------------------------------------------------------------------------
(* Calls that are half done.                                               *)

(* Who runs guest code, waits or is in the first part of a chain is in no  *)
(* such call.                                                              *)
LEMMA CallFree ==
  ASSUME WaitInv, PendInv, NEW s \in Tracees,
         \/ at[s] \notin {"rewound", "kernel"}
         \/ config[s].wait_state # "WSTATE_NOT_WAITING"
         \/ config[s].chain_state \in {"CSTATE_SHMAT_SOCKET", "CSTATE_SHMAT_CONNECT",
                                       "CSTATE_SHMAT_RECVMSG"}
  PROVE  pending[s] = NoCall
<1>1. InCall(pending[s], config[s], at[s]) /\ pending[s] \in Calls
  BY DEF PendInv, WaitInv, MemTypeOK
<1>2. pending[s] = NoCall \/ pending[s].call \in {"mmap", "munmap", "clone", "execve"}
  BY <1>1 DEF Calls
<1> QED BY <1>1, <1>2 DEF InCall

(* A clone that is on its way is an old one, of a child that nobody else   *)
(* became.                                                                 *)
LEMMA PendStep ==
  ASSUME WaitInv, PendInv,
         \A s \in Tracees :
           \/ pending'[s] = NoCall
           \/ pending'[s] = pending[s] /\ at'[s] = at[s] /\ config'[s] = config[s]
           \/ pending'[s].call # "clone" /\ InCall(pending'[s], config'[s], at'[s]),
         \A s \in Tracees : at'[s] # "none" => at[s] # "none" /\ process'[s] = process[s]
  PROVE  PendInv'
<1>1. NoCall.call = "none"
  BY DEF NoCall
<1>2. ASSUME NEW s \in Tracees PROVE InCall(pending'[s], config'[s], at'[s])
  <2>1. InCall(pending[s], config[s], at[s]) BY DEF PendInv
  <2>2. CASE pending'[s] = NoCall BY <1>1, <2>2 DEF InCall
  <2>3. CASE pending'[s] = pending[s] /\ at'[s] = at[s] /\ config'[s] = config[s]
    BY <2>1, <2>3
  <2> QED BY <2>2, <2>3
<1>3. \A s \in Tracees : pending'[s].call = "clone" => pending'[s] = pending[s]
  BY <1>1
<1>4. ASSUME NEW t \in Tracees, pending'[t].call = "clone"
      PROVE  /\ at'[pending'[t].child] = "none"
             /\ \A s \in Tracees : at'[s] # "none" => process'[s] # pending'[t].child
             /\ \A s \in Tracees :
                  pending'[s].call = "clone" /\ pending'[s].child = pending'[t].child => s = t
  <2>1. PICK c : c = pending[t].child
    OBVIOUS
  <2>2. pending[t].call = "clone" /\ pending'[t].child = c
    BY <1>3, <1>4, <2>1
  <2>3. /\ at[c] = "none" /\ \A s \in Tracees : at[s] # "none" => process[s] # c
        /\ \A s \in Tracees : pending[s].call = "clone" /\ pending[s].child = c => s = t
    BY <2>1, <2>2 DEF PendInv
  <2>4. c \in Tracees
    <3>1. pending[t] \in Calls BY DEF WaitInv, MemTypeOK
    <3> QED BY <2>1, <2>2, <3>1, <1>1 DEF Calls
  <2>5. \A s \in Tracees : pending'[s].call = "clone" /\ pending'[s].child = c => s = t
    BY <1>3, <2>3
  <2> QED BY <2>2, <2>3, <2>4, <2>5
<1> QED BY <1>2, <1>4 DEF PendInv

(* One tracee, t, moves.                                                   *)
LEMMA PendMoved ==
  ASSUME WaitInv, PendInv, NEW t \in Tracees, process' = process,
         \A s \in Tracees : s # t =>
           pending'[s] = pending[s] /\ at'[s] = at[s] /\ config'[s] = config[s],
         \/ pending'[t] = NoCall
         \/ pending'[t].call # "clone" /\ InCall(pending'[t], config'[t], at'[t]),
         at[t] # "none"
  PROVE  PendInv'
BY PendStep

(* clone, in the kernel.                                                   *)
LEMMA PendClone ==
  ASSUME WaitInv, PendInv, NEW parent \in Tracees, NEW child \in Tracees, NEW thread,
         KernelClone(parent, child, thread)
  PROVE  PendInv'
<1>1. PICK d : d = [call |-> "clone", child |-> child, thread |-> thread,
                    regions |-> IF thread THEN {} ELSE regions[process[parent]]]
  OBVIOUS
<1>2. /\ at' = [at EXCEPT ![parent] = "kernel"] /\ CanCall(parent)
      /\ pending' = [pending EXCEPT ![parent] = d]
      /\ at[child] = "none" /\ \A s \in Tracees : at[s] # "none" => process[s] # child
      /\ \A s \in Tracees : pending[s].call = "clone" => pending[s].child # child
      /\ UNCHANGED <<process, config>>
  BY <1>1 DEF KernelClone
<1>3. /\ at'[parent] = "kernel" /\ at[parent] = "user" /\ parent # child
      /\ pending'[parent] = d
      /\ \A s \in Tracees : s # parent => at'[s] = at[s] /\ pending'[s] = pending[s]
  BY <1>2 DEF WaitInv, IpcTypeOK, MemTypeOK, CanCall
<1>4. d.call = "clone" /\ d.child = child
  BY <1>1
<1>5. ASSUME NEW s \in Tracees PROVE InCall(pending'[s], config'[s], at'[s])
  <2>1. InCall(pending[s], config[s], at[s]) BY DEF PendInv
  <2>2. Idle(config[parent]) BY <1>2, CallerIdle
  <2> QED BY <1>2, <1>3, <1>4, <2>1, <2>2 DEF InCall, Idle
<1>6. ASSUME NEW t \in Tracees, pending'[t].call = "clone"
      PROVE  /\ at'[pending'[t].child] = "none"
             /\ \A s \in Tracees : at'[s] # "none" => process'[s] # pending'[t].child
             /\ \A s \in Tracees :
                  pending'[s].call = "clone" /\ pending'[s].child = pending'[t].child => s = t
  <2>1. CASE t = parent
    BY <1>2, <1>3, <1>4, <2>1
  <2>2. CASE t # parent
    <3>1. PICK c : c = pending[t].child
      OBVIOUS
    <3>2. pending[t].call = "clone" /\ pending'[t].child = c /\ c # child
      BY <1>2, <1>3, <1>6, <2>2, <3>1
    <3>3. /\ at[c] = "none" /\ \A s \in Tracees : at[s] # "none" => process[s] # c
          /\ \A s \in Tracees : pending[s].call = "clone" /\ pending[s].child = c => s = t
      BY <3>1, <3>2 DEF PendInv
    <3>4. c \in Tracees
      <4>1. pending[t] \in Calls BY DEF WaitInv, MemTypeOK
      <4> QED BY <3>1, <3>2, <4>1 DEF Calls, NoCall
    <3>5. \A s \in Tracees : pending'[s].call = "clone" /\ pending'[s].child = c => s = t
      BY <1>3, <1>4, <3>2, <3>3
    <3>6. \A s \in Tracees : at'[s] # "none" => at[s] # "none"
      BY <1>3
    <3> QED BY <1>2, <1>3, <3>2, <3>3, <3>4, <3>5, <3>6
  <2> QED BY <2>1, <2>2
<1> QED BY <1>5, <1>6 DEF PendInv

(* PRoot hears of a child: other children are others.                      *)
LEMMA PendChild ==
  ASSUME WaitInv, PendInv, NEW parent \in Tracees, NEW child \in Tracees,
         NewChild(parent, child)
  PROVE  PendInv'
<1>1. /\ pending[parent].call = "clone" /\ pending[parent].child = child
      /\ pending' = [pending EXCEPT ![parent] = NoCall]
      /\ process' = [process EXCEPT ![child] =
                       IF pending[parent].thread THEN process[parent] ELSE child]
  BY DEF NewChild, Inherit
<1>2. /\ at[child] = "none" /\ at[parent] = "kernel"
      /\ at'[child] = "user" /\ at'[parent] = "user"
      /\ \A s \in Tracees : s # child => config'[s] = config[s]
      /\ \A s \in Tracees : s # child /\ s # parent => at'[s] = at[s]
  BY ChildStep
<1>3. /\ pending[child] = NoCall /\ pending'[parent] = NoCall
      /\ \A s \in Tracees : s # parent => pending'[s] = pending[s]
      /\ \A s \in Tracees : s # child => process'[s] = process[s]
      /\ process'[child] = process[parent] \/ process'[child] = child
  <2>1. pending[child] = NoCall
    BY <1>2, CallFree
  <2> QED BY <1>1, <2>1 DEF WaitInv, MemTypeOK
<1>4. NoCall.call = "none"
  BY DEF NoCall
<1>5. ASSUME NEW s \in Tracees PROVE InCall(pending'[s], config'[s], at'[s])
  <2>1. InCall(pending[s], config[s], at[s]) BY DEF PendInv
  <2>2. CASE s \in {parent, child}
    <3>1. pending'[s] = NoCall BY <1>3, <2>2
    <3> QED BY <1>4, <3>1 DEF InCall
  <2>3. CASE s \notin {parent, child}
    BY <1>2, <1>3, <2>1, <2>3
  <2> QED BY <2>2, <2>3
<1>6. ASSUME NEW t \in Tracees, pending'[t].call = "clone"
      PROVE  /\ at'[pending'[t].child] = "none"
             /\ \A s \in Tracees : at'[s] # "none" => process'[s] # pending'[t].child
             /\ \A s \in Tracees :
                  pending'[s].call = "clone" /\ pending'[s].child = pending'[t].child => s = t
  <2>1. t # parent /\ pending'[t] = pending[t]
    BY <1>3, <1>4, <1>6
  <2>2. PICK c : c = pending[t].child
    OBVIOUS
  <2>3. /\ at[c] = "none" /\ \A s \in Tracees : at[s] # "none" => process[s] # c
        /\ \A s \in Tracees : pending[s].call = "clone" /\ pending[s].child = c => s = t
    BY <1>6, <2>1, <2>2 DEF PendInv
  <2>4. c \in Tracees
    <3>1. pending[t] \in Calls BY DEF WaitInv, MemTypeOK
    <3> QED BY <1>6, <2>1, <2>2, <3>1, <1>4 DEF Calls
  <2>5. c # child /\ c # parent
    BY <1>1, <1>2, <2>1, <2>3
  <2>6. at'[c] = "none"
    BY <1>2, <2>3, <2>4, <2>5
  <2>7. ASSUME NEW s \in Tracees, at'[s] # "none" PROVE process'[s] # c
    <3>1. CASE s = child
      BY <1>2, <1>3, <2>3, <2>5, <3>1
    <3>2. CASE s # child
      BY <1>2, <1>3, <2>3, <2>7, <3>2
    <3> QED BY <3>1, <3>2
  <2>8. \A s \in Tracees : pending'[s].call = "clone" /\ pending'[s].child = c => s = t
    BY <1>3, <1>4, <2>3
  <2> QED BY <2>1, <2>2, <2>6, <2>7, <2>8
<1> QED BY <1>5, <1>6 DEF PendInv

(* The end of a chain moves a waiter, which is in no call of this kind.    *)
LEMMA PendDone ==
  ASSUME WaitInv, PendInv, NEW t \in Tracees, ChainDone(t), pending'[t] = NoCall,
         \A s \in Tracees : s # t => pending'[s] = pending[s], process' = process
  PROVE  PendInv'
<1>1. ASSUME NEW s \in Tracees, s # t
      PROVE  config'[s] = config[s] \/ pending[s] = NoCall
  <2>1. config'[s] = config[s] \/ config[s].wait_reason = "WR_WAIT_SHMAT_HELPER_BUSY"
    <3> DEFINE w == tracees[First(Waiters)]
    <3>1. CASE Waiters = {}
      <4>1. config' = [config EXCEPT ![t].chain_state = "CSTATE_NOT_CHAINED"]
        BY <3>1 DEF ChainDone
      <4> QED BY <1>1, <4>1 DEF WaitInv, IpcTypeOK
    <3>2. CASE Waiters # {}
      <4>1. First(Waiters) \in Waiters
        BY <3>2, FirstIn DEF Waiters
      <4>2. config[w].wait_reason = "WR_WAIT_SHMAT_HELPER_BUSY"
        BY <4>1 DEF Waiters
      <4>3. \E e : config' = [config EXCEPT ![t].chain_state = "CSTATE_NOT_CHAINED", ![w] = e]
        BY <3>2 DEF ChainDone
      <4> HIDE DEF w
      <4> QED BY <1>1, <4>2, <4>3 DEF WaitInv, IpcTypeOK
    <3> QED BY <3>1, <3>2
  <2>2. config[s].wait_reason = "WR_WAIT_SHMAT_HELPER_BUSY" => pending[s] = NoCall
    <3>1. Fit(config[s], at[s], Len(shms), mem_fd[s])
      BY FitsNow
    <3> QED BY <3>1, CallFree DEF Fit, Busy, Asleep
  <2> QED BY <2>1, <2>2
<1>2. at' = at
  BY DEF ChainDone
<1> QED BY <1>1, <1>2, PendStep

LEMMA InitPend == Init => PendInv
<1> SUFFICES ASSUME Init PROVE PendInv
  OBVIOUS
<1>1. pending = [t \in Tracees |-> NoCall] /\ NoCall.call = "none"
  BY DEF Init, NoCall
<1> QED BY <1>1 DEF PendInv, InCall

(* Every action keeps these calls as they should be.                       *)
LEMMA NextPend == WaitInv /\ PendInv /\ [Next]_vars => PendInv'
<1> SUFFICES ASSUME WaitInv, PendInv, [Next]_vars PROVE PendInv'
  OBVIOUS
<1>0. /\ at \in [Tracees -> Locations] /\ config \in [Tracees -> Configs]
      /\ pending \in [Tracees -> Calls] /\ NoCall.call = "none"
      /\ \A s \in Tracees : InCall(pending[s], config[s], at[s])
  BY DEF WaitInv, IpcTypeOK, MemTypeOK, PendInv, NoCall
<1>1. ASSUME NEW t \in Tracees, Step(t) PROVE PendInv'
  <2>1. CASE \/ StartPpoll(t) \/ ChainedEnter(t) \/ ChainedExit(t)
             \/ EndVoid(t) \/ EndStatus(t) \/ EndPpoll(t) \/ ExitSocket(t)
             \/ ExitConnect(t) \/ ExitRecvmsg(t)
    <3>1. /\ process' = process /\ pending' = pending
          /\ \A s \in Tracees : s # t => at'[s] = at[s] /\ config'[s] = config[s]
          /\ at[t] # "none"
      BY <1>0, <2>1 DEF StartPpoll, EnterPpoll, ChainedEnter, ChainedExit, EndVoid,
         ExitVoid, EndStatus, ExitStatus, EndPpoll, ExitPpoll, ExitSocket, ExitConnect,
         ExitRecvmsg, InChain, Advance, shmVars
    <3>2. pending[t] = NoCall
      <4>1. CASE EndVoid(t) BY <4>1 DEF EndVoid
      <4>2. CASE \/ StartPpoll(t) \/ ChainedEnter(t) \/ ChainedExit(t) \/ EndStatus(t)
                 \/ EndPpoll(t)
        <5>1. config[t].wait_state # "WSTATE_NOT_WAITING"
          BY <4>2 DEF StartPpoll, EnterPpoll, ChainedEnter, ChainedExit, EndStatus,
             ExitStatus, EndPpoll, ExitPpoll
        <5> QED BY <5>1, CallFree
      <4>3. CASE ExitSocket(t) \/ ExitConnect(t) \/ ExitRecvmsg(t)
        BY <4>3, CallFree DEF ExitSocket, ExitConnect, ExitRecvmsg, InChain
      <4> QED BY <2>1, <4>1, <4>2, <4>3
    <3> QED BY <3>1, <3>2, PendMoved
  <2>2. CASE StartReplaced(t)
    <3>1. /\ process' = process /\ pending' = pending /\ config' = config
          /\ at' = [at EXCEPT ![t] = "kernel"] /\ at[t] = "rewound"
          /\ config[t].wait_state = "WSTATE_NOT_WAITING"
      BY <2>2 DEF StartReplaced, shmVars
    <3>2. at'[t] = "kernel" /\ \A s \in Tracees : s # t => at'[s] = at[s]
      BY <1>0, <3>1
    <3>3. pending[t].call # "clone" /\ InCall(pending[t], config[t], "kernel")
      BY <1>0, <3>1 DEF InCall
    <3> QED BY <3>1, <3>2, <3>3, PendMoved
  <2>3. CASE Swallow(t) \/ KernelConnect(t) \/ ChainAborts(t)
    <3>1. UNCHANGED <<at, config, process, pending>>
      BY <2>3 DEF Swallow, SigstopStop, KernelConnect, ChainAborts, ipcVars, shmVars
    <3> QED BY <3>1, PendStep
  <2>4. CASE KernelMmap(t)
    <3>1. PICK addr : pending' = [pending EXCEPT ![t] = [call |-> "mmap", addr |-> addr]]
      BY <2>4 DEF KernelMmap
    <3>2. PICK d : d = [call |-> "mmap", addr |-> addr]
      OBVIOUS
    <3>3. UNCHANGED <<at, config, process>> /\ InChain(t, "CSTATE_SHMAT_MMAP")
      BY <2>4 DEF KernelMmap, ipcVars
    <3>4. d.call = "mmap" /\ InCall(d, config[t], at[t]) /\ at[t] # "none"
      BY <3>2, <3>3 DEF InChain, InCall
    <3>5. pending'[t] = d /\ \A s \in Tracees : s # t => pending'[s] = pending[s]
      BY <1>0, <3>1, <3>2
    <3> QED BY <3>3, <3>4, <3>5, PendMoved
  <2>5. CASE ExitMmap(t)
    <3>1. ChainDone(t) /\ pending' = [pending EXCEPT ![t] = NoCall] /\ process' = process
      BY <2>5 DEF ExitMmap
    <3> QED BY <1>0, <3>1, PendDone
  <2>6. CASE ChainFails(t)
    <3>1. ChainDone(t) /\ pending' = pending /\ process' = process
      BY <2>6 DEF ChainFails
    <3>2. pending[t] = NoCall
      BY <2>6, CallFree DEF ChainFails, InChain
    <3> QED BY <3>1, <3>2, PendDone
  <2>7. CASE KernelMunmap(t)
    <3>1. /\ UNCHANGED <<at, config, process>> /\ at[t] # "none"
          /\ pending' = [pending EXCEPT ![t] = NoCall]
      BY <2>7 DEF KernelMunmap, ipcVars
    <3>2. pending'[t] = NoCall /\ \A s \in Tracees : s # t => pending'[s] = pending[s]
      BY <1>0, <3>1
    <3> QED BY <3>1, <3>2, PendMoved
  <2>8. CASE ExecveEnter(t)
    <3>1. PICK d : d = [call |-> "execve"]
      OBVIOUS
    <3>2. /\ at' = [at EXCEPT ![t] = "kernel"] /\ CanCall(t)
          /\ pending' = [pending EXCEPT ![t] = d] /\ UNCHANGED <<config, process>>
      BY <2>8, <3>1 DEF ExecveEnter
    <3>3. /\ pending'[t] = d /\ at'[t] = "kernel" /\ at[t] # "none"
          /\ \A s \in Tracees : s # t => pending'[s] = pending[s] /\ at'[s] = at[s]
      BY <1>0, <3>2 DEF CanCall
    <3>4. d.call # "clone" /\ InCall(d, config[t], "kernel")
      BY <3>1, <3>2, CallerIdle DEF InCall, Idle
    <3> QED BY <3>2, <3>3, <3>4, PendMoved
  <2>9. CASE ExecveRefused(t)
    <3>1. /\ at' = [at EXCEPT ![t] = "user"] /\ at[t] = "kernel"
          /\ pending' = [pending EXCEPT ![t] = NoCall] /\ UNCHANGED <<config, process>>
      BY <2>9 DEF ExecveRefused
    <3>2. /\ pending'[t] = NoCall
          /\ \A s \in Tracees : s # t => pending'[s] = pending[s] /\ at'[s] = at[s]
      BY <1>0, <3>1
    <3> QED BY <3>1, <3>2, PendMoved
  <2>10. CASE Kill(t) \/ ExecveDone(t)
    <3>1. PICK D \in SUBSET Tracees :
            Ends(D, t) /\ (t \in D \/ pending[t].call = "execve") /\ D \subseteq Threads(t) \cup {t}
      BY <2>10, EndIs
    <3>2. at[t] # "none" BY <2>10 DEF Kill, ExecveDone
    <3>3. /\ at' = [s \in Tracees |-> IF s \in D THEN "dead" ELSE IF s = t THEN "user" ELSE at[s]]
          /\ pending' = [s \in Tracees |-> IF s \in D \cup {t} THEN NoCall ELSE pending[s]]
          /\ config' = config /\ process' = process
      BY <3>1 DEF Ends
    <3>4. \A s \in D : at[s] # "none" BY <3>1, <3>2 DEF Threads
    <3>5. \A s \in Tracees : \/ pending'[s] = NoCall
                             \/ pending'[s] = pending[s] /\ at'[s] = at[s] /\ config'[s] = config[s]
      BY <3>3
    <3>6. \A s \in Tracees : at'[s] # "none" => at[s] # "none" /\ process'[s] = process[s]
      BY <3>2, <3>3, <3>4
    <3> QED BY <3>5, <3>6, PendStep
  <2>11. CASE Exit(t)
    <3>1. at' = [at EXCEPT ![t] = "dead"] /\ CanCall(t) /\ UNCHANGED <<config, process, pending>>
      BY <2>11 DEF Exit, shmVars
    <3>2. pending[t] = NoCall /\ at[t] # "none"
      BY <3>1, CallFree DEF CanCall
    <3>3. \A s \in Tracees : s # t => at'[s] = at[s]
      BY <1>0, <3>1
    <3> QED BY <3>1, <3>2, <3>3, PendMoved
  <2>12. CASE ReapTracee(t)
    <3>1. /\ at' = [at EXCEPT ![t] = "none"] /\ config' = [config EXCEPT ![t] = ZeroConfig]
          /\ at[t] = "dead" /\ pending' = pending /\ process' = [process EXCEPT ![t] = t]
      BY <2>12 DEF ReapTracee, Reap
    <3>2. pending[t] = NoCall
      BY <3>1, CallFree
    <3>3. /\ at'[t] = "none"
          /\ \A s \in Tracees : s # t =>
               at'[s] = at[s] /\ config'[s] = config[s] /\ process'[s] = process[s]
      BY <1>0, <3>1 DEF WaitInv, MemTypeOK
    <3> QED BY <3>1, <3>2, <3>3, PendStep
  <2>13. ASSUME NEW child \in Tracees, NewChild(t, child) PROVE PendInv'
    BY <2>13, PendChild
  <2> QED BY <1>1, <2>1, <2>2, <2>3, <2>4, <2>5, <2>6, <2>7, <2>8, <2>9, <2>10, <2>11,
             <2>12, <2>13 DEF Step, Stop
<1>2. ASSUME NEW t \in Tracees, NEW sigsys \in SigsysModes, Syscall(t, sigsys)
      PROVE  PendInv'
  <2>1. CASE ~\E addr \in DetachAddrs : Shmdt(t, sigsys, addr)
    <3>1. /\ CanCall(t) /\ UNCHANGED <<process, pending>>
          /\ \E c : SyscallCommon(t, c, "OK", sigsys)
      BY <1>2, <2>1 DEF Syscall, ShmgetCreate, Query, Shmat, ShmctlRmid, shmVars
    <3>2. \A s \in Tracees : s # t => at'[s] = at[s] /\ config'[s] = config[s]
      BY <1>0, <3>1 DEF SyscallCommon
    <3>3. pending[t] = NoCall /\ at[t] # "none"
      BY <3>1, CallFree DEF CanCall
    <3> QED BY <3>1, <3>2, <3>3, PendMoved
  <2>2. ASSUME NEW addr \in DetachAddrs, Shmdt(t, sigsys, addr) PROVE PendInv'
    <3>1. PICK d : d = [call |-> "munmap", addr |-> addr]
      OBVIOUS
    <3>2. PICK c : c = [config[t] EXCEPT !.chain_state = "CSTATE_SINGLE"]
      OBVIOUS
    <3>3. /\ pending' = [pending EXCEPT ![t] = d] /\ process' = process
          /\ CanCall(t) /\ SyscallCommon(t, c, "OK", sigsys)
      BY <2>2, <3>1, <3>2 DEF Shmdt
    <3>4. c.chain_state = "CSTATE_SINGLE" /\ c.wait_state = "WSTATE_NOT_WAITING"
      BY <1>0, <3>2, <3>3, CallerConfig DEF Configs
    <3>5. PICK e : e = CommonConfig(c, "OK", sigsys)
      OBVIOUS
    <3>6. PICK a : a = CommonAt(c, sigsys)
      OBVIOUS
    <3>7. e.chain_state = "CSTATE_NOT_CHAINED" /\ e.wait_state = "WSTATE_NOT_WAITING"
      <4>1. e = [c EXCEPT !.chain_state = "CSTATE_NOT_CHAINED"]
        BY <3>4, <3>5 DEF CommonConfig
      <4>2. e = [config[t] EXCEPT !.chain_state = "CSTATE_NOT_CHAINED"]
        BY <1>0, <3>2, <4>1 DEF Configs
      <4> QED BY <1>0, <4>2, <3>3, CallerConfig DEF Configs
    <3>8. a \in {"rewound", "kernel"}
      BY <3>4, <3>6 DEF CommonAt, Resume
    <3>9. /\ config'[t] = e /\ at'[t] = a /\ pending'[t] = d
          /\ \A s \in Tracees : s # t =>
               at'[s] = at[s] /\ config'[s] = config[s] /\ pending'[s] = pending[s]
      BY <1>0, <3>3, <3>5, <3>6 DEF SyscallCommon
    <3>10. d.call # "clone" /\ InCall(d, e, a) /\ at[t] # "none"
      BY <3>1, <3>3, <3>7, <3>8 DEF InCall, CanCall
    <3> QED BY <3>3, <3>9, <3>10, PendMoved
  <2> QED BY <2>1, <2>2
<1>3. ASSUME NEW parent \in Tracees, NEW child \in Tracees, NEW thread \in CloneThread,
             KernelClone(parent, child, thread)
      PROVE  PendInv'
  BY <1>3, PendClone
<1>4. CASE HelperDistribute
  <2>1. UNCHANGED <<at, config, process, pending>>
    BY <1>4 DEF HelperDistribute, ipcVars
  <2> QED BY <2>1, PendStep
<1>5. CASE UNCHANGED vars
  <2>1. UNCHANGED <<at, config, process, pending>>
    BY <1>5 DEF vars
  <2> QED BY <2>1, PendStep
<1> QED BY <1>1, <1>2, <1>3, <1>4, <1>5 DEF Next, Terminated

(* The type invariant holds, for every value of the constants: slots,      *)
(* descriptors, addresses and list positions that the handlers compute     *)
(* exist when they are used.                                               *)
THEOREM TypeCorrect == Spec => []TypeOK
<1> DEFINE I == WaitInv /\ PendInv
<1>1. Init => I BY InitWait, InitPend
<1>2. I /\ [Next]_vars => I' BY NextWait, NextPend
<1>3. I => TypeOK BY TypeParts DEF WaitInv
<1> QED BY <1>1, <1>2, <1>3, PTL DEF Spec
-----------------------------------------------------------------------------
(* The helper.                                                             *)

(* Types of what the helper sees.                                          *)
LEMMA HelperTypes ==
  ASSUME WaitInv
  PROVE  /\ requests \in Seq(Fds) /\ backlog \in Seq(Tracees \cup {Closed})
         /\ inbox \in [Tracees -> Fds \cup {None}]
         /\ Len(requests) \in Nat /\ Len(backlog) \in Nat
         /\ \A k \in 1..Len(backlog) : backlog[k] \in Tracees \cup {Closed}
BY DEF WaitInv, MemTypeOK

(* A tracee that has a descriptor in its inbox is no longer in the queue.  *)
LEMMA InboxOrBacklog ==
  ASSUME HelperInv, NEW t \in Tracees, inbox[t] # None, NEW k \in 1..Len(backlog)
  PROVE  backlog[k] # t
BY ShmAssumption DEF HelperInv

(* Fewer unserved connections need no more of the queue.                   *)
LEMMA Fewer ==
  ASSUME HelperInv, NEW U, U \subseteq Unserved
  PROVE  IsFiniteSet(U) /\ Cardinality(U) \in Nat /\ Cardinality(Unserved) \in Nat
           /\ Cardinality(U) <= Cardinality(Unserved)
<1>1. IsFiniteSet(Unserved) BY DEF HelperInv
<1> QED BY <1>1, FS_Subset, FS_CardinalityType

(* Nothing the helper sees has changed.                                    *)
LEMMA HelperKept ==
  ASSUME HelperInv, HelperFrame, UNCHANGED <<requests, backlog, inbox>>
  PROVE  HelperInv'
<1>1. \A s \in Tracees : Connected(s)' <=> Connected(s)
  BY DEF Connected
<1>2. ASSUME NEW s \in Tracees, Connected(s)
      PROVE  /\ at'[s] = "kernel" /\ config'[s].chain_state = config[s].chain_state
             /\ config[s].chain_state \in {"CSTATE_SHMAT_CONNECT", "CSTATE_SHMAT_RECVMSG"}
  BY <1>2 DEF HelperFrame, HelperInv
<1>3. Unserved' = Unserved
  BY <1>1, <1>2 DEF Unserved
<1> QED BY <1>1, <1>2, <1>3 DEF HelperInv

(* The sockets of the tracees D are closed, with a chain or with their     *)
(* process.                                                                *)
LEMMA HelperHangup ==
  ASSUME WaitInv, HelperInv, NEW D, D \subseteq Tracees,
         backlog' = Hangup(D), UNCHANGED requests,
         inbox' = [s \in Tracees |-> IF s \in D THEN None ELSE inbox[s]],
         \A s \in Tracees :
           s \notin D /\ at[s] = "kernel"
             /\ config[s].chain_state \in {"CSTATE_SHMAT_CONNECT", "CSTATE_SHMAT_RECVMSG"}
           => at'[s] = "kernel" /\ config'[s].chain_state = config[s].chain_state
  PROVE  HelperInv'
<1>0. /\ inbox \in [Tracees -> Fds \cup {None}] /\ Len(backlog) \in Nat
      /\ Len(requests) \in Nat
      /\ \A k \in 1..Len(backlog) : backlog[k] \in Tracees \cup {Closed}
  BY HelperTypes
<1>1. /\ Len(backlog') = Len(backlog)
      /\ \A k \in 1..Len(backlog) :
           backlog'[k] = IF backlog[k] \in D THEN Closed ELSE backlog[k]
  BY HangupFacts
<1>2. Closed \notin Tracees
  BY ShmAssumption
<1>3. \A s \in D : ~Connected(s)'
  BY <1>0, <1>1, <1>2 DEF Connected
<1>4. ASSUME NEW s \in Tracees, Connected(s)' PROVE s \notin D /\ Connected(s)
  <2>1. s \notin D BY <1>3, <1>4
  <2> QED BY <1>0, <1>1, <1>2, <1>4, <2>1 DEF Connected
<1>5. ASSUME NEW s \in Tracees, Connected(s)'
      PROVE  /\ at'[s] = "kernel" /\ config'[s].chain_state = config[s].chain_state
             /\ config[s].chain_state \in {"CSTATE_SHMAT_CONNECT", "CSTATE_SHMAT_RECVMSG"}
  BY <1>4, <1>5 DEF HelperInv
<1>6. Unserved' \subseteq Unserved
  BY <1>4, <1>5 DEF Unserved
<1>7. IsFiniteSet(Unserved') /\ Len(requests') + Cardinality(Unserved') <= Len(backlog')
  <2>1. /\ IsFiniteSet(Unserved') /\ Cardinality(Unserved') \in Nat
        /\ Cardinality(Unserved) \in Nat /\ Cardinality(Unserved') <= Cardinality(Unserved)
    BY <1>6, Fewer
  <2>2. Len(requests) + Cardinality(Unserved) <= Len(backlog)
    BY DEF HelperInv
  <2> QED BY <1>0, <1>1, <2>1, <2>2
<1>8. \A j, k \in 1..Len(backlog') :
        backlog'[j] = backlog'[k] /\ backlog'[j] # Closed => j = k
  BY <1>0, <1>1 DEF HelperInv
<1>9. ASSUME NEW k \in 1..Len(backlog'), backlog'[k] # Closed
      PROVE  inbox'[backlog'[k]] = None
  <2>1. k \in 1..Len(backlog) /\ backlog'[k] = backlog[k] /\ backlog[k] \in Tracees
    BY <1>0, <1>1, <1>9
  <2>2. inbox[backlog[k]] = None
    BY <1>9, <2>1 DEF HelperInv
  <2> QED BY <2>1, <2>2
<1> QED BY <1>5, <1>7, <1>8, <1>9 DEF HelperInv

(* The kernel queues the connection of t.                                  *)
LEMMA HelperConnect ==
  ASSUME WaitInv, HelperInv, NEW t \in Tracees, KernelConnect(t)
  PROVE  HelperInv'
<1>0. /\ backlog \in Seq(Tracees \cup {Closed})
      /\ inbox \in [Tracees -> Fds \cup {None}] /\ Len(backlog) \in Nat
      /\ Len(requests) \in Nat
      /\ \A k \in 1..Len(backlog) : backlog[k] \in Tracees \cup {Closed}
  BY HelperTypes
<1>1. /\ backlog' = Append(backlog, t) /\ ~Connected(t)
      /\ at[t] = "kernel" /\ config[t].chain_state = "CSTATE_SHMAT_CONNECT"
      /\ UNCHANGED <<at, config, requests, inbox>>
  BY DEF KernelConnect, InChain, ipcVars
<1>2. /\ Len(backlog') = Len(backlog) + 1 /\ backlog'[Len(backlog) + 1] = t
      /\ \A k \in 1..Len(backlog) : backlog'[k] = backlog[k]
      /\ \A k \in 1..Len(backlog') : k \in 1..Len(backlog) \/ k = Len(backlog) + 1
  BY <1>0, <1>1
<1>3. inbox[t] = None /\ \A k \in 1..Len(backlog) : backlog[k] # t
  BY <1>1 DEF Connected
<1>4. Connected(t)'
  <2>1. Len(backlog) + 1 \in 1..Len(backlog') BY <1>0, <1>2
  <2> QED BY <1>2, <2>1 DEF Connected
<1>5. \A s \in Tracees : s # t => (Connected(s)' <=> Connected(s))
  <2>1. \A k \in 1..Len(backlog) : k \in 1..Len(backlog') BY <1>0, <1>2
  <2> QED BY <1>1, <1>2, <2>1 DEF Connected
<1>6. Unserved' = Unserved \cup {t} /\ t \notin Unserved
  BY <1>1, <1>4, <1>5 DEF Unserved
<1>7. IsFiniteSet(Unserved') /\ Len(requests') + Cardinality(Unserved') <= Len(backlog')
  <2>1. IsFiniteSet(Unserved) /\ Len(requests) + Cardinality(Unserved) <= Len(backlog)
    BY DEF HelperInv
  <2>2. /\ IsFiniteSet(Unserved \cup {t})
        /\ Cardinality(Unserved \cup {t}) = Cardinality(Unserved) + 1
        /\ Cardinality(Unserved) \in Nat
    BY <1>6, <2>1, FS_AddElement, FS_CardinalityType
  <2> QED BY <1>0, <1>1, <1>2, <1>6, <2>1, <2>2
<1>8. \A j, k \in 1..Len(backlog') :
        backlog'[j] = backlog'[k] /\ backlog'[j] # Closed => j = k
  BY <1>2, <1>3 DEF HelperInv
<1>9. \A k \in 1..Len(backlog') : backlog'[k] # Closed => inbox'[backlog'[k]] = None
  BY <1>1, <1>2, <1>3 DEF HelperInv
<1>10. \A s \in Tracees : Connected(s)' =>
         /\ at'[s] = "kernel"
         /\ config'[s].chain_state \in {"CSTATE_SHMAT_CONNECT", "CSTATE_SHMAT_RECVMSG"}
  BY <1>1, <1>5 DEF HelperInv
<1> QED BY <1>7, <1>8, <1>9, <1>10 DEF HelperInv

(* connect() returns to t, and PRoot tells the helper to serve one more.   *)
LEMMA HelperRequest ==
  ASSUME WaitInv, HelperInv, NEW t \in Tracees, ExitConnect(t)
  PROVE  HelperInv'
<1>0. /\ requests \in Seq(Fds) /\ Len(requests) \in Nat /\ Len(backlog) \in Nat
  BY HelperTypes
<1>1. /\ at' = at /\ config'[t].chain_state = "CSTATE_SHMAT_RECVMSG"
      /\ \A s \in Tracees : s # t => config'[s] = config[s]
  BY ReturnStep
<1>2. /\ UNCHANGED <<backlog, inbox>> /\ Connected(t)
      /\ config[t].chain_state = "CSTATE_SHMAT_CONNECT"
      /\ \E x : requests' = Append(requests, x)
  BY DEF ExitConnect, InChain
<1>3. \A s \in Tracees : Connected(s)' <=> Connected(s)
  BY <1>2 DEF Connected
<1>4. Unserved' = Unserved \ {t} /\ t \in Unserved
  BY <1>1, <1>2, <1>3 DEF Unserved
<1>5. IsFiniteSet(Unserved') /\ Len(requests') + Cardinality(Unserved') <= Len(backlog')
  <2>1. IsFiniteSet(Unserved) /\ Len(requests) + Cardinality(Unserved) <= Len(backlog)
    BY DEF HelperInv
  <2>2. /\ IsFiniteSet(Unserved \ {t})
        /\ Cardinality(Unserved \ {t}) = Cardinality(Unserved) - 1
        /\ Cardinality(Unserved) \in Nat
    BY <1>4, <2>1, FS_RemoveElement, FS_CardinalityType
  <2>3. Len(requests') = Len(requests) + 1
    BY <1>0, <1>2
  <2> QED BY <1>0, <1>2, <1>4, <2>1, <2>2, <2>3
<1> QED BY <1>1, <1>2, <1>3, <1>5 DEF HelperInv

(* The helper serves the oldest connection.                                *)
LEMMA HelperServes ==
  ASSUME WaitInv, HelperInv, HelperDistribute
  PROVE  HelperInv'
<1>0. /\ backlog \in Seq(Tracees \cup {Closed}) /\ requests \in Seq(Fds)
      /\ inbox \in [Tracees -> Fds \cup {None}] /\ Len(backlog) \in Nat
      /\ Len(requests) \in Nat
      /\ \A k \in 1..Len(backlog) : backlog[k] \in Tracees \cup {Closed}
  BY HelperTypes
<1>1. /\ requests # <<>> /\ backlog # <<>>
      /\ requests' = Tail(requests) /\ backlog' = Tail(backlog)
      /\ inbox' = IF Head(backlog) = Closed THEN inbox
                  ELSE [inbox EXCEPT ![Head(backlog)] = Head(requests)]
      /\ UNCHANGED <<at, config>>
  BY DEF HelperDistribute, ipcVars
<1>2. PICK h : h = Head(backlog)
  OBVIOUS
<1>3. PICK fd : fd = Head(requests)
  OBVIOUS
<1>4. /\ h = backlog[1] /\ 1 \in 1..Len(backlog) /\ h \in Tracees \cup {Closed}
      /\ Len(backlog') = Len(backlog) - 1 /\ Len(requests') = Len(requests) - 1
      /\ \A k \in 1..Len(backlog') : k + 1 \in 1..Len(backlog) /\ backlog'[k] = backlog[k + 1]
      /\ \A k \in 1..Len(backlog) : k = 1 \/ k - 1 \in 1..Len(backlog')
  BY <1>0, <1>1, <1>2
<1>5. fd \in Fds /\ fd # None
  <2>1. fd \in Fds BY <1>0, <1>1, <1>3
  <2>2. fd.shm # 0 BY <2>1, ShmAssumption DEF Fds
  <2> QED BY <2>1, <2>2 DEF None
<1>6. /\ \A k \in 1..Len(backlog') : backlog'[k] # Closed => backlog'[k] # h
      /\ h # Closed => /\ h \in Tracees /\ inbox'[h] = fd
                       /\ \A s \in Tracees : s # h => inbox'[s] = inbox[s]
      /\ h = Closed => inbox' = inbox
  <2>1. \A k \in 1..Len(backlog') : backlog'[k] # Closed => backlog'[k] # h
    <3> SUFFICES ASSUME NEW k \in 1..Len(backlog'), backlog'[k] # Closed, backlog'[k] = h
                 PROVE  FALSE
      OBVIOUS
    <3>1. k + 1 \in 1..Len(backlog) /\ backlog[k + 1] = backlog[1] /\ backlog[k + 1] # Closed
      BY <1>4
    <3>2. k + 1 = 1
      BY <1>4, <3>1 DEF HelperInv
    <3> QED BY <3>2
  <2>2. h # Closed => /\ h \in Tracees /\ inbox'[h] = fd
                      /\ \A s \in Tracees : s # h => inbox'[s] = inbox[s]
    BY <1>0, <1>1, <1>2, <1>3, <1>4
  <2> QED BY <1>1, <1>2, <2>1, <2>2
<1>7. ASSUME NEW s \in Tracees PROVE Connected(s)' <=> Connected(s)
  <2>1. CASE s = h
    <3>1. h # Closed BY <2>1, ShmAssumption
    <3>2. Connected(s) BY <1>4, <2>1 DEF Connected
    <3>3. Connected(s)' BY <1>5, <1>6, <2>1, <3>1 DEF Connected
    <3> QED BY <3>2, <3>3
  <2>2. CASE s # h
    <3>1. inbox'[s] = inbox[s] BY <1>6, <2>2
    <3>2. (\E k \in 1..Len(backlog') : backlog'[k] = s)
            <=> (\E k \in 1..Len(backlog) : backlog[k] = s)
      <4>1. ASSUME NEW k \in 1..Len(backlog), backlog[k] = s
            PROVE  \E j \in 1..Len(backlog') : backlog'[j] = s
        <5>1. k # 1 BY <1>4, <2>2, <4>1
        <5>2. k - 1 \in 1..Len(backlog') BY <1>4, <5>1
        <5>3. backlog'[k - 1] = backlog[(k - 1) + 1] BY <1>4, <5>2
        <5>4. (k - 1) + 1 = k OBVIOUS
        <5> QED BY <4>1, <5>2, <5>3, <5>4
      <4> QED BY <1>4, <4>1
    <3> QED BY <3>1, <3>2 DEF Connected
  <2> QED BY <2>1, <2>2
<1>8. Unserved' = Unserved
  BY <1>1, <1>7 DEF Unserved
<1>9. IsFiniteSet(Unserved') /\ Len(requests') + Cardinality(Unserved') <= Len(backlog')
  <2>1. IsFiniteSet(Unserved) /\ Len(requests) + Cardinality(Unserved) <= Len(backlog)
    BY DEF HelperInv
  <2>2. Cardinality(Unserved) \in Nat
    BY <2>1, FS_CardinalityType
  <2> QED BY <1>0, <1>4, <1>8, <2>1, <2>2
<1>10. ASSUME NEW j \in 1..Len(backlog'), NEW k \in 1..Len(backlog'),
              backlog'[j] = backlog'[k], backlog'[j] # Closed
       PROVE  j = k
  <2>1. j + 1 = k + 1
    BY <1>4, <1>10 DEF HelperInv
  <2> QED BY <2>1
<1>11. ASSUME NEW k \in 1..Len(backlog'), backlog'[k] # Closed
       PROVE  inbox'[backlog'[k]] = None
  <2>1. backlog'[k] = backlog[k + 1] /\ k + 1 \in 1..Len(backlog) /\ backlog'[k] # h
    BY <1>4, <1>6, <1>11
  <2>2. backlog'[k] \in Tracees /\ inbox[backlog'[k]] = None
    BY <1>0, <1>11, <2>1 DEF HelperInv
  <2> QED BY <1>6, <2>1, <2>2
<1> QED BY <1>1, <1>7, <1>9, <1>10, <1>11 DEF HelperInv

(* recvmsg() returns to t the helper's message.                            *)
LEMMA HelperReceived ==
  ASSUME WaitInv, HelperInv, NEW t \in Tracees, ExitRecvmsg(t)
  PROVE  HelperInv'
<1>0. inbox \in [Tracees -> Fds \cup {None}]
        /\ \A k \in 1..Len(backlog) : backlog[k] \in Tracees \cup {Closed}
  BY HelperTypes
<1>1. /\ UNCHANGED <<at, requests, backlog>> /\ inbox' = [inbox EXCEPT ![t] = None]
      /\ inbox[t] # None /\ config[t].chain_state = "CSTATE_SHMAT_RECVMSG"
      /\ \A s \in Tracees : s # t => config'[s] = config[s]
  BY ReturnStep DEF ExitRecvmsg, InChain, Advance
<1>2. ~Connected(t)'
  BY <1>0, <1>1, InboxOrBacklog DEF Connected
<1>3. \A s \in Tracees : s # t => (Connected(s)' <=> Connected(s))
  BY <1>0, <1>1 DEF Connected
<1>4. Unserved' = Unserved
  BY <1>1, <1>2, <1>3 DEF Unserved
<1>5. \A k \in 1..Len(backlog') : backlog'[k] # Closed => inbox'[backlog'[k]] = None
  BY <1>0, <1>1 DEF HelperInv
<1>6. \A s \in Tracees : Connected(s)' =>
        /\ at'[s] = "kernel"
        /\ config'[s].chain_state \in {"CSTATE_SHMAT_CONNECT", "CSTATE_SHMAT_RECVMSG"}
  BY <1>1, <1>2, <1>3 DEF HelperInv
<1> QED BY <1>1, <1>4, <1>5, <1>6 DEF HelperInv

(* At the start nobody talks to the helper.                                *)
LEMMA InitHelper == Init => HelperInv
<1> SUFFICES ASSUME Init PROVE HelperInv
  OBVIOUS
<1>1. requests = <<>> /\ backlog = <<>> /\ inbox = [s \in Tracees |-> None]
  BY DEF Init
<1>2. Len(requests) = 0 /\ Len(backlog) = 0
  BY <1>1
<1>3. \A s \in Tracees : ~Connected(s)
  <2>1. \A s \in Tracees : inbox[s] = None BY <1>1
  <2>2. 1..Len(backlog) = {} BY <1>2
  <2> QED BY <2>1, <2>2 DEF Connected
<1>4. Unserved = {}
  BY <1>3 DEF Unserved
<1>5. IsFiniteSet(Unserved) /\ Cardinality(Unserved) = 0
  BY <1>4, FS_EmptySet
<1> QED BY <1>2, <1>3, <1>5 DEF HelperInv

(* Every action keeps the helper's part of the invariant.                  *)
LEMMA NextHelper == WaitInv /\ PendInv /\ HelperInv /\ [Next]_vars => HelperInv'
<1> SUFFICES ASSUME WaitInv, PendInv, HelperInv, [Next]_vars PROVE HelperInv'
  OBVIOUS
<1>1. ASSUME NEW t \in Tracees, Step(t) PROVE HelperInv'
  <2>1. CASE \/ StartPpoll(t) \/ StartReplaced(t) \/ ChainedEnter(t) \/ ChainedExit(t)
             \/ EndVoid(t) \/ EndStatus(t) \/ EndPpoll(t) \/ Swallow(t) \/ ExitSocket(t)
    <3>1. HelperFrame /\ UNCHANGED shmVars
      BY <2>1, StopStep
    <3> QED BY <3>1, HelperKept DEF shmVars
  <2>2. CASE KernelConnect(t) BY <2>2, HelperConnect
  <2>3. CASE ExitConnect(t) BY <2>3, HelperRequest
  <2>4. CASE ExitRecvmsg(t) BY <2>4, HelperReceived
  <2>5. CASE ExitMmap(t)
    <3>1. HelperFrame
      <4>1. config[t].chain_state = "CSTATE_SHMAT_MMAP" BY <2>5 DEF ExitMmap, InChain
      <4> QED BY <2>5, <4>1, ExitMmapStep DEF HelperFrame
    <3> QED BY <2>5, <3>1, HelperKept DEF ExitMmap
  <2>6. CASE ChainFails(t)
    <3>1. \A s \in Tracees :
            s \notin {t} /\ at[s] = "kernel"
              /\ config[s].chain_state \in {"CSTATE_SHMAT_CONNECT", "CSTATE_SHMAT_RECVMSG"}
            => at'[s] = "kernel" /\ config'[s].chain_state = config[s].chain_state
      BY <2>6, ChainFailsStep
    <3>2. /\ backlog' = Hangup({t}) /\ inbox' = [inbox EXCEPT ![t] = None]
          /\ UNCHANGED requests
      BY <2>6 DEF ChainFails
    <3>3. inbox' = [s \in Tracees |-> IF s \in {t} THEN None ELSE inbox[s]]
      BY <3>2, HelperTypes
    <3> QED BY <3>1, <3>2, <3>3, HelperHangup
  <2>7. CASE Kill(t) \/ ExecveDone(t)
    <3>1. PICK D \in SUBSET Tracees :
            Ends(D, t) /\ (t \in D \/ pending[t].call = "execve")
      BY <2>7, EndIs
    <3>2. /\ backlog' = Hangup(D) /\ UNCHANGED requests
          /\ inbox' = [s \in Tracees |-> IF s \in D THEN None ELSE inbox[s]]
      BY <3>1 DEF Ends
    <3>3. /\ config' = config /\ (t \notin D => Idle(config[t]))
          /\ \A s \in Tracees : s \notin D /\ s # t => at'[s] = at[s]
      BY <3>1, EndsStep
    <3>4. \A s \in Tracees :
            s \notin D /\ at[s] = "kernel"
              /\ config[s].chain_state \in {"CSTATE_SHMAT_CONNECT", "CSTATE_SHMAT_RECVMSG"}
            => at'[s] = "kernel" /\ config'[s].chain_state = config[s].chain_state
      BY <3>3 DEF Idle
    <3> QED BY <3>2, <3>4, HelperHangup
  <2>8. CASE ReapTracee(t)
    <3>1. HelperFrame /\ UNCHANGED <<requests, backlog, inbox>>
      BY <2>8, ReapStep
    <3> QED BY <3>1, HelperKept
  <2>9. CASE ChainAborts(t) \/ KernelMmap(t) \/ KernelMunmap(t)
    BY <2>9, HelperKept DEF ChainAborts, KernelMmap, KernelMunmap, HelperFrame, ipcVars
  <2>10. CASE ExecveEnter(t)
    <3>1. HelperFrame BY <2>10, ExecveStep
    <3> QED BY <2>10, <3>1, HelperKept DEF ExecveEnter
  <2>11. CASE ExecveRefused(t)
    <3>1. HelperFrame BY <2>11, RefusedStep
    <3> QED BY <2>11, <3>1, HelperKept DEF ExecveRefused
  <2>12. CASE Exit(t)
    <3>1. HelperFrame /\ UNCHANGED shmVars BY <2>12, ExitStep
    <3> QED BY <3>1, HelperKept DEF shmVars
  <2>13. ASSUME NEW child \in Tracees, NewChild(t, child) PROVE HelperInv'
    <3>1. HelperFrame BY <2>13, ChildStep
    <3> QED BY <2>13, <3>1, HelperKept DEF NewChild
  <2> QED BY <1>1, <2>1, <2>2, <2>3, <2>4, <2>5, <2>6, <2>7, <2>8, <2>9, <2>10, <2>11,
             <2>12, <2>13 DEF Step, Stop
<1>2. ASSUME NEW t \in Tracees, NEW sigsys \in SigsysModes, Syscall(t, sigsys)
      PROVE  HelperFrame /\ UNCHANGED <<requests, backlog, inbox>>
  <2>0. sigsys \in BOOLEAN BY ShmAssumption
  <2>1. ASSUME NEW ok \in {TRUE, ~Faults}, ShmgetCreate(t, sigsys, ok)
        PROVE  HelperFrame /\ UNCHANGED <<requests, backlog, inbox>>
    <3>1. ok \in BOOLEAN BY ShmAssumption
    <3> QED BY <2>0, <2>1, <3>1, ShmgetStep DEF ShmgetCreate
  <2>2. CASE Query(t, sigsys)
    BY <2>0, <2>2, QueryStep DEF shmVars
  <2>3. ASSUME NEW addr \in DetachAddrs, Shmdt(t, sigsys, addr)
        PROVE  HelperFrame /\ UNCHANGED <<requests, backlog, inbox>>
    BY <2>0, <2>3, ShmdtStep DEF Shmdt
  <2>4. ASSUME NEW i \in 1..Len(shms), Shmat(t, sigsys, i)
        PROVE  HelperFrame /\ UNCHANGED <<requests, backlog, inbox>>
    BY <2>0, <2>4, ShmatStep DEF Shmat
  <2>5. ASSUME NEW i \in 1..Len(shms), ShmctlRmid(t, sigsys, i)
        PROVE  HelperFrame /\ UNCHANGED <<requests, backlog, inbox>>
    BY <2>0, <2>5, RmidStep DEF ShmctlRmid
  <2> QED BY <1>2, <2>1, <2>2, <2>3, <2>4, <2>5 DEF Syscall
<1>3. ASSUME NEW parent \in Tracees, NEW child \in Tracees, NEW thread \in CloneThread,
             KernelClone(parent, child, thread)
      PROVE  HelperInv'
  <2>1. thread \in BOOLEAN BY ShmAssumption
  <2>2. HelperFrame BY <1>3, <2>1, CloneStep
  <2> QED BY <1>3, <2>2, HelperKept DEF KernelClone
<1>4. CASE HelperDistribute
  BY <1>4, HelperServes
<1>5. CASE UNCHANGED vars
  BY <1>5, HelperKept DEF vars, HelperFrame
<1> QED BY <1>1, <1>2, <1>3, <1>4, <1>5, HelperKept DEF Next, Terminated

(* PRoot never waits for a helper that waits for a connection: however     *)
(* the chains of any number of tracees interleave, fail, or end with their *)
(* tracee, the queue holds a connection for every descriptor the helper    *)
(* was told to send (sysvipc_shm_send_helper_request after connect()).     *)
THEOREM HelperServesAll == Spec => []HelperNeverBlocks
<1> DEFINE I == WaitInv /\ PendInv /\ HelperInv
<1>1. Init => I BY InitWait, InitPend, InitHelper
<1>2. I /\ [Next]_vars => I' BY NextWait, NextPend, NextHelper
<1>3. I => HelperNeverBlocks
  <2> SUFFICES ASSUME WaitInv, HelperInv PROVE HelperNeverBlocks
    OBVIOUS
  <2>1. Unserved \subseteq Unserved OBVIOUS
  <2>2. Cardinality(Unserved) \in Nat BY <2>1, Fewer
  <2> QED BY <2>2, HelperTypes DEF HelperInv, HelperNeverBlocks
<1> QED BY <1>1, <1>2, <1>3, PTL DEF Spec
-----------------------------------------------------------------------------
(* Mappings.                                                               *)

(* What Valid says of a list of segments s.                                *)
ValidIn(s, i) == i \in 1..Len(s) /\ s[i].valid

(* The mappings m of all processes fit the segments s.                     *)
Mapped(s, m) ==
  \A p \in Tracees : \A k \in 1..Len(m[p]) :
    ValidIn(s, m[p][k].shm_index) /\ (m[p][k].size = 0 => m[p][k].addr = 0)

(* The invariant of the mappings is the operator Mapped, of this state and *)
(* of the next one.                                                        *)
LEMMA MapInvIs == (MapInv <=> Mapped(shms, mapped_shms))
                  /\ (MapInv' <=> Mapped(shms', mapped_shms'))
BY DEF MapInv, Mapped, Valid, ValidIn

(* Segments may change as long as those that are mapped do not.            *)
LEMMA MapKept ==
  ASSUME NEW s \in Seq(Shm), NEW u, NEW m, Mapped(s, m),
         Len(s) <= Len(u), Len(u) \in Nat,
         \A i \in 1..Len(s) : s[i].valid /\ MapsOf(m, i) # {} => u[i].valid
  PROVE  Mapped(u, m)
<1>0. Len(s) \in Nat
  OBVIOUS
<1>1. ASSUME NEW p \in Tracees, NEW k \in 1..Len(m[p])
      PROVE  /\ ValidIn(u, m[p][k].shm_index)
             /\ m[p][k].size = 0 => m[p][k].addr = 0
  <2>1. PICK i : i = m[p][k].shm_index
    OBVIOUS
  <2>2. ValidIn(s, i) /\ p \in MapsOf(m, i) /\ (m[p][k].size = 0 => m[p][k].addr = 0)
    BY <2>1 DEF MapsOf, Mapped
  <2>3. i \in 1..Len(s) /\ i \in 1..Len(u)
    BY <1>0, <2>2 DEF ValidIn
  <2>4. u[i].valid
    BY <2>2, <2>3 DEF ValidIn
  <2> QED BY <2>1, <2>2, <2>3, <2>4 DEF ValidIn
<1> QED BY <1>1 DEF Mapped

(* Segments change that are free or that nobody has mapped.                *)
LEMMA MapSlots ==
  ASSUME WaitInv, MapInv, UNCHANGED mapped_shms,
         Len(shms) <= Len(shms'), Len(shms') \in Nat,
         \A i \in 1..Len(shms) : Valid(i) /\ MapsOf(mapped_shms, i) # {} => shms'[i].valid
  PROVE  MapInv'
<1>1. shms \in Seq(Shm) /\ Mapped(shms, mapped_shms)
  BY MapInvIs DEF WaitInv, MemTypeOK
<1>2. \A i \in 1..Len(shms) : shms[i].valid /\ MapsOf(mapped_shms, i) # {} => shms'[i].valid
  BY DEF Valid
<1>3. Mapped(shms', mapped_shms)
  BY <1>1, <1>2, MapKept
<1> QED BY <1>3, MapInvIs

(* The k-th mapping of process p goes.                                     *)
LEMMA MapUnlinked ==
  ASSUME WaitInv, MapInv, NEW p \in Tracees, NEW k \in 1..Len(mapped_shms[p]),
         mapped_shms' = [mapped_shms EXCEPT ![p] = Unlink(@, k)],
         shms' = DoRmid(shms, mapped_shms')
  PROVE  MapInv'
<1>1. PICK old : old = mapped_shms[p]
  OBVIOUS
<1>2. PICK q : q = Unlink(old, k)
  OBVIOUS
<1>3. /\ old \in Seq(Mapping) /\ k \in 1..Len(old) /\ Len(old) \in Nat
      /\ mapped_shms \in [Tracees -> Seq(Mapping)]
  BY <1>1 DEF WaitInv, MemTypeOK
<1>4. /\ q \in Seq(Mapping) /\ Len(q) = Len(old) - 1
      /\ \A j \in 1..(k - 1) : q[j] = old[j]
      /\ \A j \in k..(Len(old) - 1) : q[j] = old[j + 1]
  BY <1>2, <1>3, UnlinkType
<1>5. mapped_shms' = [mapped_shms EXCEPT ![p] = q]
  BY <1>1, <1>2
<1>6. /\ mapped_shms' \in [Tracees -> Seq(Mapping)] /\ mapped_shms'[p] = q
      /\ \A s \in Tracees : s # p => mapped_shms'[s] = mapped_shms[s]
      /\ Len(shms') = Len(shms) /\ Len(shms) \in Nat
      /\ \A j \in 1..Len(shms) : MapsOf(mapped_shms', j) # {} => shms'[j] = shms[j]
  BY <1>4, <1>5, UnmapStep
<1>7. Mapped(shms, mapped_shms) /\ shms \in Seq(Shm)
  BY MapInvIs DEF WaitInv, MemTypeOK
<1>8. ASSUME NEW j \in 1..Len(q) PROVE \E n \in 1..Len(old) : q[j] = old[n]
  <2>1. CASE j < k
    <3>1. j \in 1..(k - 1) /\ j \in 1..Len(old) BY <1>3, <1>4, <2>1
    <3> QED BY <1>4, <3>1
  <2>2. CASE ~(j < k)
    <3>1. j \in k..(Len(old) - 1) /\ j + 1 \in 1..Len(old) BY <1>3, <1>4, <2>2
    <3> QED BY <1>4, <3>1
  <2> QED BY <2>1, <2>2
<1>10. ASSUME NEW s \in Tracees, NEW j \in 1..Len(mapped_shms'[s])
       PROVE  /\ ValidIn(shms, mapped_shms'[s][j].shm_index)
              /\ mapped_shms'[s][j].size = 0 => mapped_shms'[s][j].addr = 0
  BY <1>1, <1>6, <1>7, <1>8 DEF Mapped
<1>11. Mapped(shms, mapped_shms')
  BY <1>10 DEF Mapped
<1>12. Mapped(shms', mapped_shms')
  <2>1. \A i \in 1..Len(shms) : shms[i].valid /\ MapsOf(mapped_shms', i) # {} =>
          shms'[i].valid
    BY <1>6
  <2>2. Len(shms) <= Len(shms') /\ Len(shms') \in Nat
    BY <1>6
  <2> QED BY <1>7, <1>11, <2>1, <2>2, MapKept
<1> QED BY <1>12, MapInvIs

(* A new pending mapping.                                                  *)
LEMMA MapShmat ==
  ASSUME WaitInv, MapInv, NEW t \in Tracees, NEW sigsys \in BOOLEAN,
         NEW i \in 1..Len(shms), Shmat(t, sigsys, i)
  PROVE  MapInv'
<1>1. PICK p \in Tracees : p = process[t]
  BY DEF WaitInv, MemTypeOK
<1>2. PICK e : e = [shm_index |-> i, addr |-> 0, size |-> 0]
  OBVIOUS
<1>3. PICK old : old = mapped_shms[p]
  OBVIOUS
<1>4. PICK q : q = <<e>> \o old
  OBVIOUS
<1>5. Valid(i) /\ mapped_shms' = [mapped_shms EXCEPT ![p] = q] /\ UNCHANGED shms
  BY <1>1, <1>2, <1>3, <1>4 DEF Shmat
<1>6. old \in Seq(Mapping) /\ mapped_shms \in [Tracees -> Seq(Mapping)]
  BY <1>3 DEF WaitInv, MemTypeOK
<1>7. /\ q[1] = e /\ Len(q) = Len(old) + 1 /\ Len(old) \in Nat
      /\ \A j \in 1..Len(old) : q[j + 1] = old[j] /\ j + 1 \in 1..Len(q)
      /\ \A j \in 1..Len(q) : j = 1 \/ (j - 1 \in 1..Len(old) /\ q[j] = old[j - 1])
  BY <1>4, <1>6
<1>8. mapped_shms'[p] = q /\ \A s \in Tracees : s # p => mapped_shms'[s] = mapped_shms[s]
  BY <1>5, <1>6
<1>9. Mapped(shms, mapped_shms)
  BY MapInvIs
<1>10. ASSUME NEW s \in Tracees, NEW j \in 1..Len(mapped_shms'[s])
       PROVE  /\ ValidIn(shms, mapped_shms'[s][j].shm_index)
              /\ mapped_shms'[s][j].size = 0 => mapped_shms'[s][j].addr = 0
  <2>1. CASE s = p /\ j = 1
    <3>1. mapped_shms'[s][j] = e BY <1>7, <1>8, <2>1
    <3>2. ValidIn(shms, i) BY <1>5 DEF Valid, ValidIn
    <3> QED BY <1>2, <3>1, <3>2
  <2>2. CASE s = p /\ j # 1
    <3>1. j - 1 \in 1..Len(mapped_shms[p]) /\ mapped_shms'[s][j] = mapped_shms[p][j - 1]
      BY <1>3, <1>7, <1>8, <2>2
    <3> QED BY <1>9, <3>1 DEF Mapped
  <2>3. CASE s # p
    BY <1>8, <1>9, <2>3 DEF Mapped
  <2> QED BY <2>1, <2>2, <2>3
<1>11. Mapped(shms, mapped_shms')
  BY <1>10 DEF Mapped
<1> QED BY <1>5, <1>11, MapInvIs

(* A pending mapping gets its address.                                     *)
LEMMA MapMmap ==
  ASSUME WaitInv, MapInv, NEW t \in Tracees, ExitMmap(t)
  PROVE  MapInv'
<1> DEFINE i == config[t].waiting_object_index
           p == process[t]
<1>1. p \in Tracees
  BY DEF WaitInv, MemTypeOK
<1>2. PICK k \in PendingMaps(p, i), addr \in 1..MmapError :
        /\ pending[t] = [call |-> "mmap", addr |-> addr]
        /\ mapped_shms' = [mapped_shms EXCEPT ![p][k].addr = addr, ![p][k].size = 1]
  BY ExitMmapStep
<1> HIDE DEF p
<1>3. PICK old : old = mapped_shms[p]
  OBVIOUS
<1>4. PICK e : e = [old[k] EXCEPT !.addr = addr, !.size = 1]
  OBVIOUS
<1>6. /\ old \in Seq(Mapping) /\ k \in 1..Len(old) /\ old[k] \in Mapping
      /\ old[k].size = 0 /\ old[k].shm_index = i
      /\ mapped_shms \in [Tracees -> Seq(Mapping)]
  BY <1>1, <1>3 DEF WaitInv, MemTypeOK, PendingMaps
<1>7. e.shm_index = i /\ e.addr = addr /\ e.size = 1
  BY <1>4, <1>6 DEF Mapping
<1>8. mapped_shms' = [mapped_shms EXCEPT ![p] = [old EXCEPT ![k] = e]]
  BY <1>1, <1>2, <1>3, <1>4, <1>6
<1>9. PICK q : q = [old EXCEPT ![k] = e]
  OBVIOUS
<1>10. /\ mapped_shms'[p] = q /\ Len(q) = Len(old) /\ q[k] = e
       /\ \A j \in 1..Len(old) : j # k => q[j] = old[j]
       /\ \A s \in Tracees : s # p => mapped_shms'[s] = mapped_shms[s]
  BY <1>1, <1>6, <1>8, <1>9
<1>12. Mapped(shms, mapped_shms) /\ UNCHANGED shms
  BY MapInvIs DEF ExitMmap
<1>13. ASSUME NEW s \in Tracees, NEW j \in 1..Len(mapped_shms'[s])
       PROVE  /\ ValidIn(shms, mapped_shms'[s][j].shm_index)
              /\ mapped_shms'[s][j].size = 0 => mapped_shms'[s][j].addr = 0
  <2>1. CASE s = p /\ j = k
    <3>1. ValidIn(shms, old[k].shm_index)
      BY <1>1, <1>3, <1>6, <1>12 DEF Mapped
    <3> QED BY <1>6, <1>7, <1>10, <2>1, <3>1
  <2>2. CASE s = p /\ j # k
    <3>1. j \in 1..Len(old) /\ mapped_shms'[s][j] = old[j]
      BY <1>10, <2>2
    <3> QED BY <1>1, <1>3, <1>12, <3>1 DEF Mapped
  <2>3. CASE s # p
    BY <1>10, <1>12, <2>3 DEF Mapped
  <2> QED BY <2>1, <2>2, <2>3
<1>14. Mapped(shms, mapped_shms')
  BY <1>13 DEF Mapped
<1> QED BY <1>12, <1>14, MapInvIs

(* A process is copied.                                                    *)
LEMMA MapChild ==
  ASSUME WaitInv, MapInv, NEW parent \in Tracees, NEW child \in Tracees,
         NewChild(parent, child)
  PROVE  MapInv'
<1>1. UNCHANGED shms
  BY DEF NewChild
<1>2. Mapped(shms, mapped_shms)
  BY MapInvIs
<1>3. \A s \in Tracees : \E p \in Tracees : mapped_shms'[s] = mapped_shms[p]
  <2>1. process[parent] \in Tracees /\ mapped_shms \in [Tracees -> Seq(Mapping)]
    BY DEF WaitInv, MemTypeOK
  <2>2. CASE pending[parent].thread
    BY <2>1, <2>2 DEF NewChild
  <2>3. CASE ~pending[parent].thread
    BY <2>1, <2>3 DEF NewChild
  <2> QED BY <2>2, <2>3
<1>4. ASSUME NEW s \in Tracees, NEW k \in 1..Len(mapped_shms'[s])
      PROVE  /\ ValidIn(shms, mapped_shms'[s][k].shm_index)
             /\ mapped_shms'[s][k].size = 0 => mapped_shms'[s][k].addr = 0
  <2>1. PICK p \in Tracees : mapped_shms'[s] = mapped_shms[p]
    BY <1>3
  <2> QED BY <1>2, <2>1 DEF Mapped
<1>5. Mapped(shms, mapped_shms')
  BY <1>4 DEF Mapped
<1> QED BY <1>1, <1>5, MapInvIs

(* A process drops all it has mapped, with its program or as it ends.      *)
LEMMA MapDropped ==
  ASSUME WaitInv, MapInv, NEW p \in Tracees,
         mapped_shms' = [mapped_shms EXCEPT ![p] = <<>>],
         shms' = DoRmid(shms, mapped_shms')
  PROVE  MapInv'
<1>1. /\ mapped_shms'[p] = <<>>
      /\ \A s \in Tracees : s # p => mapped_shms'[s] = mapped_shms[s]
      /\ Len(shms') = Len(shms) /\ Len(shms) \in Nat
      /\ \A j \in 1..Len(shms) : MapsOf(mapped_shms', j) # {} => shms'[j] = shms[j]
  <2>1. <<>> \in Seq(Mapping) OBVIOUS
  <2> QED BY <2>1, UnmapStep
<1>3. Mapped(shms, mapped_shms) /\ shms \in Seq(Shm)
  BY MapInvIs DEF WaitInv, MemTypeOK
<1>4. Mapped(shms, mapped_shms')
  <2>1. 1..Len(mapped_shms'[p]) = {}
    BY <1>1
  <2> QED BY <1>1, <1>3, <2>1 DEF Mapped
<1>5. \A i \in 1..Len(shms) : shms[i].valid /\ MapsOf(mapped_shms', i) # {} =>
        shms'[i].valid
  BY <1>1
<1>6. Len(shms) <= Len(shms') /\ Len(shms') \in Nat
  BY <1>1
<1>7. Mapped(shms', mapped_shms')
  BY <1>3, <1>4, <1>5, <1>6, MapKept
<1> QED BY <1>7, MapInvIs

(* At the start nothing is mapped.                                         *)
LEMMA InitMap == Init => MapInv
<1> SUFFICES ASSUME Init PROVE MapInv
  OBVIOUS
<1>1. mapped_shms = [s \in Tracees |-> <<>>]
  BY DEF Init
<1>2. \A s \in Tracees : mapped_shms[s] = <<>>
  BY <1>1
<1>3. 1..Len(<<>>) = {}
  OBVIOUS
<1>4. \A s \in Tracees : 1..Len(mapped_shms[s]) = {}
  BY <1>2, <1>3
<1> QED BY ONLY <1>4 DEF MapInv

(* Every action keeps the mappings' part of the invariant.                 *)
LEMMA NextMap == WaitInv /\ MapInv /\ [Next]_vars => MapInv'
<1> SUFFICES ASSUME WaitInv, MapInv, [Next]_vars PROVE MapInv'
  OBVIOUS
<1>0. /\ Len(shms) \in Nat /\ process \in [Tracees -> Tracees]
      /\ mapped_shms \in [Tracees -> Seq(Mapping)]
  BY DEF WaitInv, MemTypeOK
<1>k. ASSUME UNCHANGED <<shms, mapped_shms>> PROVE MapInv'
  BY <1>0, <1>k, MapSlots DEF Valid
<1>1. ASSUME NEW t \in Tracees, Step(t) PROVE MapInv'
  <2>1. CASE \/ StartPpoll(t) \/ StartReplaced(t) \/ ChainedEnter(t) \/ ChainedExit(t)
             \/ EndVoid(t) \/ EndStatus(t) \/ EndPpoll(t) \/ Swallow(t) \/ ExitSocket(t)
    <3>1. UNCHANGED shmVars BY <2>1, StopStep
    <3> QED BY <1>k, <3>1 DEF shmVars
  <2>2. CASE \/ KernelConnect(t) \/ ChainAborts(t) \/ ExitConnect(t) \/ ExitRecvmsg(t)
             \/ Kill(t) \/ ExecveDone(t) \/ ExecveRefused(t) \/ Exit(t)
             \/ KernelMmap(t) \/ KernelMunmap(t)
    <3>1. UNCHANGED <<shms, mapped_shms>>
      BY <2>2 DEF KernelConnect, ChainAborts, ExitConnect, ExitRecvmsg, Kill, ExecveDone,
         Ends, ExecveRefused, Exit, KernelMmap, KernelMunmap, shmVars
    <3> QED BY <1>k, <3>1
  <2>3. CASE ExitMmap(t) BY <2>3, MapMmap
  <2>4. CASE ChainFails(t)
    <3>1. PICK p \in Tracees : p = process[t] BY <1>0
    <3>2. PICK k \in PendingMaps(p, config[t].waiting_object_index) :
            mapped_shms' = [mapped_shms EXCEPT ![p] = Unlink(@, k)]
      BY <2>4, <3>1, ChainFailsStep
    <3>3. k \in 1..Len(mapped_shms[p]) /\ shms' = DoRmid(shms, mapped_shms')
      BY <2>4 DEF PendingMaps, ChainFails
    <3> QED BY <3>1, <3>2, <3>3, MapUnlinked
  <2>5. CASE ReapTracee(t)
    <3>1. CASE Threads(t) = {t}
      <4>1. /\ mapped_shms' = [mapped_shms EXCEPT ![process[t]] = <<>>]
            /\ shms' = DoRmid(shms, mapped_shms') /\ process[t] \in Tracees
        BY <1>0, <2>5, <3>1 DEF ReapTracee
      <4> QED BY <4>1, MapDropped
    <3>2. CASE Threads(t) # {t}
      <4>1. UNCHANGED <<shms, mapped_shms>> BY <2>5, <3>2 DEF ReapTracee
      <4> QED BY <1>k, <4>1
    <3> QED BY <3>1, <3>2
  <2>6. CASE ExecveEnter(t)
    <3>1. /\ mapped_shms' = [mapped_shms EXCEPT ![t] = <<>>]
          /\ shms' = DoRmid(shms, mapped_shms')
      BY <2>6 DEF ExecveEnter
    <3> QED BY <3>1, MapDropped
  <2>7. ASSUME NEW child \in Tracees, NewChild(t, child) PROVE MapInv'
    BY <2>7, MapChild
  <2> QED BY <1>1, <2>1, <2>2, <2>3, <2>4, <2>5, <2>6, <2>7 DEF Step, Stop
<1>2. ASSUME NEW t \in Tracees, NEW sigsys \in SigsysModes, Syscall(t, sigsys)
      PROVE  MapInv'
  <2>0. sigsys \in BOOLEAN BY ShmAssumption
  <2>1. ASSUME NEW ok \in {TRUE, ~Faults}, ShmgetCreate(t, sigsys, ok) PROVE MapInv'
    <3>1. ok \in BOOLEAN BY ShmAssumption
    <3>2. /\ Len(shms) <= Len(shms') /\ WaitInv'
          /\ \A i \in 1..Len(shms) : Valid(i) => shms'[i] = shms[i]
      BY <2>0, <2>1, <3>1, ShmgetStep
    <3>3. UNCHANGED mapped_shms /\ Len(shms') \in Nat
      BY <2>1, <3>2 DEF ShmgetCreate, WaitInv, MemTypeOK
    <3> QED BY <3>2, <3>3, MapSlots DEF Valid
  <2>2. CASE Query(t, sigsys)
    <3>1. UNCHANGED shmVars BY <2>0, <2>2, QueryStep
    <3> QED BY <1>k, <3>1 DEF shmVars
  <2>3. ASSUME NEW addr \in DetachAddrs, Shmdt(t, sigsys, addr) PROVE MapInv'
    <3>1. PICK p \in Tracees : p = process[t] BY <1>0
    <3>2. PICK k \in 1..Len(mapped_shms[p]) :
            mapped_shms' = [mapped_shms EXCEPT ![p] = Unlink(@, k)]
      BY <2>0, <2>3, <3>1, ShmdtStep
    <3>3. shms' = DoRmid(shms, mapped_shms')
      BY <2>3 DEF Shmdt
    <3> QED BY <3>1, <3>2, <3>3, MapUnlinked
  <2>4. ASSUME NEW i \in 1..Len(shms), Shmat(t, sigsys, i) PROVE MapInv'
    BY <2>0, <2>4, MapShmat
  <2>5. ASSUME NEW i \in 1..Len(shms), ShmctlRmid(t, sigsys, i) PROVE MapInv'
    <3>1. /\ Len(shms') = Len(shms)
          /\ \A j \in 1..Len(shms) : MapsOf(mapped_shms, j) # {} =>
               shms'[j].valid = shms[j].valid /\ shms'[j].generation = shms[j].generation
      BY <2>0, <2>5, RmidStep
    <3>2. UNCHANGED mapped_shms BY <2>5 DEF ShmctlRmid
    <3> QED BY <1>0, <3>1, <3>2, MapSlots DEF Valid
  <2> QED BY <1>2, <2>1, <2>2, <2>3, <2>4, <2>5 DEF Syscall
<1>3. ASSUME NEW parent \in Tracees, NEW child \in Tracees, NEW thread \in CloneThread,
             KernelClone(parent, child, thread)
      PROVE  MapInv'
  BY <1>k, <1>3 DEF KernelClone
<1>4. CASE HelperDistribute \/ UNCHANGED vars
  BY <1>k, <1>4 DEF HelperDistribute, vars
<1> QED BY <1>1, <1>2, <1>3, <1>4 DEF Next, Terminated
-----------------------------------------------------------------------------
(* Counting: one pending mapping for each tracee that is to attach.  What  *)
(* follows also supposes that guests pass shmdt addresses they got, and    *)
(* do not execve while a sibling attaches.                                 *)

(* The mappings of segment i that have no address yet.                     *)
Fresh(i) == {x \in Mapping : x.size = 0 /\ x.shm_index = i}

(* sysvipc_shm_find_pending_mapping walks a list of mappings.              *)
LEMMA PendingIs ==
  ASSUME WaitInv, NEW p \in Tracees, NEW i
  PROVE  /\ PendingMaps(p, i) = Positions(mapped_shms[p], Fresh(i))
         /\ IsFiniteSet(PendingMaps(p, i)) /\ Cardinality(PendingMaps(p, i)) \in Nat
<1>1. mapped_shms[p] \in Seq(Mapping)
  BY DEF WaitInv, MemTypeOK
<1>2. \A k \in 1..Len(mapped_shms[p]) : mapped_shms[p][k] \in Mapping
  BY <1>1
<1>3. PendingMaps(p, i) = Positions(mapped_shms[p], Fresh(i))
  BY <1>2 DEF PendingMaps, Positions, Fresh
<1> QED BY <1>1, <1>3, PositionsFinite

(* The same after a step.                                                  *)
LEMMA PendingIsNext ==
  ASSUME WaitInv', NEW p \in Tracees, NEW i
  PROVE  /\ PendingMaps(p, i)' = Positions(mapped_shms'[p], Fresh(i))
         /\ IsFiniteSet(PendingMaps(p, i)') /\ Cardinality(PendingMaps(p, i)') \in Nat
<1>1. mapped_shms'[p] \in Seq(Mapping)
  BY DEF WaitInv, MemTypeOK
<1>2. \A k \in 1..Len(mapped_shms'[p]) : mapped_shms'[p][k] \in Mapping
  BY <1>1
<1>3. PendingMaps(p, i)' = Positions(mapped_shms'[p], Fresh(i))
  BY <1>2 DEF PendingMaps, Positions, Fresh
<1> QED BY <1>1, <1>3, PositionsFinite

(* Nobody starts to attach, and mappings are lost only where nobody needs  *)
(* them.                                                                   *)
LEMMA CountKept ==
  ASSUME WaitInv, WaitInv', CountInv, CountFrame, ~aborted',
         \A s \in Tracees : Attaches(s)' => process'[s] = process[s],
         \A p \in Tracees, i \in 1..MaxShms :
           \/ Attaching(p, i)' = {}
           \/ Cardinality(PendingMaps(p, i)) <= Cardinality(PendingMaps(p, i)')
  PROVE  CountInv'
<1> SUFFICES ASSUME NEW p \in Tracees, NEW i \in 1..MaxShms
             PROVE  /\ IsFiniteSet(Attaching(p, i)')
                    /\ Cardinality(Attaching(p, i)') <= Cardinality(PendingMaps(p, i)')
  BY DEF CountInv
<1>1. /\ Cardinality(PendingMaps(p, i)) \in Nat
      /\ Cardinality(PendingMaps(p, i)') \in Nat
  BY PendingIs, PendingIsNext
<1>2. CASE Attaching(p, i)' = {}
  BY <1>1, <1>2, FS_EmptySet
<1>3. CASE Cardinality(PendingMaps(p, i)) <= Cardinality(PendingMaps(p, i)')
  <2>1. Attaching(p, i)' \subseteq Attaching(p, i)
    BY DEF Attaching, CountFrame, Attaches
  <2>2. /\ IsFiniteSet(Attaching(p, i))
        /\ Cardinality(Attaching(p, i)) <= Cardinality(PendingMaps(p, i))
    BY DEF CountInv
  <2> HIDE DEF Attaching, PendingMaps
  <2>3. /\ IsFiniteSet(Attaching(p, i)')
        /\ Cardinality(Attaching(p, i)') <= Cardinality(Attaching(p, i))
    BY ONLY <2>1, <2>2, FS_Subset
  <2>4. Cardinality(Attaching(p, i)') \in Nat /\ Cardinality(Attaching(p, i)) \in Nat
    BY ONLY <2>2, <2>3, FS_CardinalityType
  <2> QED BY ONLY <1>1, <1>3, <2>2, <2>3, <2>4
<1> QED BY <1>2, <1>3

(* A step that keeps the processes and their mappings.                     *)
LEMMA CountSame ==
  ASSUME WaitInv, WaitInv', CountInv, CountFrame,
         UNCHANGED <<aborted, process, mapped_shms>>
  PROVE  CountInv'
<1>1. ~aborted' BY DEF CountInv
<1>2. \A s \in Tracees : Attaches(s)' => process'[s] = process[s]
  OBVIOUS
<1>3. ASSUME NEW p \in Tracees, NEW i \in 1..MaxShms
      PROVE  Cardinality(PendingMaps(p, i)) <= Cardinality(PendingMaps(p, i)')
  <2>1. PendingMaps(p, i)' = PendingMaps(p, i)
    BY DEF PendingMaps
  <2>2. Cardinality(PendingMaps(p, i)) \in Nat
    BY PendingIs
  <2> QED BY ONLY <2>1, <2>2
<1> QED BY ONLY WaitInv, WaitInv', CountInv, CountFrame, <1>1, <1>2, <1>3, CountKept

(* t no longer attaches, and uses up the pending mapping that was its own. *)
LEMMA CountUsed ==
  ASSUME WaitInv, WaitInv', CountInv, CountFrame, UNCHANGED <<aborted, process>>,
         NEW t \in Tracees, Attaches(t), ~Attaches(t)',
         NEW o, o = config[t].waiting_object_index,
         \A p \in Tracees, i \in 1..MaxShms :
           Cardinality(PendingMaps(p, i)') =
             Cardinality(PendingMaps(p, i)) - IF p = process[t] /\ i = o THEN 1 ELSE 0
  PROVE  CountInv'
<1> SUFFICES ASSUME NEW p \in Tracees, NEW i \in 1..MaxShms
             PROVE  /\ IsFiniteSet(Attaching(p, i)')
                    /\ Cardinality(Attaching(p, i)') <= Cardinality(PendingMaps(p, i)')
  BY DEF CountInv
<1>1. Cardinality(PendingMaps(p, i)) \in Nat
  BY PendingIs
<1>2. /\ IsFiniteSet(Attaching(p, i))
      /\ Cardinality(Attaching(p, i)) <= Cardinality(PendingMaps(p, i))
  BY DEF CountInv
<1>3. Attaching(p, i)' \subseteq Attaching(p, i) \ {t}
  BY DEF Attaching, CountFrame, Attaches
<1>4. t \in Attaching(p, i) <=> p = process[t] /\ i = o
  BY DEF Attaching, Attaches
<1>5. PICK A : A = Attaching(p, i)
  OBVIOUS
<1>6. PICK B : B = Attaching(p, i)'
  OBVIOUS
<1>7. /\ IsFiniteSet(A \ {t})
      /\ Cardinality(A \ {t}) = IF t \in A THEN Cardinality(A) - 1 ELSE Cardinality(A)
      /\ Cardinality(A) \in Nat
  BY ONLY <1>2, <1>5, FS_RemoveElement, FS_CardinalityType
<1>8. IsFiniteSet(B) /\ Cardinality(B) <= Cardinality(A \ {t})
  BY ONLY <1>3, <1>5, <1>6, <1>7, FS_Subset
<1>9. Cardinality(B) \in Nat /\ Cardinality(A \ {t}) \in Nat
  BY ONLY <1>7, <1>8, FS_CardinalityType
<1>10. Cardinality(PendingMaps(p, i)') =
         Cardinality(PendingMaps(p, i)) - IF t \in A THEN 1 ELSE 0
  BY ONLY <1>4, <1>5, \A q \in Tracees, j \in 1..MaxShms :
           Cardinality(PendingMaps(q, j)') =
             Cardinality(PendingMaps(q, j)) - IF q = process[t] /\ j = o THEN 1 ELSE 0,
          p \in Tracees, i \in 1..MaxShms
<1>11. Cardinality(B) <= Cardinality(PendingMaps(p, i)')
  BY ONLY <1>1, <1>2, <1>5, <1>7, <1>8, <1>9, <1>10
<1> QED BY ONLY <1>6, <1>8, <1>11

(* One more mapping at the head of the list of p.                          *)
LEMMA PendingPushed ==
  ASSUME WaitInv, WaitInv', NEW p \in Tracees, NEW i, NEW x \in Mapping,
         mapped_shms'[p] = <<x>> \o mapped_shms[p]
  PROVE  Cardinality(PendingMaps(p, i)') =
           Cardinality(PendingMaps(p, i)) + (IF x \in Fresh(i) THEN 1 ELSE 0)
<1>1. PICK m : m = mapped_shms[p]
  OBVIOUS
<1>2. PICK r : r = mapped_shms'[p]
  OBVIOUS
<1>3. m \in Seq(Mapping) /\ r = <<x>> \o m
  BY <1>1, <1>2 DEF WaitInv, MemTypeOK
<1>4. PICK T : T = Fresh(i)
  OBVIOUS
<1>5. Cardinality(Positions(r, T)) =
        Cardinality(Positions(m, T)) + (IF x \in T THEN 1 ELSE 0)
  BY ONLY <1>3, x \in Mapping, CountPushed
<1>6. PendingMaps(p, i) = Positions(m, T) /\ PendingMaps(p, i)' = Positions(r, T)
  BY <1>1, <1>2, <1>4, PendingIs, PendingIsNext
<1> QED BY ONLY <1>4, <1>5, <1>6

(* The k-th mapping is unlinked from the list of p.                        *)
LEMMA PendingUnlinked ==
  ASSUME WaitInv, WaitInv', NEW p \in Tracees, NEW i,
         NEW k, k \in 1..Len(mapped_shms[p]),
         mapped_shms'[p] = Unlink(mapped_shms[p], k)
  PROVE  Cardinality(PendingMaps(p, i)') =
           Cardinality(PendingMaps(p, i)) - (IF k \in PendingMaps(p, i) THEN 1 ELSE 0)
<1>1. PICK m : m = mapped_shms[p]
  OBVIOUS
<1>2. PICK r : r = mapped_shms'[p]
  OBVIOUS
<1>3. m \in Seq(Mapping) /\ r = ListWithout(m, k) /\ k \in 1..Len(m)
  BY <1>1, <1>2 DEF WaitInv, MemTypeOK, Unlink, ListWithout
<1>4. PICK T : T = Fresh(i)
  OBVIOUS
<1>5. Cardinality(Positions(r, T)) =
        Cardinality(Positions(m, T)) - (IF m[k] \in T THEN 1 ELSE 0)
  BY ONLY <1>3, CountUnlinked
<1>6. PendingMaps(p, i) = Positions(m, T) /\ PendingMaps(p, i)' = Positions(r, T)
  BY <1>1, <1>2, <1>4, PendingIs, PendingIsNext
<1>7. m[k] \in T <=> k \in PendingMaps(p, i)
  BY <1>3, <1>6 DEF Positions
<1> QED BY ONLY <1>5, <1>6, <1>7

(* shmat: one more tracee, one more mapping.                               *)
LEMMA CountShmat ==
  ASSUME WaitInv, WaitInv', CountInv, NEW t \in Tracees, NEW sigsys \in BOOLEAN,
         NEW j \in 1..Len(shms), Shmat(t, sigsys, j)
  PROVE  CountInv'
<1>1. /\ ~Attaches(t) /\ Attaches(t)' /\ config'[t].waiting_object_index = j
      /\ \A s \in Tracees : s # t => (Attaches(s)' <=> Attaches(s))
                                     /\ config'[s] = config[s]
      /\ process[t] \in Tracees /\ j \in 1..MaxShms
      /\ mapped_shms' = [mapped_shms EXCEPT ![process[t]] =
                           <<[shm_index |-> j, addr |-> 0, size |-> 0]>> \o @]
  BY ONLY WaitInv, t \in Tracees, sigsys \in BOOLEAN, j \in 1..Len(shms),
          Shmat(t, sigsys, j), ShmatStep
<1>2. UNCHANGED <<process, aborted>>
  BY DEF Shmat
<1> SUFFICES ASSUME NEW p \in Tracees, NEW i \in 1..MaxShms
             PROVE  /\ IsFiniteSet(Attaching(p, i)')
                    /\ Cardinality(Attaching(p, i)') <= Cardinality(PendingMaps(p, i)')
  BY <1>2 DEF CountInv
<1>3. Cardinality(PendingMaps(p, i)) \in Nat
  BY PendingIs
<1>4. /\ IsFiniteSet(Attaching(p, i))
      /\ Cardinality(Attaching(p, i)) <= Cardinality(PendingMaps(p, i))
  BY DEF CountInv
<1>5. PICK A : A = Attaching(p, i)
  OBVIOUS
<1>6. PICK B : B = Attaching(p, i)'
  OBVIOUS
<1>7. Cardinality(A) \in Nat
  BY <1>4, <1>5, FS_CardinalityType
<1>8. CASE p = process[t] /\ i = j
  <2>1. B = A \cup {t} /\ t \notin A
    BY <1>1, <1>2, <1>5, <1>6, <1>8 DEF Attaching, Attaches
  <2>2. IsFiniteSet(B) /\ Cardinality(B) = Cardinality(A) + 1
    BY ONLY <1>4, <1>5, <2>1, FS_AddElement
  <2>3. PICK x : x = [shm_index |-> j, addr |-> 0, size |-> 0]
    OBVIOUS
  <2>4. x \in Mapping /\ x \in Fresh(i)
    BY <1>1, <1>8, <2>3, ShmAssumption DEF Mapping, Fresh, MmapError
  <2>5. mapped_shms'[p] = <<x>> \o mapped_shms[p]
    BY <1>1, <1>8, <2>3 DEF WaitInv, MemTypeOK
  <2>6. Cardinality(PendingMaps(p, i)') =
          Cardinality(PendingMaps(p, i)) + (IF x \in Fresh(i) THEN 1 ELSE 0)
    BY ONLY WaitInv, WaitInv', p \in Tracees, <2>4, <2>5, PendingPushed
  <2> QED BY ONLY <1>3, <1>4, <1>5, <1>6, <1>7, <2>2, <2>4, <2>6
<1>9. CASE ~(p = process[t] /\ i = j)
  <2>1. B = A
    BY <1>1, <1>2, <1>5, <1>6, <1>9 DEF Attaching, Attaches
  <2>2. Cardinality(PendingMaps(p, i)') = Cardinality(PendingMaps(p, i))
    <3>1. CASE p # process[t]
      <4>1. mapped_shms'[p] = mapped_shms[p]
        BY <1>1, <3>1 DEF WaitInv, MemTypeOK
      <4> QED BY <4>1 DEF PendingMaps
    <3>2. CASE p = process[t] /\ i # j
      <4>1. PICK x : x = [shm_index |-> j, addr |-> 0, size |-> 0]
        OBVIOUS
      <4>2. x \in Mapping /\ x \notin Fresh(i)
        BY <1>1, <3>2, <4>1, ShmAssumption DEF Mapping, Fresh, MmapError
      <4>3. mapped_shms'[p] = <<x>> \o mapped_shms[p]
        BY <1>1, <3>2, <4>1 DEF WaitInv, MemTypeOK
      <4>4. Cardinality(PendingMaps(p, i)') =
              Cardinality(PendingMaps(p, i)) + (IF x \in Fresh(i) THEN 1 ELSE 0)
        BY ONLY WaitInv, WaitInv', p \in Tracees, <4>2, <4>3, PendingPushed
      <4> QED BY ONLY <1>3, <4>2, <4>4
    <3> QED BY <1>9, <3>1, <3>2
  <2> QED BY ONLY <1>4, <1>5, <1>6, <2>1, <2>2
<1> QED BY <1>8, <1>9

(* A mapping is unlinked from the list of p.                               *)
LEMMA CountWithout ==
  ASSUME WaitInv, WaitInv', NEW p \in Tracees, NEW k \in 1..Len(mapped_shms[p]),
         mapped_shms' = [mapped_shms EXCEPT ![p] = Unlink(@, k)]
  PROVE  \A q \in Tracees : \A i \in 1..MaxShms :
           Cardinality(PendingMaps(q, i)') =
             Cardinality(PendingMaps(q, i))
               - IF q = p /\ k \in PendingMaps(p, i) THEN 1 ELSE 0
<1> SUFFICES ASSUME NEW q \in Tracees, NEW i \in 1..MaxShms
             PROVE  Cardinality(PendingMaps(q, i)') =
                      Cardinality(PendingMaps(q, i))
                        - IF q = p /\ k \in PendingMaps(p, i) THEN 1 ELSE 0
  OBVIOUS
<1>1. CASE q # p
  <2>1. mapped_shms'[q] = mapped_shms[q]
    BY <1>1 DEF WaitInv, MemTypeOK
  <2>2. PendingMaps(q, i)' = PendingMaps(q, i)
    BY <2>1 DEF PendingMaps
  <2> QED BY <1>1, <2>2, PendingIs
<1>2. CASE q = p
  <2>1. mapped_shms'[p] = Unlink(mapped_shms[p], k)
    BY DEF WaitInv, MemTypeOK
  <2>2. k \in 1..Len(mapped_shms[p])
    OBVIOUS
  <2>3. Cardinality(PendingMaps(p, i)') =
          Cardinality(PendingMaps(p, i)) - (IF k \in PendingMaps(p, i) THEN 1 ELSE 0)
    BY ONLY WaitInv, WaitInv', p \in Tracees, <2>1, <2>2, PendingUnlinked
  <2> QED BY ONLY <1>2, <2>3
<1> QED BY <1>1, <1>2

(* shmdt: the mapping it frees has an address, so it is not pending.       *)
LEMMA CountShmdt ==
  ASSUME WaitInv, WaitInv', MapInv, CountInv, 0 \notin DetachAddrs, NEW t \in Tracees,
         NEW sigsys \in BOOLEAN, NEW addr \in DetachAddrs, Shmdt(t, sigsys, addr)
  PROVE  CountInv'
<1>1. PICK p \in Tracees : p = process[t]
  BY DEF WaitInv, MemTypeOK
<1>2. PICK k \in 1..Len(mapped_shms[p]) :
        /\ mapped_shms[p][k].addr = addr
        /\ mapped_shms' = [mapped_shms EXCEPT ![p] = Unlink(@, k)]
  BY <1>1, ShmdtStep
<1>3. CountFrame
  BY ShmdtStep
<1>4. UNCHANGED <<process, aborted>>
  BY DEF Shmdt
<1>5. ~aborted' /\ \A s \in Tracees : Attaches(s)' => process'[s] = process[s]
  BY <1>4 DEF CountInv
<1>6. ASSUME NEW q \in Tracees, NEW i \in 1..MaxShms
      PROVE  Cardinality(PendingMaps(q, i)) <= Cardinality(PendingMaps(q, i)')
  <2>1. k \notin PendingMaps(p, i)
    BY <1>2, ShmAssumption DEF PendingMaps, MapInv
  <2>2. Cardinality(PendingMaps(q, i)') = Cardinality(PendingMaps(q, i)) - 0
    <3>1. k \in 1..Len(mapped_shms[p])
          /\ mapped_shms' = [mapped_shms EXCEPT ![p] = Unlink(@, k)]
      BY <1>2
    <3>2. \A n \in Tracees : \A j \in 1..MaxShms :
            Cardinality(PendingMaps(n, j)') =
              Cardinality(PendingMaps(n, j))
                - IF n = p /\ k \in PendingMaps(p, j) THEN 1 ELSE 0
      BY ONLY WaitInv, WaitInv', <3>1, CountWithout, p \in Tracees
    <3> QED BY ONLY <2>1, <3>2, q \in Tracees, i \in 1..MaxShms
  <2>3. Cardinality(PendingMaps(q, i)) \in Nat
    BY PendingIs
  <2> QED BY ONLY <2>2, <2>3
<1> QED BY ONLY WaitInv, WaitInv', CountInv, <1>3, <1>5, <1>6, CountKept

(* A tracee in the chain waits for nothing else.                           *)
LEMMA InChainAttaches ==
  ASSUME WaitInv, NEW t \in Tracees, ExitMmap(t) \/ ChainFails(t)
  PROVE  Attaches(t)
BY DEF ExitMmap, ChainFails, InChain, Attaches, Chaining

(* mmap has returned: the mapping is no longer pending, t has left.        *)
LEMMA CountMmap ==
  ASSUME WaitInv, WaitInv', CountInv, NEW t \in Tracees, ExitMmap(t)
  PROVE  CountInv'
<1> DEFINE o == config[t].waiting_object_index
           p == process[t]
<1>1. p \in Tracees
  BY DEF WaitInv, MemTypeOK
<1>2. PICK k \in PendingMaps(p, o), addr \in 1..MmapError :
        /\ pending[t] = [call |-> "mmap", addr |-> addr]
        /\ mapped_shms' = [mapped_shms EXCEPT ![p][k].addr = addr, ![p][k].size = 1]
  BY ExitMmapStep
<1>3. CountFrame /\ ~Attaches(t)'
  BY ExitMmapStep
<1>4. UNCHANGED <<process, aborted>>
  BY DEF ExitMmap
<1>5. Attaches(t)
  BY InChainAttaches
<1>6. PICK w : w = process[t]
  OBVIOUS
<1>7. PICK n : n = config[t].waiting_object_index
  OBVIOUS
<1>8. w \in Tracees /\ k \in PendingMaps(w, n)
      /\ mapped_shms' = [mapped_shms EXCEPT ![w][k].addr = addr, ![w][k].size = 1]
  BY ONLY <1>1, <1>2, <1>6, <1>7 DEF p, o
<1> HIDE DEF p, o
<1>9. PICK old : old = mapped_shms[w]
  OBVIOUS
<1>10. PICK e : e = [old[k] EXCEPT !.addr = addr, !.size = 1]
  OBVIOUS
<1>11. /\ old \in Seq(Mapping) /\ k \in 1..Len(old) /\ old[k] \in Mapping
       /\ old[k].size = 0 /\ old[k].shm_index = n
       /\ mapped_shms \in [Tracees -> Seq(Mapping)]
  BY <1>8, <1>9 DEF WaitInv, MemTypeOK, PendingMaps
<1>12. e.size = 1
  BY <1>10, <1>11 DEF Mapping
<1>13. mapped_shms' = [mapped_shms EXCEPT ![w] = [old EXCEPT ![k] = e]]
  BY <1>8, <1>9, <1>10, <1>11
<1>14. PICK r : r = [old EXCEPT ![k] = e]
  OBVIOUS
<1>15. /\ mapped_shms'[w] = r /\ Len(r) = Len(old) /\ r[k] = e
       /\ \A j \in 1..Len(old) : j # k => r[j] = old[j]
       /\ \A s \in Tracees : s # w => mapped_shms'[s] = mapped_shms[s]
  <2>1. w \in Tracees BY <1>8
  <2> QED BY <1>11, <1>13, <1>14, <2>1
<1>16. ASSUME NEW q \in Tracees, NEW i \in 1..MaxShms
       PROVE  Cardinality(PendingMaps(q, i)') =
                Cardinality(PendingMaps(q, i))
                  - IF q = process[t] /\ i = n THEN 1 ELSE 0
  <2>1. PICK P : P = PendingMaps(q, i)
    OBVIOUS
  <2>2. PICK Q : Q = PendingMaps(q, i)'
    OBVIOUS
  <2>3. IsFiniteSet(P) /\ Cardinality(P) \in Nat
    BY <2>1, PendingIs
  <2>4. CASE q = w
    <3>1. /\ P = {j \in 1..Len(old) : old[j].size = 0 /\ old[j].shm_index = i}
          /\ Q = {j \in 1..Len(r) : r[j].size = 0 /\ r[j].shm_index = i}
      BY <1>9, <1>15, <2>1, <2>2, <2>4 DEF PendingMaps
    <3>2. CASE i = n
      <4>1. Q = P \ {k} /\ k \in P
        BY ONLY <1>11, <1>12, <1>15, <3>1, <3>2
      <4>2. Cardinality(P \ {k}) = Cardinality(P) - 1
        BY ONLY <2>3, <4>1, FS_RemoveElement
      <4> QED BY ONLY <1>6, <2>1, <2>2, <2>4, <3>2, <4>1, <4>2
    <3>3. CASE i # n
      <4>1. Q = P
        BY ONLY <1>11, <1>12, <1>15, <3>1, <3>3
      <4> QED BY ONLY <1>6, <2>1, <2>2, <2>3, <2>4, <3>3, <4>1
    <3> QED BY <3>2, <3>3
  <2>5. CASE q # w
    <3>1. Q = P
      BY <1>15, <2>1, <2>2, <2>5 DEF PendingMaps
    <3> QED BY ONLY <1>6, <2>1, <2>2, <2>3, <2>5, <3>1
  <2> QED BY <2>4, <2>5
<1> QED BY ONLY WaitInv, WaitInv', CountInv, t \in Tracees, <1>3, <1>4, <1>5, <1>7, <1>16,
                CountUsed

(* A call of the chain failed: one mapping and one tracee less.            *)
LEMMA CountFails ==
  ASSUME WaitInv, WaitInv', CountInv, NEW t \in Tracees, ChainFails(t)
  PROVE  CountInv'
<1>1. PICK p : p = process[t]
  OBVIOUS
<1>2. PICK o : o = config[t].waiting_object_index
  OBVIOUS
<1>3. PICK k \in PendingMaps(process[t], config[t].waiting_object_index) :
        mapped_shms' = [mapped_shms EXCEPT ![process[t]] = Unlink(@, k)]
  BY ChainFailsStep
<1>4. CountFrame /\ ~Attaches(t)'
  BY ChainFailsStep
<1>5. UNCHANGED <<process, aborted>>
  BY DEF ChainFails
<1>6. Attaches(t)
  BY InChainAttaches
<1>7. /\ p \in Tracees /\ k \in PendingMaps(p, o) /\ k \in 1..Len(mapped_shms[p])
      /\ mapped_shms' = [mapped_shms EXCEPT ![p] = Unlink(@, k)]
  BY <1>1, <1>2, <1>3 DEF WaitInv, MemTypeOK, PendingMaps
<1>8. ASSUME NEW q \in Tracees, NEW i \in 1..MaxShms
      PROVE  Cardinality(PendingMaps(q, i)') =
               Cardinality(PendingMaps(q, i))
                 - IF q = process[t] /\ i = o THEN 1 ELSE 0
  <2>1. k \in PendingMaps(p, i) <=> i = o
    BY <1>7 DEF PendingMaps
  <2>2. \A n \in Tracees : \A j \in 1..MaxShms :
          Cardinality(PendingMaps(n, j)') =
            Cardinality(PendingMaps(n, j))
              - IF n = p /\ k \in PendingMaps(p, j) THEN 1 ELSE 0
    BY ONLY WaitInv, WaitInv', <1>7, CountWithout
  <2> QED BY ONLY <1>1, <2>1, <2>2, q \in Tracees, i \in 1..MaxShms
<1> QED BY ONLY WaitInv, WaitInv', CountInv, t \in Tracees, <1>2, <1>4, <1>5, <1>6, <1>8,
                CountUsed

(* The mappings of p go with its last thread: nobody needs them.           *)
LEMMA CountDropped ==
  ASSUME WaitInv, WaitInv', CountInv, CountFrame, ~aborted', NEW p \in Tracees,
         mapped_shms' = [mapped_shms EXCEPT ![p] = <<>>],
         \A s \in Tracees : Attaches(s)' => process'[s] = process[s] /\ process[s] # p
  PROVE  CountInv'
<1>1. ASSUME NEW q \in Tracees, NEW i \in 1..MaxShms
      PROVE  \/ Attaching(q, i)' = {}
             \/ Cardinality(PendingMaps(q, i)) <= Cardinality(PendingMaps(q, i)')
  <2>1. CASE q = p
    <3>1. Attaching(q, i)' = {}
      BY <2>1 DEF Attaching, Attaches
    <3> QED BY <3>1
  <2>2. CASE q # p
    <3>1. mapped_shms'[q] = mapped_shms[q]
      BY <2>2 DEF WaitInv, MemTypeOK
    <3>2. PendingMaps(q, i)' = PendingMaps(q, i)
      BY <3>1 DEF PendingMaps
    <3>3. Cardinality(PendingMaps(q, i)) \in Nat
      BY PendingIs
    <3> QED BY ONLY <3>2, <3>3
  <2> QED BY <2>1, <2>2
<1>2. \A s \in Tracees : Attaches(s)' => process'[s] = process[s]
  OBVIOUS
<1> QED BY ONLY WaitInv, WaitInv', CountInv, CountFrame, ~aborted', <1>1, <1>2, CountKept

(* execve: neither the caller nor a sibling is attaching anything.         *)
LEMMA CountExecve ==
  ASSUME "execve" \notin Careless, WaitInv, WaitInv', CountInv, NEW t \in Tracees,
         ExecveEnter(t)
  PROVE  CountInv'
<1>1. /\ UNCHANGED <<config, process, aborted>> /\ process[t] = t
      /\ at' = [at EXCEPT ![t] = "kernel"] /\ CanCall(t)
      /\ mapped_shms' = [mapped_shms EXCEPT ![t] = <<>>]
      /\ \A s \in Siblings(t) : ~Attaches(s)
  BY DEF ExecveEnter
<1>2. CountFrame
  BY ExecveStep
<1>3. \A s \in Tracees : Attaches(s)' => Attaches(s)
  BY <1>2 DEF CountFrame
<1>4. ~Attaches(t)
  BY <1>1, CallerConfig DEF Attaches
<1>5. \A s \in Tracees : Attaches(s)' => process'[s] = process[s] /\ process[s] # t
  BY <1>1, <1>3, <1>4 DEF Siblings, Threads, Attaches
<1>6. ~aborted' BY <1>1 DEF CountInv
<1> QED BY ONLY WaitInv, WaitInv', CountInv, t \in Tracees, <1>1, <1>2, <1>5, <1>6,
                CountDropped

(* The end of a thread; with the last one the process goes.                *)
LEMMA CountReap ==
  ASSUME WaitInv, WaitInv', CountInv, NEW t \in Tracees, ReapTracee(t)
  PROVE  CountInv'
<1>1. /\ CountFrame /\ at'[t] = "none" /\ UNCHANGED aborted
      /\ \A s \in Tracees : s # t => config'[s] = config[s] /\ at'[s] = at[s]
      /\ process' = [process EXCEPT ![t] = t] /\ process[t] \in Tracees
  BY ReapStep
<1>2. \A s \in Tracees : Attaches(s)' => s # t /\ process'[s] = process[s]
  BY <1>1 DEF Attaches, WaitInv, MemTypeOK
<1>3. ~aborted' BY <1>1 DEF CountInv
<1>4. CASE Threads(t) = {t}
  <2>1. PICK p : p = process[t]
    OBVIOUS
  <2>2. p \in Tracees /\ mapped_shms' = [mapped_shms EXCEPT ![p] = <<>>]
    BY <1>1, <1>4, <2>1 DEF ReapTracee
  <2>3. \A s \in Tracees : Attaches(s)' => process'[s] = process[s] /\ process[s] # p
    BY <1>1, <1>2, <1>4, <2>1 DEF Threads, Attaches
  <2> QED BY ONLY WaitInv, WaitInv', CountInv, <1>1, <1>3, <2>2, <2>3, CountDropped
<1>5. CASE Threads(t) # {t}
  <2>1. mapped_shms' = mapped_shms
    BY <1>5 DEF ReapTracee
  <2>2. ASSUME NEW q \in Tracees, NEW i \in 1..MaxShms
        PROVE  Cardinality(PendingMaps(q, i)) <= Cardinality(PendingMaps(q, i)')
    <3>1. PendingMaps(q, i)' = PendingMaps(q, i)
      BY <2>1 DEF PendingMaps
    <3>2. Cardinality(PendingMaps(q, i)) \in Nat
      BY PendingIs
    <3> QED BY ONLY <3>1, <3>2
  <2> QED BY ONLY WaitInv, WaitInv', CountInv, <1>1, <1>2, <1>3, <2>2, CountKept
<1> QED BY <1>4, <1>5

(* fork: the child attaches nothing, whatever pending mappings it copies.  *)
LEMMA CountChild ==
  ASSUME WaitInv, WaitInv', PendInv, CountInv, NEW parent \in Tracees,
         NEW child \in Tracees, NewChild(parent, child)
  PROVE  CountInv'
<1>1. /\ CountFrame /\ ~Attaches(child)' /\ UNCHANGED aborted
      /\ pending[parent].call = "clone" /\ pending[parent].child = child
  BY ChildStep DEF NewChild, Inherit
<1>2. /\ process' = [process EXCEPT ![child] =
                        IF pending[parent].thread THEN process[parent] ELSE child]
      /\ \A s \in Tracees : at[s] # "none" => process[s] # child
      /\ IF pending[parent].thread THEN UNCHANGED mapped_shms
         ELSE mapped_shms' = [mapped_shms EXCEPT ![child] = mapped_shms[process[parent]]]
  BY <1>1 DEF NewChild, Inherit, PendInv
<1>3. \A s \in Tracees : Attaches(s)' => s # child /\ process'[s] = process[s]
  BY <1>1, <1>2 DEF WaitInv, MemTypeOK
<1>4. \A s \in Tracees : Attaches(s)' => process[s] # child
  BY <1>1, <1>2 DEF CountFrame, Attaches
<1>5. ~aborted' BY <1>1 DEF CountInv
<1>6. ASSUME NEW q \in Tracees, NEW i \in 1..MaxShms
      PROVE  \/ Attaching(q, i)' = {}
             \/ Cardinality(PendingMaps(q, i)) <= Cardinality(PendingMaps(q, i)')
  <2>1. CASE q = child
    <3>1. Attaching(q, i)' = {}
      BY <1>3, <1>4, <2>1 DEF Attaching, Attaches
    <3> QED BY <3>1
  <2>2. CASE q # child
    <3>1. mapped_shms'[q] = mapped_shms[q]
      BY <1>2, <2>2 DEF WaitInv, MemTypeOK
    <3>2. PendingMaps(q, i)' = PendingMaps(q, i)
      BY <3>1 DEF PendingMaps
    <3>3. Cardinality(PendingMaps(q, i)) \in Nat
      BY PendingIs
    <3> QED BY ONLY <3>2, <3>3
  <2> QED BY <2>1, <2>2
<1>7. \A s \in Tracees : Attaches(s)' => process'[s] = process[s]
  BY <1>3
<1> QED BY ONLY WaitInv, WaitInv', CountInv, <1>1, <1>5, <1>6, <1>7, CountKept

(* A tracee that attaches finds a pending mapping, of a valid segment.     *)
LEMMA AttachesFinds ==
  ASSUME WaitInv, MapInv, CountInv, NEW t \in Tracees, Attaches(t)
  PROVE  /\ config[t].waiting_object_index \in 1..MaxShms
         /\ Valid(config[t].waiting_object_index)
         /\ PendingMaps(process[t], config[t].waiting_object_index) # {}
<1>1. PICK p : p = process[t]
  OBVIOUS
<1>2. PICK i : i = config[t].waiting_object_index
  OBVIOUS
<1>3. p \in Tracees /\ i \in 1..Len(shms) /\ Len(shms) \in Nat /\ Len(shms) <= MaxShms
  <2>1. Fit(config[t], at[t], Len(shms), mem_fd[t]) BY FitsNow
  <2> QED BY <1>1, <1>2, <2>1 DEF Fit, Attaches, WaitInv, MemTypeOK
<1>4. i \in 1..MaxShms
  BY ONLY <1>3, ShmAssumption
<1>5. t \in Attaching(p, i)
  BY <1>1, <1>2 DEF Attaching, Attaches
<1>6. PICK A : A = Attaching(p, i)
  OBVIOUS
<1>7. IsFiniteSet(A) /\ Cardinality(A) <= Cardinality(PendingMaps(p, i)) /\ A # {}
  BY <1>3, <1>4, <1>5, <1>6 DEF CountInv
<1>8. Cardinality(A) \in Nat /\ Cardinality(A) # 0
  BY ONLY <1>7, FS_EmptySet, FS_CardinalityType
<1>9. PendingMaps(p, i) # {}
  BY ONLY <1>7, <1>8, FS_EmptySet
<1>10. Valid(i)
  BY <1>3, <1>9 DEF PendingMaps, MapInv
<1> QED BY <1>1, <1>2, <1>4, <1>9, <1>10

(* The assertions of the chain cannot fail.                                *)
LEMMA NoAbort ==
  ASSUME WaitInv, MapInv, CountInv, NEW t \in Tracees
  PROVE  ~ChainAborts(t)
<1> SUFFICES ASSUME ChainAborts(t) PROVE FALSE
  OBVIOUS
<1>1. Attaches(t)
  BY DEF ChainAborts, Attaches
<1> QED BY <1>1, AttachesFinds DEF ChainAborts

(* At the start nobody attaches anything.                                  *)
LEMMA InitCount == Init => CountInv
<1> SUFFICES ASSUME Init PROVE CountInv
  OBVIOUS
<1>1. WaitInv /\ ~aborted
  BY InitWait DEF Init
<1>2. \A s \in Tracees : ~Attaches(s)
  <2>1. \A s \in Tracees : config[s] = ZeroConfig
    BY DEF Init, IpcInit
  <2> QED BY <2>1, ZeroFits DEF Attaches
<1> SUFFICES ASSUME NEW p \in Tracees, NEW i \in 1..MaxShms
             PROVE  /\ IsFiniteSet(Attaching(p, i))
                    /\ Cardinality(Attaching(p, i)) <= Cardinality(PendingMaps(p, i))
  BY <1>1 DEF CountInv
<1>3. Attaching(p, i) = {}
  BY <1>2 DEF Attaching, Attaches
<1>4. Cardinality(PendingMaps(p, i)) \in Nat
  BY <1>1, PendingIs
<1> QED BY <1>3, <1>4, FS_EmptySet

(* Every action keeps the count.                                           *)
LEMMA NextCount ==
  ASSUME "execve" \notin Careless, 0 \notin DetachAddrs,
         WaitInv, WaitInv', PendInv, MapInv, CountInv, [Next]_vars
  PROVE  CountInv'
<1>s. ASSUME CountFrame, UNCHANGED <<aborted, process, mapped_shms>> PROVE CountInv'
  BY <1>s, CountSame
<1>1. ASSUME NEW t \in Tracees, Step(t) PROVE CountInv'
  <2>1. CASE \/ StartPpoll(t) \/ StartReplaced(t) \/ ChainedEnter(t) \/ ChainedExit(t)
             \/ EndVoid(t) \/ EndStatus(t) \/ EndPpoll(t) \/ Swallow(t) \/ ExitSocket(t)
    <3>1. CountFrame /\ UNCHANGED <<aborted, process, mapped_shms>>
      BY <2>1, StopStep DEF shmVars
    <3> QED BY <1>s, <3>1
  <2>2. CASE KernelConnect(t) \/ KernelMmap(t) \/ KernelMunmap(t)
    <3>1. CountFrame /\ UNCHANGED <<aborted, process, mapped_shms>>
      BY <2>2 DEF KernelConnect, KernelMmap, KernelMunmap, CountFrame, Attaches, ipcVars
    <3> QED BY <1>s, <3>1
  <2>3. CASE ExitConnect(t) \/ ExitRecvmsg(t)
    <3>1. CountFrame /\ UNCHANGED <<aborted, process, mapped_shms>>
      BY <2>3, ReturnStep DEF ExitConnect, ExitRecvmsg
    <3> QED BY <1>s, <3>1
  <2>4. CASE ExitMmap(t) BY <2>4, CountMmap
  <2>5. CASE ChainAborts(t) BY <2>5, NoAbort
  <2>6. CASE ChainFails(t) BY <2>6, CountFails
  <2>7. CASE Kill(t) \/ ExecveDone(t)
    <3>1. PICK D \in SUBSET Tracees : Ends(D, t) /\ (t \in D \/ pending[t].call = "execve")
      BY <2>7, EndIs
    <3>2. CountFrame BY <3>1, EndsStep
    <3>3. UNCHANGED <<aborted, process, mapped_shms>> BY <3>1 DEF Ends
    <3> QED BY <1>s, <3>2, <3>3
  <2>8. CASE ReapTracee(t) BY <2>8, CountReap
  <2>9. CASE ExecveEnter(t) BY <2>9, CountExecve
  <2>10. CASE ExecveRefused(t)
    <3>1. CountFrame BY <2>10, RefusedStep
    <3> QED BY <1>s, <2>10, <3>1 DEF ExecveRefused
  <2>11. CASE Exit(t)
    <3>1. CountFrame /\ UNCHANGED shmVars BY <2>11, ExitStep
    <3> QED BY <1>s, <3>1 DEF shmVars
  <2>12. ASSUME NEW child \in Tracees, NewChild(t, child) PROVE CountInv'
    BY <2>12, CountChild
  <2> QED BY <1>1, <2>1, <2>2, <2>3, <2>4, <2>5, <2>6, <2>7, <2>8, <2>9, <2>10, <2>11,
             <2>12 DEF Step, Stop
<1>2. ASSUME NEW t \in Tracees, NEW sigsys \in SigsysModes, Syscall(t, sigsys)
      PROVE  CountInv'
  <2>0. sigsys \in BOOLEAN BY ShmAssumption
  <2>1. ASSUME NEW ok \in {TRUE, ~Faults}, ShmgetCreate(t, sigsys, ok) PROVE CountInv'
    <3>1. ok \in BOOLEAN BY ShmAssumption
    <3>2. CountFrame
      BY <2>0, <2>1, <3>1, ShmgetStep
    <3>3. UNCHANGED <<aborted, process, mapped_shms>>
      BY <2>1 DEF ShmgetCreate
    <3> QED BY <1>s, <3>2, <3>3
  <2>2. CASE Query(t, sigsys)
    <3>1. CountFrame /\ UNCHANGED <<aborted, process, mapped_shms>>
      BY <2>0, <2>2, QueryStep DEF shmVars
    <3> QED BY <1>s, <3>1
  <2>3. ASSUME NEW addr \in DetachAddrs, Shmdt(t, sigsys, addr) PROVE CountInv'
    BY <2>0, <2>3, CountShmdt
  <2>4. ASSUME NEW i \in 1..Len(shms), Shmat(t, sigsys, i) PROVE CountInv'
    BY <2>0, <2>4, CountShmat
  <2>5. ASSUME NEW i \in 1..Len(shms), ShmctlRmid(t, sigsys, i) PROVE CountInv'
    <3>1. CountFrame BY <2>0, <2>5, RmidStep
    <3>2. UNCHANGED <<aborted, process, mapped_shms>>
      BY <2>5 DEF ShmctlRmid
    <3> QED BY <1>s, <3>1, <3>2
  <2> QED BY <1>2, <2>1, <2>2, <2>3, <2>4, <2>5 DEF Syscall
<1>3. ASSUME NEW parent \in Tracees, NEW child \in Tracees, NEW thread \in CloneThread,
             KernelClone(parent, child, thread)
      PROVE  CountInv'
  <2>1. thread \in BOOLEAN BY ShmAssumption
  <2>2. CountFrame BY <1>3, <2>1, CloneStep
  <2> QED BY <1>s, <1>3, <2>2 DEF KernelClone
<1>4. CASE HelperDistribute \/ UNCHANGED vars
  <2>1. CountFrame /\ UNCHANGED <<aborted, process, mapped_shms>>
    BY <1>4 DEF HelperDistribute, vars, ipcVars, CountFrame, Attaches
  <2> QED BY <1>s, <2>1
<1> QED BY <1>1, <1>2, <1>3, <1>4 DEF Next, Terminated

(* The assertions of sysvipc_shmat_chain hold: every tracee that waits for *)
(* the helper or is in the chain has a valid segment and a pending mapping *)
(* of its own, whatever the other tracees attach, detach, remove, fork and *)
(* execute meanwhile, if no guest calls execve while a sibling thread      *)
(* attaches, nor shmdt(0).                                                 *)
THEOREM ChainFindsMapping ==
  ASSUME "execve" \notin Careless, 0 \notin DetachAddrs
  PROVE  Spec => []ChainsAgree
<1> DEFINE I == WaitInv /\ PendInv /\ MapInv /\ CountInv
<1>1. Init => I BY InitWait, InitPend, InitMap, InitCount
<1>2. I /\ [Next]_vars => I' BY NextWait, NextPend, NextMap, NextCount
<1>3. I => ChainsAgree
  <2> SUFFICES ASSUME WaitInv, MapInv, CountInv PROVE ChainsAgree
    OBVIOUS
  <2>1. TypeOK /\ ~aborted
    BY TypeParts DEF WaitInv, CountInv
  <2> DEFINE Same(t) ==
        {s \in Threads(t) :
           /\ at[s] # "dead"
           /\ Chaining(config[s]) \/ Asleep(config[s])
           /\ config[s].waiting_object_index = config[t].waiting_object_index}
  <2>2. ASSUME NEW t \in Tracees, at[t] \notin {"none", "dead"}, t \in Same(t)
        PROVE  /\ Valid(config[t].waiting_object_index)
               /\ Cardinality(Same(t)) <=
                    Cardinality(PendingMaps(process[t], config[t].waiting_object_index))
    <3>1. Attaches(t)
      BY <2>2 DEF Attaches
    <3>2. PICK i : i = config[t].waiting_object_index
      OBVIOUS
    <3>3. PICK p : p = process[t]
      OBVIOUS
    <3>4. i \in 1..MaxShms /\ Valid(i) /\ p \in Tracees
      BY <3>1, <3>2, <3>3, AttachesFinds DEF WaitInv, MemTypeOK
    <3>5. Same(t) = Attaching(p, i)
      BY <3>2, <3>3 DEF Threads, Attaching
    <3>6. Cardinality(Attaching(p, i)) <= Cardinality(PendingMaps(p, i))
      BY <3>4 DEF CountInv
    <3> QED BY ONLY <3>2, <3>3, <3>4, <3>5, <3>6
  <2> QED BY <2>1, <2>2 DEF ChainsAgree, ChainHasMapping
<1> QED BY <1>1, <1>2, <1>3, PTL DEF Spec
-----------------------------------------------------------------------------
(* Regions.  What follows also supposes that the kernel executes what      *)
(* PRoot has translated, and that guests do not fork while a sibling       *)
(* attaches, detaches or executes, nor the other way round.                *)

(* The mmap of a shmat finds a mapping of its segment when it returns.     *)
Finds ==
  \A s \in Tracees : pending[s].call = "mmap" =>
    \E k \in 1..Len(mapped_shms[process[s]]) :
      mapped_shms[process[s]][k].shm_index = config[s].waiting_object_index

(* The slot of a segment is not given to another while it is mapped.       *)
SegmentsKept == \A i : MapsOf(mapped_shms', i) # {} => Fd(i)' = Fd(i)

(* Guests take care, and the kernel refuses no execve.                     *)
Careful == Careless = {} /\ ExecveFails = FALSE /\ 0 \notin DetachAddrs

LEMMA ArrivingFinds ==
  WaitInv /\ PendInv /\ MapInv /\ CountInv => Finds
<1> SUFFICES ASSUME WaitInv, PendInv, MapInv, CountInv,
                    NEW s \in Tracees, pending[s].call = "mmap"
             PROVE  \E k \in 1..Len(mapped_shms[process[s]]) :
                      mapped_shms[process[s]][k].shm_index = config[s].waiting_object_index
  BY DEF Finds
<1>1. InCall(pending[s], config[s], at[s])
  BY DEF PendInv
<1>2. Attaches(s)
  BY <1>1 DEF InCall, Attaches, Chaining
<1>3. PendingMaps(process[s], config[s].waiting_object_index) # {}
  BY <1>2, AttachesFinds
<1> QED BY <1>3 DEF PendingMaps

(* A tracee that is in the mmap of its chain keeps its segment.            *)
LEMMA IndexKept ==
  ASSUME PendInv', CountFrame, NEW s \in Tracees, pending'[s].call = "mmap"
  PROVE  config'[s].waiting_object_index = config[s].waiting_object_index
<1>1. InCall(pending'[s], config'[s], at'[s])
  BY DEF PendInv
<1>2. Attaches(s)'
  BY <1>1 DEF InCall, Attaches, Chaining
<1> QED BY <1>2 DEF CountFrame

(* Every action keeps the segments that are mapped after it.               *)
LEMMA NextKept ==
  ASSUME WaitInv, MapInv, MapInv', [Next]_vars
  PROVE  SegmentsKept
<1>k. ASSUME UNCHANGED shms PROVE SegmentsKept
  BY <1>k DEF SegmentsKept, Fd
<1>r. ASSUME shms' = DoRmid(shms, mapped_shms') PROVE SegmentsKept
  <2>1. shms \in Seq(Shm) /\ Removable(shms)
    BY DEF WaitInv, MemTypeOK
  <2>2. /\ Len(shms') = Len(shms)
        /\ \A i \in 1..Len(shms) : MapsOf(mapped_shms', i) # {} => shms'[i] = shms[i]
    BY <1>r, <2>1, DoRmidFacts
  <2>3. \A i : MapsOf(mapped_shms', i) # {} => i \in 1..Len(shms')
    BY DEF MapInv, MapsOf, Valid
  <2> QED BY <2>2, <2>3 DEF SegmentsKept, Fd
<1>m. \A i : MapsOf(mapped_shms, i) # {} => Valid(i)
  BY DEF MapInv, MapsOf
<1>1. ASSUME NEW t \in Tracees, Step(t) PROVE SegmentsKept
  <2>1. CASE \/ StartPpoll(t) \/ StartReplaced(t) \/ ChainedEnter(t) \/ ChainedExit(t)
             \/ EndVoid(t) \/ EndStatus(t) \/ EndPpoll(t) \/ Swallow(t) \/ ExitSocket(t)
    <3>1. UNCHANGED shmVars BY <2>1, StopStep
    <3> QED BY <1>k, <3>1 DEF shmVars
  <2>2. CASE \/ KernelConnect(t) \/ ChainAborts(t) \/ ExitConnect(t) \/ ExitRecvmsg(t)
             \/ Kill(t) \/ ExecveDone(t) \/ ExecveRefused(t) \/ Exit(t) \/ ExitMmap(t)
             \/ KernelMmap(t) \/ KernelMunmap(t)
    <3>1. UNCHANGED shms
      BY <2>2 DEF KernelConnect, ChainAborts, ExitConnect, ExitRecvmsg, Kill, ExecveDone,
         Ends, ExecveRefused, Exit, ExitMmap, KernelMmap, KernelMunmap, shmVars
    <3> QED BY <1>k, <3>1
  <2>3. CASE ChainFails(t) BY <1>r, <2>3 DEF ChainFails
  <2>4. CASE ReapTracee(t) BY <1>k, <1>r, <2>4 DEF ReapTracee
  <2>5. CASE ExecveEnter(t) BY <1>r, <2>5 DEF ExecveEnter
  <2>6. ASSUME NEW child \in Tracees, NewChild(t, child) PROVE SegmentsKept
    BY <1>k, <2>6 DEF NewChild
  <2> QED BY <1>1, <2>1, <2>2, <2>3, <2>4, <2>5, <2>6 DEF Step, Stop
<1>2. ASSUME NEW t \in Tracees, NEW sigsys \in SigsysModes, Syscall(t, sigsys)
      PROVE  SegmentsKept
  <2>0. sigsys \in BOOLEAN BY ShmAssumption
  <2>1. ASSUME NEW ok \in {TRUE, ~Faults}, ShmgetCreate(t, sigsys, ok) PROVE SegmentsKept
    <3>1. ok \in BOOLEAN BY ShmAssumption
    <3>2. \A i \in 1..Len(shms) : Valid(i) => shms'[i] = shms[i]
      BY <2>0, <2>1, <3>1, ShmgetStep
    <3>3. UNCHANGED mapped_shms BY <2>1 DEF ShmgetCreate
    <3> QED BY <1>m, <3>2, <3>3 DEF SegmentsKept, Fd, Valid
  <2>2. CASE Query(t, sigsys)
    <3>1. UNCHANGED shmVars BY <2>0, <2>2, QueryStep
    <3> QED BY <1>k, <3>1 DEF shmVars
  <2>3. ASSUME NEW addr \in DetachAddrs, Shmdt(t, sigsys, addr) PROVE SegmentsKept
    BY <1>r, <2>3 DEF Shmdt
  <2>4. ASSUME NEW i \in 1..Len(shms), Shmat(t, sigsys, i) PROVE SegmentsKept
    BY <1>k, <2>4 DEF Shmat
  <2>5. ASSUME NEW i \in 1..Len(shms), ShmctlRmid(t, sigsys, i) PROVE SegmentsKept
    <3>1. \A j \in 1..Len(shms) : MapsOf(mapped_shms, j) # {} =>
            shms'[j].generation = shms[j].generation
      BY <2>0, <2>5, RmidStep
    <3>2. UNCHANGED mapped_shms BY <2>5 DEF ShmctlRmid
    <3> QED BY <1>m, <3>1, <3>2 DEF SegmentsKept, Fd, Valid
  <2> QED BY <1>2, <2>1, <2>2, <2>3, <2>4, <2>5 DEF Syscall
<1>3. ASSUME NEW parent \in Tracees, NEW child \in Tracees, NEW thread \in CloneThread,
             KernelClone(parent, child, thread)
      PROVE  SegmentsKept
  BY <1>k, <1>3 DEF KernelClone
<1>4. CASE HelperDistribute \/ UNCHANGED vars
  BY <1>k, <1>4 DEF HelperDistribute, vars
<1> QED BY <1>1, <1>2, <1>3, <1>4 DEF Next, Terminated

(* Whatever PRoot knows of, or is about to hear of, keeps its segment.     *)
LEMMA RegionsFollow ==
  ASSUME SegmentsKept, Finds', process' \in [Tracees -> Tracees],
         \A p \in Tracees : \A r \in regions'[p] :
           /\ Lives(p)'
           /\ \/ Leaving(p, r)'
              \/ r.asked = Fd(r.asked.shm) /\ (Arriving(p, r)' \/ Registered(p, r)'),
         \A t \in Tracees : Forks(t)' => \A r \in pending'[t].regions :
           r.asked = Fd(r.asked.shm) /\ Registered(process[t], r)'
  PROVE  RegionInv'
<1>1. ASSUME NEW p \in Tracees, NEW r, Registered(p, r)'
      PROVE  Fd(r.asked.shm)' = Fd(r.asked.shm)
  <2>1. MapsOf(mapped_shms', r.asked.shm) # {}
    BY <1>1 DEF Registered, MapsOf
  <2> QED BY <2>1 DEF SegmentsKept
<1>2. ASSUME NEW p \in Tracees, NEW r, Arriving(p, r)'
      PROVE  Fd(r.asked.shm)' = Fd(r.asked.shm)
  <2>1. PICK s \in Tracees : /\ process'[s] = p /\ pending'[s].call = "mmap"
                             /\ config'[s].waiting_object_index = r.asked.shm
    BY <1>2 DEF Arriving
  <2>2. MapsOf(mapped_shms', r.asked.shm) # {}
    BY <2>1 DEF Finds, MapsOf
  <2> QED BY <2>2 DEF SegmentsKept
<1>3. ASSUME NEW p \in Tracees, NEW r \in regions'[p]
      PROVE  /\ Lives(p)'
             /\ \/ Leaving(p, r)'
                \/ r.asked = Fd(r.asked.shm)' /\ (Arriving(p, r)' \/ Registered(p, r)')
  BY <1>1, <1>2
<1>4. ASSUME NEW t \in Tracees, Forks(t)', NEW r \in pending'[t].regions
      PROVE  r.asked = Fd(r.asked.shm)' /\ Registered(process[t], r)'
  BY <1>1, <1>4
<1> QED BY <1>3, <1>4 DEF RegionInv

(* A region and its asked-for segment have addresses and slots.            *)
LEMMA RegionType ==
  ASSUME WaitInv
  PROVE  /\ \A p \in Tracees : \A r \in regions[p] : r.addr # 0
         /\ \A t \in Tracees : Forks(t) => \A r \in pending[t].regions : r.addr # 0
<1>1. \A r \in Region : r.addr # 0
  BY ShmAssumption DEF Region
<1>2. \A p \in Tracees : regions[p] \subseteq Region
  BY DEF WaitInv, MemTypeOK
<1>3. ASSUME NEW t \in Tracees, Forks(t) PROVE pending[t].regions \subseteq Region
  <2>1. pending[t] \in Calls /\ pending[t].call = "clone"
    BY <1>3 DEF WaitInv, MemTypeOK, Forks
  <2> QED BY <2>1 DEF Calls, NoCall
<1> QED BY <1>1, <1>2, <1>3

(* No region comes, none is forgotten.                                     *)
LEMMA RegionsQuiet ==
  ASSUME WaitInv, WaitInv', RegionInv, SegmentsKept, Finds',
         \A p \in Tracees : regions'[p] \subseteq regions[p],
         \A p \in Tracees : regions'[p] # {} => Lives(p)',
         \A p \in Tracees : \A r \in regions'[p] :
           /\ Leaving(p, r) => Leaving(p, r)'
           /\ Arriving(p, r) => Arriving(p, r)' \/ Registered(p, r)'
           /\ Registered(p, r) => Registered(p, r)' \/ Leaving(p, r)',
         \A t \in Tracees : Forks(t)' =>
           /\ Forks(t) /\ pending'[t] = pending[t]
           /\ \A r \in pending[t].regions :
                Registered(process[t], r) => Registered(process[t], r)'
  PROVE  RegionInv'
<1>1. ASSUME NEW p \in Tracees, NEW r \in regions'[p]
      PROVE  /\ Lives(p)'
             /\ \/ Leaving(p, r)'
                \/ r.asked = Fd(r.asked.shm) /\ (Arriving(p, r)' \/ Registered(p, r)')
  <2>1. r \in regions[p] /\ Lives(p)' OBVIOUS
  <2>2. \/ Leaving(p, r)
        \/ r.asked = Fd(r.asked.shm) /\ (Arriving(p, r) \/ Registered(p, r))
    BY <2>1 DEF RegionInv
  <2> QED BY <2>1, <2>2
<1>2. ASSUME NEW t \in Tracees, Forks(t)', NEW r \in pending'[t].regions
      PROVE  r.asked = Fd(r.asked.shm) /\ Registered(process[t], r)'
  BY <1>2 DEF RegionInv
<1>3. process' \in [Tracees -> Tracees] BY DEF WaitInv, MemTypeOK
<1> QED BY ONLY SegmentsKept, Finds', <1>1, <1>2, <1>3, RegionsFollow

(* The calls that are under way stay so.                                   *)
LEMMA CallsStay ==
  ASSUME PendInv', CountFrame,
         \A s \in Tracees : \/ pending'[s] = pending[s] /\ process'[s] = process[s]
                            \/ pending[s] = NoCall
  PROVE  \A p, r : /\ Leaving(p, r) => Leaving(p, r)'
                   /\ Arriving(p, r) => Arriving(p, r)'
<1>1. NoCall.call = "none" BY DEF NoCall
<1>2. ASSUME NEW p, NEW r, Leaving(p, r) PROVE Leaving(p, r)'
  BY <1>1, <1>2 DEF Leaving
<1>3. ASSUME NEW p, NEW r, Arriving(p, r) PROVE Arriving(p, r)'
  <2>1. PICK s \in Tracees : /\ process[s] = p
                             /\ pending[s].call = "mmap" /\ pending[s].addr = r.addr
                             /\ config[s].waiting_object_index = r.asked.shm
    BY <1>3 DEF Arriving
  <2>2. pending'[s] = pending[s] /\ process'[s] = process[s]
    BY <1>1, <2>1
  <2>3. config'[s].waiting_object_index = config[s].waiting_object_index
    BY <2>1, <2>2, IndexKept
  <2> QED BY <2>1, <2>2, <2>3 DEF Arriving
<1> QED BY <1>2, <1>3

(* Nothing is mapped, unmapped or unlinked, and nobody starts to fork.     *)
LEMMA RegionsStill ==
  ASSUME WaitInv, WaitInv', PendInv', RegionInv, SegmentsKept, Finds', CountFrame,
         UNCHANGED regions,
         \A s \in Tracees : \/ pending'[s] = pending[s] /\ process'[s] = process[s]
                            \/ pending[s] = NoCall /\ pending'[s].call # "clone",
         \A s \in Tracees : at[s] \notin {"none", "dead"} =>
           at'[s] \notin {"none", "dead"} /\ process'[s] = process[s],
         \A p \in Tracees : \A r : r.addr # 0 /\ Registered(p, r) => Registered(p, r)'
  PROVE  RegionInv'
<1>1. \A p \in Tracees : \A r \in regions[p] : r.addr # 0
  BY RegionType
<1>2. \A p \in Tracees : Lives(p) => Lives(p)'
  BY DEF Lives
<1>3. \A p \in Tracees : regions'[p] # {} => Lives(p)'
  BY <1>2 DEF RegionInv
<1>4. \A p, r : /\ Leaving(p, r) => Leaving(p, r)'
                /\ Arriving(p, r) => Arriving(p, r)'
  BY CallsStay
<1>5. ASSUME NEW t \in Tracees, Forks(t)'
      PROVE  /\ Forks(t) /\ pending'[t] = pending[t]
             /\ \A r \in pending[t].regions :
                  Registered(process[t], r) => Registered(process[t], r)'
  <2>1. pending'[t] = pending[t] /\ process'[t] = process[t]
    BY <1>5 DEF Forks
  <2>2. Forks(t) BY <1>5, <2>1 DEF Forks
  <2>3. PICK p \in Tracees : p = process[t] BY DEF WaitInv, MemTypeOK
  <2>4. \A r \in pending[t].regions : Registered(p, r) => Registered(p, r)'
    BY <2>2, RegionType
  <2>5. \A r : (Registered(process[t], r)' <=> Registered(p, r)')
    BY <2>1, <2>3 DEF Registered
  <2> QED BY <2>1, <2>2, <2>3, <2>4, <2>5
<1> QED BY <1>1, <1>3, <1>4, <1>5, RegionsQuiet

(* Who calls goes on.                                                      *)
LEMMA CallLives ==
  ASSUME WaitInv, NEW t \in Tracees, NEW c, NEW status, NEW sigsys,
         SyscallCommon(t, c, status, sigsys), UNCHANGED process
  PROVE  \A s \in Tracees : at[s] \notin {"none", "dead"} =>
           at'[s] \notin {"none", "dead"} /\ process'[s] = process[s]
<1>1. PICK a : a = CommonAt(c, sigsys)
  OBVIOUS
<1>2. a \notin {"none", "dead"}
  BY <1>1 DEF CommonAt, Resume
<1>3. at' = [at EXCEPT ![t] = a] /\ at \in [Tracees -> Locations]
  BY <1>1 DEF SyscallCommon, WaitInv, IpcTypeOK
<1> QED BY <1>2, <1>3

(* The k-th mapping of process p goes: what is at its address is forgotten.*)
LEMMA RegUnlinked ==
  ASSUME WaitInv, NEW p \in Tracees, NEW k \in 1..Len(mapped_shms[p]),
         mapped_shms' = [mapped_shms EXCEPT ![p] = Unlink(@, k)]
  PROVE  \A q \in Tracees : \A r : Registered(q, r) =>
           Registered(q, r)' \/ (q = p /\ mapped_shms[p][k].addr = r.addr)
<1>1. PICK old : old = mapped_shms[p]
  OBVIOUS
<1>2. PICK new : new = Unlink(old, k)
  OBVIOUS
<1>3. old \in Seq(Mapping) /\ k \in 1..Len(old) /\ mapped_shms \in [Tracees -> Seq(Mapping)]
  BY <1>1 DEF WaitInv, MemTypeOK
<1>4. /\ Len(new) = Len(old) - 1 /\ Len(old) \in Nat
      /\ \A j \in 1..(k - 1) : new[j] = old[j]
      /\ \A j \in k..(Len(old) - 1) : new[j] = old[j + 1]
  BY <1>2, <1>3, UnlinkType
<1>5. mapped_shms'[p] = new /\ \A q \in Tracees : q # p => mapped_shms'[q] = mapped_shms[q]
  BY <1>1, <1>2, <1>3
<1>6. ASSUME NEW j \in 1..Len(old), j # k PROVE \E n \in 1..Len(new) : new[n] = old[j]
  <2>1. CASE j < k
    <3>1. j \in 1..(k - 1) /\ j \in 1..Len(new) BY <1>3, <1>4, <2>1
    <3> QED BY <1>4, <3>1
  <2>2. CASE j > k
    <3>1. j - 1 \in k..(Len(old) - 1) /\ j - 1 \in 1..Len(new) /\ (j - 1) + 1 = j
      BY <1>3, <1>4, <2>2
    <3> QED BY <1>4, <3>1
  <2> QED BY <1>3, <1>4, <1>6, <2>1, <2>2
<1>7. ASSUME NEW q \in Tracees, NEW r, Registered(q, r)
      PROVE  Registered(q, r)' \/ (q = p /\ old[k].addr = r.addr)
  <2>1. CASE q # p
    BY <1>5, <1>7, <2>1 DEF Registered
  <2>2. CASE q = p
    <3>1. PICK j \in 1..Len(old) : old[j].addr = r.addr /\ old[j].shm_index = r.asked.shm
      BY <1>1, <1>7, <2>2 DEF Registered
    <3>2. CASE j = k BY <2>2, <3>1, <3>2
    <3>3. CASE j # k
      <4>1. PICK n \in 1..Len(new) : new[n] = old[j] BY <1>6, <3>3
      <4> QED BY <1>5, <2>2, <3>1, <4>1 DEF Registered
    <3> QED BY <3>2, <3>3
  <2> QED BY <2>1, <2>2
<1> QED BY <1>1, <1>7

(* shmat: one more mapping.                                                *)
LEMMA RegPushed ==
  ASSUME WaitInv, NEW p \in Tracees, NEW x \in Mapping,
         mapped_shms' = [mapped_shms EXCEPT ![p] = <<x>> \o @]
  PROVE  \A q \in Tracees : \A r : Registered(q, r) => Registered(q, r)'
<1>1. PICK old : old = mapped_shms[p]
  OBVIOUS
<1>2. PICK new : new = <<x>> \o old
  OBVIOUS
<1>3. old \in Seq(Mapping) /\ mapped_shms \in [Tracees -> Seq(Mapping)]
  BY <1>1 DEF WaitInv, MemTypeOK
<1>4. \A j \in 1..Len(old) : j + 1 \in 1..Len(new) /\ new[j + 1] = old[j]
  BY <1>2, <1>3
<1>5. mapped_shms'[p] = new /\ \A q \in Tracees : q # p => mapped_shms'[q] = mapped_shms[q]
  BY <1>1, <1>2, <1>3
<1>6. ASSUME NEW q \in Tracees, NEW r, Registered(q, r) PROVE Registered(q, r)'
  <2>1. CASE q # p BY <1>5, <1>6, <2>1 DEF Registered
  <2>2. CASE q = p
    <3>1. PICK j \in 1..Len(old) : old[j].addr = r.addr /\ old[j].shm_index = r.asked.shm
      BY <1>1, <1>6, <2>2 DEF Registered
    <3> QED BY <1>4, <1>5, <2>2, <3>1 DEF Registered
  <2> QED BY <2>1, <2>2
<1> QED BY <1>6

(* Whoever forks is a thread that runs.                                    *)
LEMMA ForksRuns ==
  ASSUME WaitInv, PendInv, NEW s \in Tracees, Forks(s)
  PROVE  at[s] = "kernel" /\ pending[s] # NoCall
<1>1. InCall(pending[s], config[s], at[s]) BY DEF PendInv
<1> QED BY <1>1 DEF Forks, InCall, NoCall

(* shmdt: what it forgets is leaving.                                      *)
LEMMA RegionsShmdt ==
  ASSUME Careful, WaitInv, WaitInv', PendInv, PendInv', RegionInv, SegmentsKept, Finds',
         NEW t \in Tracees, NEW sigsys \in BOOLEAN, NEW addr \in DetachAddrs,
         Shmdt(t, sigsys, addr)
  PROVE  RegionInv'
<1>1. PICK p \in Tracees : p = process[t]
  BY DEF WaitInv, MemTypeOK
<1>2. PICK k \in 1..Len(mapped_shms[p]) :
        /\ mapped_shms[p][k].addr = addr
        /\ mapped_shms' = [mapped_shms EXCEPT ![p] = Unlink(@, k)]
  BY <1>1, ShmdtStep
<1>3. CountFrame
  BY ShmdtStep
<1>4. PICK d : d = [call |-> "munmap", addr |-> addr]
  OBVIOUS
<1>5. /\ CanCall(t) /\ UNCHANGED <<process, regions>>
      /\ pending' = [pending EXCEPT ![t] = d]
      /\ ~\E s \in Siblings(t) : Forks(s)
      /\ SyscallCommon(t, [config[t] EXCEPT !.chain_state = "CSTATE_SINGLE"], "OK", sigsys)
  BY <1>4 DEF Shmdt, Careful
<1>6. pending[t] = NoCall
  BY <1>5, CallFree DEF CanCall
<1>7. pending'[t] = d /\ \A s \in Tracees : s # t => pending'[s] = pending[s]
  BY <1>5 DEF WaitInv, MemTypeOK
<1>8. \A q, r : /\ Leaving(q, r) => Leaving(q, r)'
                /\ Arriving(q, r) => Arriving(q, r)'
  BY <1>3, <1>5, <1>6, <1>7, CallsStay
<1>9. ASSUME NEW q \in Tracees, NEW r, Registered(q, r)
      PROVE  Registered(q, r)' \/ Leaving(q, r)'
  <2>1. CASE q = p /\ r.addr = addr
    BY <1>1, <1>4, <1>5, <1>7, <2>1 DEF Leaving
  <2>2. CASE ~(q = p /\ r.addr = addr)
    BY <1>2, <1>9, <2>2, RegUnlinked
  <2> QED BY <2>1, <2>2
<1>10. \A q \in Tracees : Lives(q) => Lives(q)'
  BY <1>5, CallLives DEF Lives
<1>11. ASSUME NEW s \in Tracees, Forks(s)'
       PROVE  /\ Forks(s) /\ pending'[s] = pending[s]
              /\ \A r \in pending[s].regions :
                   Registered(process[s], r) => Registered(process[s], r)'
  <2>1. s # t BY <1>4, <1>7, <1>11 DEF Forks
  <2>2. Forks(s) /\ pending'[s] = pending[s] BY <1>7, <1>11, <2>1 DEF Forks
  <2>3. process[s] # p
    BY <1>1, <1>5, <2>1, <2>2, ForksRuns DEF Siblings, Threads
  <2>4. PICK q \in Tracees : q = process[s] BY DEF WaitInv, MemTypeOK
  <2>5. \A r : Registered(q, r) => Registered(q, r)'
    BY <1>2, <2>3, <2>4, RegUnlinked
  <2>6. \A r : Registered(process[s], r)' <=> Registered(q, r)'
    BY <1>5, <2>4 DEF Registered
  <2> QED BY <2>2, <2>4, <2>5, <2>6
<1>12. \A q \in Tracees : regions'[q] # {} => Lives(q)'
  BY <1>5, <1>10 DEF RegionInv
<1> QED BY <1>5, <1>8, <1>9, <1>11, <1>12, RegionsQuiet

(* execve, as PRoot sees it: all the process has mapped is leaving.        *)
LEMMA RegionsExecve ==
  ASSUME Careful, WaitInv, WaitInv', PendInv, PendInv', RegionInv, SegmentsKept, Finds',
         NEW t \in Tracees, ExecveEnter(t)
  PROVE  RegionInv'
<1>1. PICK d : d = [call |-> "execve"]
  OBVIOUS
<1>2. /\ CanCall(t) /\ UNCHANGED <<process, regions, config>> /\ process[t] = t
      /\ pending' = [pending EXCEPT ![t] = d]
      /\ at' = [at EXCEPT ![t] = "kernel"]
      /\ mapped_shms' = [mapped_shms EXCEPT ![t] = <<>>]
      /\ ~\E s \in Siblings(t) : Forks(s)
  BY <1>1 DEF ExecveEnter, Careful
<1>3. CountFrame
  BY ExecveStep
<1>4. pending[t] = NoCall
  BY <1>2, CallFree DEF CanCall
<1>5. /\ pending'[t] = d /\ at'[t] = "kernel"
      /\ \A s \in Tracees : s # t => pending'[s] = pending[s] /\ at'[s] = at[s]
      /\ \A q \in Tracees : q # t => mapped_shms'[q] = mapped_shms[q]
  BY <1>2 DEF WaitInv, MemTypeOK, IpcTypeOK
<1>6. \A q, r : /\ Leaving(q, r) => Leaving(q, r)'
                /\ Arriving(q, r) => Arriving(q, r)'
  BY <1>2, <1>3, <1>4, <1>5, CallsStay
<1>7. ASSUME NEW q \in Tracees, NEW r, Registered(q, r)
      PROVE  Registered(q, r)' \/ Leaving(q, r)'
  <2>1. CASE q = t
    BY <1>1, <1>2, <1>5, <2>1 DEF Leaving
  <2>2. CASE q # t
    BY <1>5, <1>7, <2>2 DEF Registered
  <2> QED BY <2>1, <2>2
<1>8. \A q \in Tracees : Lives(q) => Lives(q)'
  BY <1>2, <1>5 DEF Lives
<1>9. ASSUME NEW s \in Tracees, Forks(s)'
      PROVE  /\ Forks(s) /\ pending'[s] = pending[s]
             /\ \A r \in pending[s].regions :
                  Registered(process[s], r) => Registered(process[s], r)'
  <2>1. s # t BY <1>1, <1>5, <1>9 DEF Forks
  <2>2. Forks(s) /\ pending'[s] = pending[s] BY <1>5, <1>9, <2>1 DEF Forks
  <2>3. process[s] # t /\ process[s] \in Tracees
    BY <1>2, <2>1, <2>2, ForksRuns DEF Siblings, Threads, WaitInv, MemTypeOK
  <2> QED BY <1>2, <1>5, <2>2, <2>3 DEF Registered
<1>10. \A q \in Tracees : regions'[q] # {} => Lives(q)'
  BY <1>2, <1>8 DEF RegionInv
<1> QED BY <1>2, <1>6, <1>7, <1>9, <1>10, RegionsQuiet

(* munmap, in the kernel: what was leaving has left.                       *)
LEMMA RegionsMunmap ==
  ASSUME WaitInv, WaitInv', PendInv, PendInv', RegionInv, SegmentsKept, Finds',
         NEW t \in Tracees, KernelMunmap(t)
  PROVE  RegionInv'
<1>0. PICK d : d = pending[t]
  OBVIOUS
<1>1. PICK p \in Tracees : p = process[t]
  BY DEF WaitInv, MemTypeOK
<1>2. /\ d.call = "munmap" /\ UNCHANGED <<at, config, process, mapped_shms>>
      /\ regions' = [regions EXCEPT ![p] = {r \in @ : r.addr # d.addr}]
      /\ pending' = [pending EXCEPT ![t] = NoCall]
  BY <1>0, <1>1 DEF KernelMunmap, ipcVars
<1>3. /\ pending'[t] = NoCall /\ \A s \in Tracees : s # t => pending'[s] = pending[s]
      /\ \A q \in Tracees : regions'[q] = {r \in regions[q] : q # p \/ r.addr # d.addr}
      /\ NoCall.call = "none"
  BY <1>1, <1>2 DEF WaitInv, MemTypeOK, NoCall
<1>4. ASSUME NEW q \in Tracees, NEW r \in regions'[q]
      PROVE  /\ Leaving(q, r) => Leaving(q, r)'
             /\ Arriving(q, r) => Arriving(q, r)'
             /\ Registered(q, r) => Registered(q, r)'
  <2>1. q # p \/ r.addr # d.addr BY <1>3
  <2>2. Leaving(q, r) => Leaving(q, r)'
    <3>1. ASSUME NEW s \in Tracees, process[s] = q,
                 \/ pending[s].call = "munmap" /\ pending[s].addr = r.addr
                 \/ pending[s].call = "execve"
          PROVE  s # t
      BY <1>0, <1>1, <1>2, <2>1, <3>1
    <3> QED BY <1>2, <1>3, <3>1 DEF Leaving
  <2>3. Arriving(q, r) => Arriving(q, r)'
    <3>1. ASSUME NEW s \in Tracees, pending[s].call = "mmap" PROVE pending'[s] = pending[s]
      BY <1>0, <1>2, <1>3, <3>1
    <3> QED BY <1>2, <3>1 DEF Arriving
  <2>4. Registered(q, r) => Registered(q, r)'
    BY <1>2 DEF Registered
  <2> QED BY <2>2, <2>3, <2>4
<1>5. ASSUME NEW s \in Tracees, Forks(s)'
      PROVE  /\ Forks(s) /\ pending'[s] = pending[s]
             /\ \A r \in pending[s].regions :
                  Registered(process[s], r) => Registered(process[s], r)'
  BY <1>2, <1>3, <1>5 DEF Forks, Registered
<1>6. \A q \in Tracees : regions'[q] \subseteq regions[q] /\ (Lives(q) => Lives(q)')
  BY <1>2, <1>3 DEF Lives
<1>7. \A q \in Tracees : regions'[q] # {} => Lives(q)'
  BY <1>6 DEF RegionInv
<1> QED BY <1>4, <1>5, <1>6, <1>7, RegionsQuiet

(* mmap, in the kernel: a region arrives.                                  *)
LEMMA RegionsMmap ==
  ASSUME WaitInv, WaitInv', PendInv, PendInv', RegionInv, SegmentsKept, Finds',
         NEW t \in Tracees, KernelMmap(t)
  PROVE  RegionInv'
<1>1. PICK p \in Tracees : p = process[t]
  BY DEF WaitInv, MemTypeOK
<1>2. PICK i : i = config[t].waiting_object_index
  OBVIOUS
<1>3. PICK addr \in 1..MmapError :
        /\ pending' = [pending EXCEPT ![t] = [call |-> "mmap", addr |-> addr]]
        /\ \/ UNCHANGED regions
           \/ regions' = [regions EXCEPT ![p] = @ \cup
                {[addr |-> addr, asked |-> Fd(i), got |-> mem_fd[t]]}]
  BY <1>1, <1>2, MmapStep
<1>4. PICK d : d = [call |-> "mmap", addr |-> addr]
  OBVIOUS
<1>5. PICK new : new = [addr |-> addr, asked |-> Fd(i), got |-> mem_fd[t]]
  OBVIOUS
<1>6. /\ UNCHANGED <<at, config, process, mapped_shms>> /\ pending[t] = NoCall
      /\ at[t] = "kernel"
  BY DEF KernelMmap, InChain, ipcVars
<1>7. /\ pending'[t] = d /\ \A s \in Tracees : s # t => pending'[s] = pending[s]
      /\ \A q \in Tracees : \A r \in regions'[q] : r \in regions[q] \/ (q = p /\ r = new)
  BY <1>1, <1>3, <1>4, <1>5 DEF WaitInv, MemTypeOK
<1>8. CountFrame
  BY <1>6 DEF CountFrame, Attaches
<1>9. \A q, r : /\ Leaving(q, r) => Leaving(q, r)'
                /\ Arriving(q, r) => Arriving(q, r)'
  BY <1>6, <1>7, <1>8, CallsStay
<1>10. \A q \in Tracees : (Lives(q) => Lives(q)') /\ Lives(p)'
  BY <1>1, <1>6 DEF Lives
<1>11. ASSUME NEW q \in Tracees, NEW r \in regions'[q]
       PROVE  /\ Lives(q)'
              /\ \/ Leaving(q, r)'
                 \/ r.asked = Fd(r.asked.shm) /\ (Arriving(q, r)' \/ Registered(q, r)')
  <2>1. CASE r \in regions[q]
    <3>1. Lives(q) /\ (\/ Leaving(q, r)
                       \/ r.asked = Fd(r.asked.shm) /\ (Arriving(q, r) \/ Registered(q, r)))
      BY <2>1 DEF RegionInv
    <3>2. Registered(q, r) => Registered(q, r)'
      BY <1>6 DEF Registered
    <3> QED BY <1>9, <1>10, <3>1, <3>2
  <2>2. CASE q = p /\ r = new
    <3>1. r.addr = addr /\ r.asked = Fd(i) /\ r.asked.shm = i
      BY <1>5, <2>2 DEF Fd
    <3>2. Arriving(q, r)'
      BY <1>1, <1>2, <1>4, <1>6, <1>7, <2>2, <3>1 DEF Arriving
    <3> QED BY <1>10, <2>2, <3>1, <3>2
  <2> QED BY <1>7, <2>1, <2>2
<1>12. ASSUME NEW s \in Tracees, Forks(s)', NEW r \in pending'[s].regions
       PROVE  r.asked = Fd(r.asked.shm) /\ Registered(process[s], r)'
  <2>1. Forks(s) /\ pending'[s] = pending[s]
    BY <1>4, <1>7, <1>12 DEF Forks
  <2>2. r.asked = Fd(r.asked.shm) /\ Registered(process[s], r)
    BY <1>12, <2>1 DEF RegionInv
  <2> QED BY <1>6, <2>2 DEF Registered
<1>13. process' \in [Tracees -> Tracees] BY DEF WaitInv, MemTypeOK
<1> QED BY ONLY SegmentsKept, Finds', <1>11, <1>12, <1>13, RegionsFollow

(* mmap has returned: the region that arrived has a mapping.               *)
LEMMA RegionsMmapDone ==
  ASSUME WaitInv, WaitInv', PendInv, PendInv', MapInv, RegionInv, SegmentsKept, Finds',
         NEW t \in Tracees, ExitMmap(t)
  PROVE  RegionInv'
<1>1. PICK p \in Tracees : p = process[t]
  BY DEF WaitInv, MemTypeOK
<1>2. PICK i : i = config[t].waiting_object_index
  OBVIOUS
<1>o. PICK k \in PendingMaps(process[t], config[t].waiting_object_index),
           addr \in 1..MmapError :
        /\ pending[t] = [call |-> "mmap", addr |-> addr]
        /\ mapped_shms' = [mapped_shms EXCEPT ![process[t]][k].addr = addr,
                                              ![process[t]][k].size = 1]
  BY ExitMmapStep
<1>3. /\ k \in PendingMaps(p, i) /\ pending[t] = [call |-> "mmap", addr |-> addr]
      /\ mapped_shms' = [mapped_shms EXCEPT ![p][k].addr = addr, ![p][k].size = 1]
  BY ONLY <1>1, <1>2, <1>o
<1>4. CountFrame /\ at' = at
  BY ExitMmapStep
<1>5. UNCHANGED <<process, regions>> /\ pending' = [pending EXCEPT ![t] = NoCall]
  BY DEF ExitMmap
<1>6. /\ pending'[t] = NoCall /\ \A s \in Tracees : s # t => pending'[s] = pending[s]
      /\ NoCall.call = "none"
  BY <1>5 DEF WaitInv, MemTypeOK, NoCall
<1>7. PICK old : old = mapped_shms[p]
  OBVIOUS
<1>8. PICK e : e = [old[k] EXCEPT !.addr = addr, !.size = 1]
  OBVIOUS
<1>9. /\ old \in Seq(Mapping) /\ k \in 1..Len(old) /\ old[k] \in Mapping
      /\ old[k].size = 0 /\ old[k].shm_index = i /\ old[k].addr = 0
      /\ mapped_shms \in [Tracees -> Seq(Mapping)]
  BY <1>3, <1>7 DEF WaitInv, MemTypeOK, PendingMaps, MapInv
<1>10. e.shm_index = i /\ e.addr = addr
  BY <1>8, <1>9 DEF Mapping
<1>11. mapped_shms' = [mapped_shms EXCEPT ![p] = [old EXCEPT ![k] = e]]
  BY <1>3, <1>7, <1>8, <1>9
<1>12. PICK new : new = [old EXCEPT ![k] = e]
  OBVIOUS
<1>13. /\ mapped_shms'[p] = new /\ Len(new) = Len(old) /\ new[k] = e
       /\ \A j \in 1..Len(old) : j # k => new[j] = old[j]
       /\ \A q \in Tracees : q # p => mapped_shms'[q] = mapped_shms[q]
  BY <1>9, <1>11, <1>12
<1>14. ASSUME NEW q \in Tracees, NEW r, r.addr # 0, Registered(q, r)
       PROVE  Registered(q, r)'
  <2>1. CASE q # p BY <1>13, <1>14, <2>1 DEF Registered
  <2>2. CASE q = p
    <3>1. PICK j \in 1..Len(old) : old[j].addr = r.addr /\ old[j].shm_index = r.asked.shm
      BY <1>7, <1>14, <2>2 DEF Registered
    <3>2. j # k BY <1>9, <1>14, <3>1
    <3> QED BY <1>13, <2>2, <3>1, <3>2 DEF Registered
  <2> QED BY <2>1, <2>2
<1>15. ASSUME NEW q \in Tracees, NEW r \in regions'[q]
       PROVE  /\ Leaving(q, r) => Leaving(q, r)'
              /\ Arriving(q, r) => Arriving(q, r)' \/ Registered(q, r)'
              /\ Registered(q, r) => Registered(q, r)'
  <2>1. Leaving(q, r) => Leaving(q, r)'
    <3>1. ASSUME NEW s \in Tracees, pending[s].call \in {"munmap", "execve"}
          PROVE  pending'[s] = pending[s]
      BY <1>3, <1>6, <3>1
    <3> QED BY <1>5, <3>1 DEF Leaving
  <2>2. ASSUME Arriving(q, r) PROVE Arriving(q, r)' \/ Registered(q, r)'
    <3>1. PICK s \in Tracees : /\ process[s] = q
                               /\ pending[s].call = "mmap" /\ pending[s].addr = r.addr
                               /\ config[s].waiting_object_index = r.asked.shm
      BY <2>2 DEF Arriving
    <3>2. CASE s = t
      <4>1. q = p /\ r.addr = addr /\ r.asked.shm = i
        BY <1>1, <1>2, <1>3, <3>1, <3>2
      <4>2. Registered(q, r)'
        BY <1>9, <1>10, <1>13, <4>1 DEF Registered
      <4> QED BY <4>2
    <3>3. CASE s # t
      <4>1. pending'[s] = pending[s] BY <1>6, <3>3
      <4>2. config'[s].waiting_object_index = config[s].waiting_object_index
        BY <1>4, <3>1, <4>1, IndexKept
      <4> QED BY <1>5, <3>1, <4>1, <4>2 DEF Arriving
    <3> QED BY <3>2, <3>3
  <2>3. Registered(q, r) => Registered(q, r)'
    BY <1>5, <1>14, RegionType
  <2> QED BY <2>1, <2>2, <2>3
<1>16. ASSUME NEW s \in Tracees, Forks(s)'
       PROVE  /\ Forks(s) /\ pending'[s] = pending[s]
              /\ \A r \in pending[s].regions :
                   Registered(process[s], r) => Registered(process[s], r)'
  <2>1. Forks(s) /\ pending'[s] = pending[s] BY <1>6, <1>16 DEF Forks
  <2>2. PICK q \in Tracees : q = process[s] BY DEF WaitInv, MemTypeOK
  <2>3. \A r \in pending[s].regions : Registered(q, r) => Registered(q, r)'
    BY <1>14, <2>1, RegionType
  <2>4. \A r : Registered(process[s], r)' <=> Registered(q, r)'
    BY <1>5, <2>2 DEF Registered
  <2> QED BY <2>1, <2>2, <2>3, <2>4
<1>17. \A q \in Tracees : regions'[q] # {} => Lives(q)'
  BY <1>4, <1>5 DEF RegionInv, Lives
<1> QED BY <1>5, <1>15, <1>16, <1>17, RegionsQuiet

(* clone, in the kernel: the child is to have what its parent's process    *)
(* has, of which nothing arrives or leaves.                                *)
LEMMA RegionsClone ==
  ASSUME Careful, WaitInv, WaitInv', PendInv, PendInv', RegionInv, SegmentsKept, Finds',
         NEW parent \in Tracees, NEW child \in Tracees, NEW thread \in BOOLEAN,
         KernelClone(parent, child, thread)
  PROVE  RegionInv'
<1>1. PICK p \in Tracees : p = process[parent]
  BY DEF WaitInv, MemTypeOK
<1>2. PICK d : d = [call |-> "clone", child |-> child, thread |-> thread,
                    regions |-> IF thread THEN {} ELSE regions[p]]
  OBVIOUS
<1>3. /\ CanCall(parent) /\ UNCHANGED <<config, process, mapped_shms, regions>>
      /\ at' = [at EXCEPT ![parent] = "kernel"]
      /\ pending' = [pending EXCEPT ![parent] = d]
      /\ thread \/ ~\E s \in Siblings(parent) :
                      pending[s].call \in {"mmap", "munmap", "execve"}
  BY <1>1, <1>2 DEF KernelClone, Careful
<1>4. pending[parent] = NoCall /\ NoCall.call = "none"
  BY <1>3, CallFree DEF CanCall, NoCall
<1>5. /\ pending'[parent] = d /\ at'[parent] = "kernel"
      /\ \A s \in Tracees : s # parent => pending'[s] = pending[s] /\ at'[s] = at[s]
  BY <1>3 DEF WaitInv, MemTypeOK, IpcTypeOK
<1>6. CountFrame
  BY CloneStep
<1>7. \A q, r : /\ Leaving(q, r) => Leaving(q, r)'
                /\ Arriving(q, r) => Arriving(q, r)'
  BY <1>3, <1>4, <1>5, <1>6, CallsStay
<1>8. \A q \in Tracees : \A r : Registered(q, r) <=> Registered(q, r)'
  BY <1>3 DEF Registered
<1>9. \A q \in Tracees : Lives(q) => Lives(q)'
  BY <1>3, <1>5 DEF Lives
<1>10. ASSUME NEW q \in Tracees, NEW r \in regions'[q]
       PROVE  /\ Lives(q)'
              /\ \/ Leaving(q, r)'
                 \/ r.asked = Fd(r.asked.shm) /\ (Arriving(q, r)' \/ Registered(q, r)')
  <2>1. /\ Lives(q)
        /\ \/ Leaving(q, r)
           \/ r.asked = Fd(r.asked.shm) /\ (Arriving(q, r) \/ Registered(q, r))
    BY <1>3 DEF RegionInv
  <2> QED BY <1>7, <1>8, <1>9, <2>1
<1>11. ASSUME ~thread, NEW r \in regions[p]
       PROVE  r.asked = Fd(r.asked.shm) /\ Registered(p, r)
  <2>1. ASSUME NEW s \in Tracees, process[s] = p
        PROVE  pending[s].call \notin {"mmap", "munmap", "execve"}
    <3>1. CASE s = parent BY <1>4, <3>1
    <3>2. CASE s # parent /\ at[s] \in {"none", "dead"}
      <4>1. pending[s] = NoCall BY <3>2, CallFree
      <4> QED BY <1>4, <4>1
    <3>3. CASE s # parent /\ at[s] \notin {"none", "dead"}
      <4>1. s \in Siblings(parent) BY <1>1, <2>1, <3>3 DEF Siblings, Threads
      <4> QED BY <1>3, <1>11, <4>1
    <3> QED BY <3>1, <3>2, <3>3
  <2>2. ~Leaving(p, r) /\ ~Arriving(p, r)
    BY <2>1 DEF Leaving, Arriving
  <2> QED BY <1>11, <2>2 DEF RegionInv
<1>12. ASSUME NEW s \in Tracees, Forks(s)', NEW r \in pending'[s].regions
       PROVE  r.asked = Fd(r.asked.shm) /\ Registered(process[s], r)'
  <2>1. CASE s = parent
    <3>1. ~thread BY <1>2, <1>5, <1>12, <2>1 DEF Forks
    <3>2. r \in regions[p] BY <1>2, <1>5, <1>12, <2>1, <3>1
    <3>3. r.asked = Fd(r.asked.shm) /\ Registered(p, r) BY <1>11, <3>1, <3>2
    <3> QED BY <1>1, <1>3, <2>1, <3>3 DEF Registered
  <2>2. CASE s # parent
    <3>1. Forks(s) /\ pending'[s] = pending[s] BY <1>5, <1>12, <2>2 DEF Forks
    <3>2. r.asked = Fd(r.asked.shm) /\ Registered(process[s], r)
      BY <1>12, <3>1 DEF RegionInv
    <3> QED BY <1>3, <3>2 DEF Registered
  <2> QED BY <2>1, <2>2
<1>13. process' \in [Tracees -> Tracees] BY DEF WaitInv, MemTypeOK
<1> QED BY ONLY SegmentsKept, Finds', <1>10, <1>12, <1>13, RegionsFollow

(* PRoot hears of the child: its process knows of the regions it copied.   *)
LEMMA RegionsChild ==
  ASSUME WaitInv, WaitInv', PendInv, PendInv', RegionInv, SegmentsKept, Finds',
         NEW parent \in Tracees, NEW child \in Tracees, NewChild(parent, child)
  PROVE  RegionInv'
<1>1. PICK d : d = pending[parent]
  OBVIOUS
<1>2. PICK p \in Tracees : p = process[parent]
  BY DEF WaitInv, MemTypeOK
<1>3. /\ d.call = "clone" /\ d.child = child
      /\ pending' = [pending EXCEPT ![parent] = NoCall]
      /\ process' = [process EXCEPT ![child] = IF d.thread THEN p ELSE child]
      /\ \A s \in Tracees : at[s] # "none" => process[s] # child
      /\ at[child] = "none"
  BY <1>1, <1>2 DEF NewChild, Inherit, PendInv
<1>4. /\ at'[child] = "user" /\ at'[parent] = "user" /\ at[parent] = "kernel"
      /\ \A s \in Tracees : s # child /\ s # parent => at'[s] = at[s]
      /\ CountFrame
  BY ChildStep
<1>5. pending[child] = NoCall /\ NoCall.call = "none"
  BY <1>3, CallFree DEF NoCall
<1>6. /\ pending'[parent] = NoCall /\ process'[child] = IF d.thread THEN p ELSE child
      /\ \A s \in Tracees : s # parent => pending'[s] = pending[s]
      /\ \A s \in Tracees : s # child => process'[s] = process[s]
  BY <1>3 DEF WaitInv, MemTypeOK
<1>7. IF d.thread
        THEN \A q \in Tracees : mapped_shms'[q] = mapped_shms[q] /\ regions'[q] = regions[q]
        ELSE /\ mapped_shms'[child] = mapped_shms[p] /\ regions'[child] = d.regions
             /\ \A q \in Tracees : q # child =>
                  mapped_shms'[q] = mapped_shms[q] /\ regions'[q] = regions[q]
  BY <1>1, <1>2 DEF NewChild, WaitInv, MemTypeOK
<1>8. \A q \in Tracees : Lives(q) => Lives(q)' /\ q # child
  BY <1>3, <1>4, <1>6 DEF Lives
<1>9. ASSUME NEW q \in Tracees, NEW r, q # child
      PROVE  /\ Leaving(q, r) => Leaving(q, r)'
             /\ Arriving(q, r) => Arriving(q, r)'
             /\ Registered(q, r) => Registered(q, r)'
  <2>1. ASSUME NEW s \in Tracees, pending[s].call \in {"mmap", "munmap", "execve"}
        PROVE  pending'[s] = pending[s] /\ process'[s] = process[s]
    BY <1>1, <1>3, <1>5, <1>6, <2>1
  <2>2. Leaving(q, r) => Leaving(q, r)'
    BY <2>1 DEF Leaving
  <2>3. ASSUME Arriving(q, r) PROVE Arriving(q, r)'
    <3>1. PICK s \in Tracees : /\ process[s] = q
                               /\ pending[s].call = "mmap" /\ pending[s].addr = r.addr
                               /\ config[s].waiting_object_index = r.asked.shm
      BY <2>3 DEF Arriving
    <3>2. pending'[s] = pending[s] /\ process'[s] = process[s]
      BY <2>1, <3>1
    <3>3. config'[s].waiting_object_index = config[s].waiting_object_index
      BY <1>4, <3>1, <3>2, IndexKept
    <3> QED BY <3>1, <3>2, <3>3 DEF Arriving
  <2>4. Registered(q, r) => Registered(q, r)'
    BY <1>7, <1>9 DEF Registered
  <2> QED BY <2>2, <2>3, <2>4
<1>10. ASSUME NEW q \in Tracees, NEW r \in regions'[q]
       PROVE  /\ Lives(q)'
              /\ \/ Leaving(q, r)'
                 \/ r.asked = Fd(r.asked.shm) /\ (Arriving(q, r)' \/ Registered(q, r)')
  <2>1. CASE r \in regions[q] /\ regions'[q] = regions[q]
    <3>1. /\ Lives(q)
          /\ \/ Leaving(q, r)
             \/ r.asked = Fd(r.asked.shm) /\ (Arriving(q, r) \/ Registered(q, r))
      BY <2>1 DEF RegionInv
    <3> QED BY <1>8, <1>9, <3>1
  <2>2. CASE ~d.thread /\ q = child
    <3>1. Forks(parent) /\ r \in pending[parent].regions
      BY <1>1, <1>3, <1>7, <2>2 DEF Forks
    <3>2. r.asked = Fd(r.asked.shm) /\ Registered(p, r)
      BY <1>2, <3>1 DEF RegionInv
    <3>3. Registered(q, r)'
      BY <1>7, <2>2, <3>2 DEF Registered
    <3>4. Lives(q)'
      BY <1>4, <1>6, <2>2 DEF Lives
    <3> QED BY <3>2, <3>3, <3>4
  <2> QED BY <1>7, <2>1, <2>2
<1>11. ASSUME NEW s \in Tracees, Forks(s)', NEW r \in pending'[s].regions
       PROVE  r.asked = Fd(r.asked.shm) /\ Registered(process[s], r)'
  <2>1. s # parent BY <1>5, <1>6, <1>11 DEF Forks
  <2>2. Forks(s) /\ pending'[s] = pending[s] BY <1>6, <1>11, <2>1 DEF Forks
  <2>3. r.asked = Fd(r.asked.shm) /\ Registered(process[s], r)
    BY <1>11, <2>2 DEF RegionInv
  <2>4. at[s] = "kernel" BY <2>2, ForksRuns
  <2>5. s # child /\ process[s] # child /\ process[s] \in Tracees
    BY <1>3, <2>4 DEF WaitInv, MemTypeOK
  <2>6. process'[s] = process[s] /\ mapped_shms'[process[s]] = mapped_shms[process[s]]
    BY <1>6, <1>7, <2>5
  <2> QED BY <2>3, <2>6 DEF Registered
<1>12. process' \in [Tracees -> Tracees] BY DEF WaitInv, MemTypeOK
<1> QED BY ONLY SegmentsKept, Finds', <1>10, <1>11, <1>12, RegionsFollow

(* The end of a process, or its new program: nothing it had is left.       *)
LEMMA RegionsEnd ==
  ASSUME WaitInv, WaitInv', PendInv, PendInv', RegionInv, SegmentsKept, Finds',
         NEW t \in Tracees, Kill(t) \/ ExecveDone(t)
  PROVE  RegionInv'
<1>1. PICK p \in Tracees : p = process[t]
  BY DEF WaitInv, MemTypeOK
<1>2. PICK D \in SUBSET Tracees : Ends(D, t) /\ D \subseteq Threads(t) \cup {t}
  BY EndIs
<1>3. \A s \in Tracees : s \in D \cup {t} => process[s] = p
  BY <1>1, <1>2 DEF Threads
<1>4. /\ at' = [s \in Tracees |-> IF s \in D THEN "dead" ELSE IF s = t THEN "user" ELSE at[s]]
      /\ pending' = [s \in Tracees |-> IF s \in D \cup {t} THEN NoCall ELSE pending[s]]
      /\ regions' = [regions EXCEPT ![p] = {}]
      /\ UNCHANGED <<config, process, mapped_shms>>
  BY <1>1, <1>2 DEF Ends
<1>5. /\ \A s \in Tracees : process[s] # p => at'[s] = at[s] /\ pending'[s] = pending[s]
      /\ \A s \in Tracees : pending'[s] = NoCall \/ pending'[s] = pending[s]
      /\ \A q \in Tracees : regions'[q] = IF q = p THEN {} ELSE regions[q]
      /\ NoCall.call = "none"
  BY <1>1, <1>3, <1>4 DEF WaitInv, MemTypeOK, NoCall
<1>6. ASSUME NEW q \in Tracees, NEW r \in regions'[q]
      PROVE  /\ q # p /\ Lives(q)'
             /\ Leaving(q, r) => Leaving(q, r)'
             /\ Arriving(q, r) => Arriving(q, r)'
             /\ Registered(q, r) => Registered(q, r)'
  <2>1. q # p /\ Lives(q) BY <1>5 DEF RegionInv
  <2>2. Lives(q)' BY <1>4, <1>5, <2>1 DEF Lives
  <2>3. Leaving(q, r) => Leaving(q, r)'
    BY <1>4, <1>5, <2>1 DEF Leaving
  <2>4. Arriving(q, r) => Arriving(q, r)'
    BY <1>4, <1>5, <2>1 DEF Arriving
  <2>5. Registered(q, r) => Registered(q, r)'
    BY <1>4 DEF Registered
  <2> QED BY <2>1, <2>2, <2>3, <2>4, <2>5
<1>7. ASSUME NEW s \in Tracees, Forks(s)'
      PROVE  /\ Forks(s) /\ pending'[s] = pending[s]
             /\ \A r \in pending[s].regions :
                  Registered(process[s], r) => Registered(process[s], r)'
  <2>1. Forks(s) /\ pending'[s] = pending[s] BY <1>5, <1>7 DEF Forks
  <2> QED BY <1>4, <2>1 DEF Registered
<1>8. \A q \in Tracees : regions'[q] \subseteq regions[q] /\ (regions'[q] # {} => Lives(q)')
  BY <1>5, <1>6
<1> QED BY <1>6, <1>7, <1>8, RegionsQuiet

(* A dead tracee is freed: if it was the last of its process, that one had *)
(* no regions left.                                                        *)
LEMMA RegionsReap ==
  ASSUME WaitInv, WaitInv', PendInv, PendInv', RegionInv, SegmentsKept, Finds',
         NEW t \in Tracees, ReapTracee(t)
  PROVE  RegionInv'
<1>1. PICK p \in Tracees : p = process[t]
  BY DEF WaitInv, MemTypeOK
<1>2. /\ CountFrame /\ at[t] = "dead" /\ at'[t] = "none"
      /\ \A s \in Tracees : s # t => at'[s] = at[s]
      /\ process' = [process EXCEPT ![t] = t] /\ UNCHANGED <<regions, pending>>
  BY ReapStep
<1>3. pending[t] = NoCall /\ NoCall.call = "none"
  BY <1>2, CallFree DEF NoCall
<1>4. \A s \in Tracees : s # t => process'[s] = process[s]
  BY <1>2 DEF WaitInv, MemTypeOK
<1>5. \A q, r : /\ Leaving(q, r) => Leaving(q, r)'
                /\ Arriving(q, r) => Arriving(q, r)'
  BY <1>2, <1>3, <1>4, CallsStay
<1>6. \A q \in Tracees : Lives(q) => Lives(q)'
  BY <1>2, <1>4 DEF Lives
<1>7. ASSUME NEW q \in Tracees, Lives(q), NEW r, Registered(q, r) PROVE Registered(q, r)'
  <2>1. CASE Threads(t) = {t}
    <3>1. mapped_shms' = [mapped_shms EXCEPT ![p] = <<>>]
      BY <1>1, <2>1 DEF ReapTracee
    <3>2. q # p
      BY <1>1, <1>2, <1>7, <2>1 DEF Lives, Threads
    <3>3. mapped_shms'[q] = mapped_shms[q]
      BY <3>1, <3>2 DEF WaitInv, MemTypeOK
    <3> QED BY <1>7, <3>3 DEF Registered
  <2>2. CASE Threads(t) # {t}
    <3>1. mapped_shms' = mapped_shms BY <2>2 DEF ReapTracee
    <3> QED BY <1>7, <3>1 DEF Registered
  <2> QED BY <2>1, <2>2
<1>8. ASSUME NEW s \in Tracees, Forks(s)'
      PROVE  /\ Forks(s) /\ pending'[s] = pending[s]
             /\ \A r \in pending[s].regions :
                  Registered(process[s], r) => Registered(process[s], r)'
  <2>1. Forks(s) /\ pending'[s] = pending[s] BY <1>2, <1>8 DEF Forks
  <2>2. at[s] = "kernel" BY <2>1, ForksRuns
  <2>3. PICK q \in Tracees : q = process[s] BY DEF WaitInv, MemTypeOK
  <2>4. Lives(q) BY <2>2, <2>3 DEF Lives
  <2>5. process'[s] = process[s] BY <1>2, <1>4, <2>2
  <2>6. \A r : Registered(process[s], r)' <=> Registered(q, r)'
    BY <2>3, <2>5 DEF Registered
  <2> QED BY <1>7, <2>1, <2>3, <2>4, <2>6
<1>9. \A q \in Tracees : regions'[q] # {} => Lives(q) /\ Lives(q)'
  BY <1>2, <1>6 DEF RegionInv
<1> QED BY <1>2, <1>5, <1>7, <1>8, <1>9, RegionsQuiet

(* Every action keeps the regions' part of the invariant.                  *)
LEMMA NextRegion ==
  ASSUME Careful, WaitInv, WaitInv', PendInv, PendInv', MapInv, MapInv', RegionInv,
         Finds', [Next]_vars
  PROVE  RegionInv'
<1>0. SegmentsKept
  BY NextKept
<1>t. /\ at \in [Tracees -> Locations] /\ NoCall.call = "none"
      /\ mapped_shms \in [Tracees -> Seq(Mapping)] /\ process \in [Tracees -> Tracees]
  BY DEF WaitInv, MemTypeOK, IpcTypeOK, NoCall
<1>s. ASSUME CountFrame, UNCHANGED <<regions, pending, process>>,
             \A s \in Tracees : at[s] \notin {"none", "dead"} => at'[s] \notin {"none", "dead"},
             \A p \in Tracees : \A r : r.addr # 0 /\ Registered(p, r) => Registered(p, r)'
      PROVE  RegionInv'
  BY <1>0, <1>s, RegionsStill
<1>m. ASSUME UNCHANGED mapped_shms
      PROVE  \A p \in Tracees : \A r : Registered(p, r) => Registered(p, r)'
  BY <1>m DEF Registered
<1>1. ASSUME NEW t \in Tracees, Step(t) PROVE RegionInv'
  <2>1. CASE \/ StartPpoll(t) \/ StartReplaced(t) \/ ChainedEnter(t) \/ ChainedExit(t)
             \/ EndVoid(t) \/ EndStatus(t) \/ EndPpoll(t) \/ Swallow(t) \/ ExitSocket(t)
    <3>1. CountFrame /\ UNCHANGED shmVars
      BY <2>1, StopStep
    <3>2. at' = at \/ at' = [at EXCEPT ![t] = "kernel"] \/ at' = [at EXCEPT ![t] = "user"]
      BY <2>1 DEF StartPpoll, EnterPpoll, StartReplaced, ChainedEnter, ChainedExit, EndVoid,
         ExitVoid, EndStatus, ExitStatus, EndPpoll, ExitPpoll, Swallow, SigstopStop,
         ExitSocket, Advance
    <3>3. \A s \in Tracees : at[s] \notin {"none", "dead"} => at'[s] \notin {"none", "dead"}
      BY <1>t, <3>2
    <3> QED BY <1>s, <1>m, <3>1, <3>3 DEF shmVars
  <2>2. CASE KernelConnect(t) \/ ChainAborts(t)
    <3>1. UNCHANGED ipcVars /\ UNCHANGED <<mapped_shms, regions, pending, process>>
      BY <2>2 DEF KernelConnect, ChainAborts
    <3>2. CountFrame /\ UNCHANGED at BY <3>1 DEF CountFrame, Attaches, ipcVars
    <3> QED BY <1>s, <1>m, <3>1, <3>2
  <2>3. CASE ExitConnect(t) \/ ExitRecvmsg(t)
    <3>1. CountFrame /\ at' = at BY <2>3, ReturnStep
    <3>2. UNCHANGED <<mapped_shms, regions, pending, process>>
      BY <2>3 DEF ExitConnect, ExitRecvmsg
    <3> QED BY <1>s, <1>m, <3>1, <3>2
  <2>4. CASE ChainFails(t)
    <3>1. PICK p \in Tracees : p = process[t] BY <1>t
    <3>2. PICK k \in PendingMaps(process[t], config[t].waiting_object_index) :
            mapped_shms' = [mapped_shms EXCEPT ![process[t]] = Unlink(@, k)]
      BY <2>4, ChainFailsStep
    <3>3. /\ CountFrame /\ at' = at
      BY <2>4, ChainFailsStep
    <3>4. UNCHANGED <<regions, pending, process>> BY <2>4 DEF ChainFails
    <3>5. k \in 1..Len(mapped_shms[p]) /\ mapped_shms[p][k].addr = 0
      BY <3>1, <3>2 DEF PendingMaps, MapInv
    <3>6. \A q \in Tracees : \A r : Registered(q, r) =>
            Registered(q, r)' \/ (q = p /\ mapped_shms[p][k].addr = r.addr)
      BY <3>1, <3>2, <3>5, RegUnlinked
    <3>7. \A q \in Tracees : \A r : r.addr # 0 /\ Registered(q, r) => Registered(q, r)'
      BY <3>5, <3>6
    <3> QED BY <1>s, <3>3, <3>4, <3>7
  <2>5. CASE Exit(t)
    <3>1. /\ CountFrame /\ UNCHANGED shmVars /\ at'[t] = "dead"
          /\ \A s \in Tracees : s # t => at'[s] = at[s]
      BY <2>5, ExitStep
    <3>2. UNCHANGED <<regions, pending, process, mapped_shms>> BY <3>1 DEF shmVars
    <3>3. PICK u \in Siblings(t) : TRUE
      BY <2>5 DEF Exit
    <3>4. u \in Tracees /\ u # t /\ at[u] \notin {"none", "dead"} /\ process[u] = process[t]
      BY <3>3 DEF Siblings, Threads
    <3>5. \A p \in Tracees : Lives(p) => Lives(p)'
      BY <3>1, <3>2, <3>4 DEF Lives
    <3>6. \A p \in Tracees : regions'[p] # {} => Lives(p)'
      BY <3>2, <3>5 DEF RegionInv
    <3>7. \A p, r : /\ Leaving(p, r) => Leaving(p, r)'
                    /\ Arriving(p, r) => Arriving(p, r)'
      BY <3>1, <3>2, CallsStay
    <3>8. \A s \in Tracees : Forks(s)' =>
            /\ Forks(s) /\ pending'[s] = pending[s]
            /\ \A r \in pending[s].regions :
                 Registered(process[s], r) => Registered(process[s], r)'
      BY <3>2 DEF Forks, Registered
    <3> QED BY <1>0, <1>m, <3>2, <3>6, <3>7, <3>8, RegionsQuiet
  <2>6. CASE ExecveRefused(t) BY <2>6 DEF ExecveRefused, Careful
  <2>7. CASE ExitMmap(t) BY <1>0, <2>7, RegionsMmapDone
  <2>8. CASE KernelMmap(t) BY <1>0, <2>8, RegionsMmap
  <2>9. CASE KernelMunmap(t) BY <1>0, <2>9, RegionsMunmap
  <2>10. CASE Kill(t) \/ ExecveDone(t) BY <1>0, <2>10, RegionsEnd
  <2>11. CASE ReapTracee(t) BY <1>0, <2>11, RegionsReap
  <2>12. CASE ExecveEnter(t) BY <1>0, <2>12, RegionsExecve
  <2>13. ASSUME NEW child \in Tracees, NewChild(t, child) PROVE RegionInv'
    BY <1>0, <2>13, RegionsChild
  <2> QED BY <1>1, <2>1, <2>2, <2>3, <2>4, <2>5, <2>6, <2>7, <2>8, <2>9, <2>10, <2>11,
             <2>12, <2>13 DEF Step, Stop
<1>2. ASSUME NEW t \in Tracees, NEW sigsys \in SigsysModes, Syscall(t, sigsys)
      PROVE  RegionInv'
  <2>0. sigsys \in BOOLEAN BY ShmAssumption
  <2>c. ASSUME NEW c, SyscallCommon(t, c, "OK", sigsys), UNCHANGED process
        PROVE  \A s \in Tracees : at[s] \notin {"none", "dead"} => at'[s] \notin {"none", "dead"}
    BY <2>c, CallLives
  <2>1. ASSUME NEW ok \in {TRUE, ~Faults}, ShmgetCreate(t, sigsys, ok) PROVE RegionInv'
    <3>1. ok \in BOOLEAN BY ShmAssumption
    <3>2. CountFrame BY <2>0, <2>1, <3>1, ShmgetStep
    <3>3. /\ UNCHANGED <<mapped_shms, regions, pending, process>>
          /\ SyscallCommon(t, config[t], "OK", sigsys)
      BY <2>1 DEF ShmgetCreate
    <3> QED BY <1>s, <1>m, <2>c, <3>2, <3>3
  <2>2. CASE Query(t, sigsys)
    <3>1. CountFrame /\ UNCHANGED shmVars BY <2>0, <2>2, QueryStep
    <3>2. UNCHANGED <<mapped_shms, regions, pending, process>> BY <3>1 DEF shmVars
    <3>3. SyscallCommon(t, config[t], "OK", sigsys) BY <2>2 DEF Query
    <3> QED BY <1>s, <1>m, <2>c, <3>1, <3>2, <3>3
  <2>3. ASSUME NEW addr \in DetachAddrs, Shmdt(t, sigsys, addr) PROVE RegionInv'
    BY <1>0, <2>0, <2>3, RegionsShmdt
  <2>4. ASSUME NEW i \in 1..Len(shms), Shmat(t, sigsys, i) PROVE RegionInv'
    <3>1. PICK p \in Tracees : p = process[t] BY <1>t
    <3>2. PICK x : x = [shm_index |-> i, addr |-> 0, size |-> 0]
      OBVIOUS
    <3>3. i \in 1..MaxShms
      BY <2>0, <2>4, ShmatStep
    <3>4. x \in Mapping
      BY <3>2, <3>3, ShmAssumption DEF Mapping, MmapError
    <3>5. mapped_shms' = [mapped_shms EXCEPT ![p] = <<x>> \o @]
      BY <2>4, <3>1, <3>2 DEF Shmat
    <3>6. \A q \in Tracees : \A r : Registered(q, r) => Registered(q, r)'
      BY <3>4, <3>5, RegPushed
    <3>7. UNCHANGED <<regions, pending, process>> BY <2>4 DEF Shmat
    <3>8. \A s \in Tracees : at[s] \notin {"none", "dead"} => at'[s] \notin {"none", "dead"}
      BY <2>c, <2>4, <3>7 DEF Shmat
    <3>9. pending[t] = NoCall
      BY <2>4, CallFree DEF Shmat, CanCall
    <3>10. ASSUME NEW s \in Tracees, pending'[s].call = "mmap"
           PROVE  config'[s].waiting_object_index = config[s].waiting_object_index
      <4>1. s # t BY <1>t, <3>7, <3>9, <3>10
      <4> QED BY <2>0, <2>4, <4>1, ShmatStep
    <3>11. \A q \in Tracees : \A r : /\ Leaving(q, r) => Leaving(q, r)'
                                     /\ Arriving(q, r) => Arriving(q, r)'
      BY <3>7, <3>10 DEF Leaving, Arriving
    <3>12. \A q \in Tracees : Lives(q) => Lives(q)'
      BY <3>7, <3>8 DEF Lives
    <3>13. \A q \in Tracees : regions'[q] # {} => Lives(q)'
      BY <3>7, <3>12 DEF RegionInv
    <3>14. ASSUME NEW s \in Tracees, Forks(s)'
           PROVE  /\ Forks(s) /\ pending'[s] = pending[s]
                  /\ \A r \in pending[s].regions :
                       Registered(process[s], r) => Registered(process[s], r)'
      <4>1. Forks(s) /\ pending'[s] = pending[s] BY <3>7, <3>14 DEF Forks
      <4>2. PICK q \in Tracees : q = process[s] BY <1>t
      <4>3. \A r : Registered(process[s], r)' <=> Registered(q, r)'
        BY <3>7, <4>2 DEF Registered
      <4> QED BY <3>6, <4>1, <4>2, <4>3
    <3> QED BY <1>0, <3>6, <3>7, <3>11, <3>13, <3>14, RegionsQuiet
  <2>5. ASSUME NEW i \in 1..Len(shms), ShmctlRmid(t, sigsys, i) PROVE RegionInv'
    <3>1. CountFrame BY <2>0, <2>5, RmidStep
    <3>2. /\ UNCHANGED <<mapped_shms, regions, pending, process>>
          /\ SyscallCommon(t, config[t], "OK", sigsys)
      BY <2>5 DEF ShmctlRmid
    <3> QED BY <1>s, <1>m, <2>c, <3>1, <3>2
  <2> QED BY <1>2, <2>1, <2>2, <2>3, <2>4, <2>5 DEF Syscall
<1>3. ASSUME NEW parent \in Tracees, NEW child \in Tracees, NEW thread \in CloneThread,
             KernelClone(parent, child, thread)
      PROVE  RegionInv'
  <2>1. thread \in BOOLEAN BY ShmAssumption
  <2> QED BY <1>0, <1>3, <2>1, RegionsClone
<1>4. CASE HelperDistribute \/ UNCHANGED vars
  <2>1. /\ UNCHANGED <<mapped_shms, regions, pending, process>>
        /\ UNCHANGED <<config, at>>
    BY <1>4 DEF HelperDistribute, vars, ipcVars
  <2>2. CountFrame BY <2>1 DEF CountFrame, Attaches
  <2> QED BY <1>s, <1>m, <2>1, <2>2
<1> QED BY <1>1, <1>2, <1>3, <1>4 DEF Next, Terminated

(* At the start nothing is mapped.                                         *)
LEMMA InitRegion == Init => RegionInv
<1> SUFFICES ASSUME Init PROVE RegionInv
  OBVIOUS
<1>1. \A p \in Tracees : regions[p] = {} /\ pending[p] = NoCall
  BY DEF Init
<1>2. NoCall.call = "none" BY DEF NoCall
<1> QED BY <1>1, <1>2 DEF RegionInv, Forks

(* The invariant of the whole emulation but the helper.                    *)
SegmentInv == WaitInv /\ PendInv /\ MapInv /\ CountInv /\ Finds /\ RegionInv

LEMMA Segments ==
  ASSUME Careful
  PROVE  Spec => []SegmentInv
<1>0. "execve" \notin Careless /\ 0 \notin DetachAddrs
  BY DEF Careful
<1> DEFINE J == WaitInv /\ PendInv /\ MapInv /\ CountInv
<1>1. Init => J BY InitWait, InitPend, InitMap, InitCount
<1>2. J /\ [Next]_vars => J' BY <1>0, NextWait, NextPend, NextMap, NextCount
<1>3. J => Finds BY ArrivingFinds
<1>4. (J => Finds)' BY ArrivingFinds, PTL
<1>5. Init => SegmentInv
  BY <1>1, <1>3, InitRegion DEF SegmentInv
<1>6. SegmentInv /\ [Next]_vars => SegmentInv'
  BY <1>2, <1>4, NextRegion DEF SegmentInv
<1> QED BY <1>5, <1>6, PTL DEF Spec

(* A segment that a process has mapped, or that one of its mappings stands *)
(* for, is not removed and its slot not given to another, so that IPC_RMID *)
(* takes effect with the last detach, unless guests race an execve or a    *)
(* fork with their own attaching and detaching, the kernel refuses an      *)
(* execve, or a guest calls shmdt(0).                                      *)
THEOREM MappedSegmentsLive ==
  ASSUME Careless = {}, ExecveFails = FALSE, 0 \notin DetachAddrs
  PROVE  Spec => []MappedSegmentLives
<1>0. Careful BY DEF Careful
<1>1. SegmentInv => MappedSegmentLives
  BY DEF SegmentInv, MapInv, RegionInv, MappedSegmentLives
<1> QED BY <1>0, <1>1, Segments, PTL

(* What a process has attached PRoot knows of by its address and segment,  *)
(* for every order of the kernel's steps and PRoot's stops, under the same *)
(* suppositions.                                                           *)
THEOREM AttachedRegistered ==
  ASSUME Careless = {}, ExecveFails = FALSE, 0 \notin DetachAddrs
  PROVE  Spec => []AttachedIsRegistered
<1>0. Careful BY DEF Careful
<1>1. SegmentInv => AttachedIsRegistered
  BY DEF SegmentInv, RegionInv, Registered, AttachedIsRegistered
<1> QED BY <1>0, <1>1, Segments, PTL
=============================================================================
