------------------------------- MODULE SysVIpc -------------------------------
(***************************************************************************)
(* The wait mechanism of PRoot's System V IPC emulation                    *)
(* (extension/sysvipc/sysvipc.c), shared by the semaphore, message queue   *)
(* and shared memory handlers.                                             *)
(*                                                                         *)
(* PRoot is one thread: a handler runs from one ptrace stop of one tracee  *)
(* to its restart, so a handler is one action.  The tracees themselves,    *)
(* and the kernel on their behalf, run concurrently.  A blocking IPC call  *)
(* cannot block inside PRoot; the handler turns it into ppoll() in the     *)
(* tracee and records in the tracee's config why it sleeps.  Another       *)
(* tracee's call later wakes it, racing with time-outs, guest signals and  *)
(* the death of the sleeper.                                               *)
(*                                                                         *)
(* A call reaches PRoot in one of two ways: at the system call's entry     *)
(* stop, or (sigsys) after Android's seccomp policy refused it with        *)
(* SIGSYS.  In the second case the call never entered the kernel, so PRoot *)
(* rewinds the tracee to its trap instruction to make it issue ppoll().    *)
(***************************************************************************)
EXTENDS Naturals, Sequences

CONSTANT Tracees        \* pids

VARIABLES
  tracees,              \* the list walked by SYSVIPC_FOREACH_TRACEE
  at,                   \* where the tracee is, see Locations
  config,               \* struct SysVIpcConfig: fields of the wait mechanism
  sigstop,              \* tracee->sigstop
  kick                  \* a SIGSTOP sent by PRoot is pending on the tracee

ipcVars == <<tracees, at, config, sigstop, kick>>

-----------------------------------------------------------------------------
(* "user"    runs guest code;                                              *)
(* "rewound" is about to issue the call PRoot substituted after SIGSYS;    *)
(* "kernel"  is inside the substituted call.  Its return and the sysexit   *)
(*           stop are one action: until PRoot handles that stop nobody can *)
(*           tell whether the call has returned;                           *)
(* "dead"    was killed, PRoot has not reaped it: it still has a config;   *)
(* "none"    no such tracee.                                               *)
Locations == {"none", "user", "rewound", "kernel", "dead"}

WaitStates == {"WSTATE_NOT_WAITING", "WSTATE_RESTARTED_INTO_PPOLL_CANCELED",
               "WSTATE_RESTARTED_INTO_PPOLL", "WSTATE_ENTERED_PPOLL",
               "WSTATE_SIGNALED_PPOLL", "WSTATE_ENTERED_GETPID"}

WaitReasons == {"WR_NOT_WAITING", "WR_WAIT_QUEUE_RECV", "WR_WAIT_SEMOP",
                "WR_WAIT_SHMAT_HELPER_BUSY"}

ChainStates == {"CSTATE_NOT_CHAINED", "CSTATE_SINGLE", "CSTATE_SHMAT_SOCKET",
                "CSTATE_SHMAT_CONNECT", "CSTATE_SHMAT_RECVMSG",
                "CSTATE_SHMAT_MMAP", "CSTATE_MSGRCV_RETRY"}

(* What a system call reports: "OK" stands for every result >= 0 and       *)
(* "ERROR" for the errors no property tells apart (EINVAL, ENOENT, ...).   *)
Statuses == {"OK", "EAGAIN", "ERANGE", "EIDRM", "EINTR", "E2BIG", "ERROR"}

Configs == [wait_reason : WaitReasons, wait_state : WaitStates,
            chain_state : ChainStates, status_after_wait : Statuses,
            waiting_object_index : Nat]

(* talloc_zero of a new config.                                            *)
ZeroConfig == [wait_reason |-> "WR_NOT_WAITING",
               wait_state |-> "WSTATE_NOT_WAITING",
               chain_state |-> "CSTATE_NOT_CHAINED",
               status_after_wait |-> "OK", waiting_object_index |-> 0]

Asleep(c) == c.wait_state \in {"WSTATE_RESTARTED_INTO_PPOLL",
                               "WSTATE_ENTERED_PPOLL"}

IpcTypeOK ==
  /\ tracees \in Seq(Tracees)
  /\ at \in [Tracees -> Locations]
  /\ config \in [Tracees -> Configs]
  /\ sigstop \in [Tracees -> {"SIGSTOP_IGNORED", "SIGSTOP_ALLOWED"}]
  /\ kick \in [Tracees -> BOOLEAN]

IpcInit ==
  \E t \in Tracees :
    /\ tracees = <<t>>
    /\ at = [s \in Tracees |-> IF s = t THEN "user" ELSE "none"]
    /\ config = [s \in Tracees |-> ZeroConfig]
    /\ sigstop = [s \in Tracees |-> "SIGSTOP_ALLOWED"]
    /\ kick = [s \in Tracees |-> FALSE]

-----------------------------------------------------------------------------
(* The tracee issues an IPC call: it runs guest code, and a SIGSTOP that   *)
(* was pending has been delivered before it got there.                     *)
CanCall(t) == at[t] = "user" /\ ~kick[t]

Resume(sigsys) == IF sigsys THEN "rewound" ELSE "kernel"

(* sysvipc_syscall_common once the handler left config c and returned      *)
(* status: the config after it.                                            *)
CommonConfig(c, status, sigsys) ==
  IF c.chain_state # "CSTATE_NOT_CHAINED"
    THEN IF c.chain_state = "CSTATE_SINGLE"
           THEN [c EXCEPT !.chain_state = "CSTATE_NOT_CHAINED"]
           ELSE c
  ELSE IF c.wait_reason # "WR_NOT_WAITING"
    THEN [c EXCEPT !.wait_state = IF sigsys THEN "WSTATE_RESTARTED_INTO_PPOLL"
                                            ELSE "WSTATE_ENTERED_PPOLL"]
  ELSE IF sigsys THEN c
  ELSE [c EXCEPT !.status_after_wait = status,
                 !.wait_state = "WSTATE_ENTERED_GETPID"]

(* ... and where the tracee goes: a call that neither sleeps nor chains    *)
(* gets its result at once after SIGSYS, at the exit of getpid otherwise.  *)
CommonAt(c, sigsys) ==
  IF c.chain_state = "CSTATE_NOT_CHAINED" /\ c.wait_reason = "WR_NOT_WAITING"
       /\ sigsys
    THEN "user" ELSE Resume(sigsys)

(* A handler that wakes nobody.                                            *)
SyscallCommon(t, c, status, sigsys) ==
  /\ config' = [config EXCEPT ![t] = CommonConfig(c, status, sigsys)]
  /\ at' = [at EXCEPT ![t] = CommonAt(c, sigsys)]
  /\ UNCHANGED <<tracees, sigstop, kick>>

(* sysvipc_wake_tracee on a config.                                        *)
WakeConfig(c, status) ==
  [c EXCEPT !.wait_reason = "WR_NOT_WAITING",
            !.status_after_wait = status,
            !.wait_state = IF @ = "WSTATE_ENTERED_PPOLL"
                             THEN "WSTATE_SIGNALED_PPOLL"
                             ELSE "WSTATE_RESTARTED_INTO_PPOLL_CANCELED"]

(* Mutant: the event loop is not told of the SIGSTOP.                      *)
SigstopAfter_Allowed(s, tkilled) == sigstop[s]

SigstopAfter(s, tkilled) ==
  IF s \in tkilled THEN "SIGSTOP_IGNORED" ELSE sigstop[s]

(* A handler of tracee t that leaves config c and status and wakes the     *)
(* tracees W, w with verdict[w].  tkill() does nothing to a dead tracee.   *)
CommonAndWake(t, c, status, sigsys, W, verdict) ==
  LET tkilled == {w \in W : config[w].wait_state = "WSTATE_ENTERED_PPOLL"}
  IN  /\ config' = [s \in Tracees |->
                      IF s = t THEN CommonConfig(c, status, sigsys)
                      ELSE IF s \in W THEN WakeConfig(config[s], verdict[s])
                      ELSE config[s]]
      /\ at' = [at EXCEPT ![t] = CommonAt(c, sigsys)]
      /\ kick' = [s \in Tracees |->
                    kick[s] \/ (s \in tkilled /\ at[s] # "dead")]
      /\ sigstop' = [s \in Tracees |-> SigstopAfter(s, tkilled)]
      /\ UNCHANGED tracees

-----------------------------------------------------------------------------
(* SYSCALL_ENTER_START of the rewound ppoll.                               *)
EnterPpoll(t) ==
  /\ at[t] = "rewound"
  /\ config[t].wait_state = "WSTATE_RESTARTED_INTO_PPOLL"
  /\ config' = [config EXCEPT ![t].wait_state = "WSTATE_ENTERED_PPOLL"]
  /\ at' = [at EXCEPT ![t] = "kernel"]
  /\ UNCHANGED <<tracees, sigstop, kick>>

(* SYSCALL_ENTER_START of a ppoll that was cancelled before it started:    *)
(* it becomes PR_void with the caller's verdict as its result.  A receiver *)
(* that has to retry is in module SysVMsg.                                 *)
EnterCanceled(t) ==
  /\ at[t] = "rewound"
  /\ config[t].wait_state = "WSTATE_RESTARTED_INTO_PPOLL_CANCELED"
  /\ config[t].chain_state # "CSTATE_MSGRCV_RETRY"
  /\ config' = [config EXCEPT ![t].wait_state = "WSTATE_NOT_WAITING"]
  /\ at' = [at EXCEPT ![t] = "kernel"]
  /\ UNCHANGED <<tracees, sigstop, kick>>

(* SYSCALL_EXIT_START of PR_void: nothing left to do.                      *)
ExitVoid(t) ==
  /\ at[t] = "kernel"
  /\ config[t].wait_state = "WSTATE_NOT_WAITING"
  /\ at' = [at EXCEPT ![t] = "user"]
  /\ UNCHANGED <<tracees, config, sigstop, kick>>

(* Mutant: the reason of the wait is left over.                            *)
ExitPpoll_KeepsReason(t) ==
  /\ at[t] = "kernel"
  /\ config[t].wait_state = "WSTATE_ENTERED_PPOLL"
  /\ config' = [config EXCEPT ![t].wait_state = "WSTATE_NOT_WAITING"]
  /\ at' = [at EXCEPT ![t] = "user"]
  /\ UNCHANGED <<tracees, sigstop, kick>>

(* SYSCALL_EXIT_START of a ppoll nobody cancelled: it timed out, was       *)
(* interrupted by a guest signal or had a bad time-out address.  The       *)
(* caller gets EINTR or EFAULT.                                            *)
ExitPpoll(t) ==
  /\ at[t] = "kernel"
  /\ config[t].wait_state = "WSTATE_ENTERED_PPOLL"
  /\ config' = [config EXCEPT ![t].wait_state = "WSTATE_NOT_WAITING",
                              ![t].wait_reason = "WR_NOT_WAITING"]
  /\ at' = [at EXCEPT ![t] = "user"]
  /\ UNCHANGED <<tracees, sigstop, kick>>

(* SYSCALL_EXIT_START of the cancelled ppoll, or of the getpid that stands *)
(* for a call already done: the caller gets status_after_wait.             *)
ExitStatus(t) ==
  /\ at[t] = "kernel"
  /\ config[t].wait_state \in {"WSTATE_SIGNALED_PPOLL", "WSTATE_ENTERED_GETPID"}
  /\ config[t].chain_state # "CSTATE_MSGRCV_RETRY"
  /\ config' = [config EXCEPT ![t].wait_state = "WSTATE_NOT_WAITING"]
  /\ at' = [at EXCEPT ![t] = "user"]
  /\ UNCHANGED <<tracees, sigstop, kick>>

(* The pending SIGSTOP is delivered on the way out of the system call; the *)
(* event loop swallows it if it expects one, else the tracee really stops  *)
(* (handle_tracee_event, case SIGSTOP).                                    *)
SigstopStop(t) ==
  /\ kick[t]
  /\ at[t] \in {"user", "rewound"}
  /\ sigstop[t] = "SIGSTOP_IGNORED"
  /\ sigstop' = [sigstop EXCEPT ![t] = "SIGSTOP_ALLOWED"]
  /\ kick' = [kick EXCEPT ![t] = FALSE]
  /\ UNCHANGED <<tracees, at, config>>

(* get_tracee inserts a new tracee at the head of the list.                *)
Listed(child) == <<child>> \o tracees

(* fork or clone: INHERIT_CHILD gives the child a zeroed config.           *)
Clone(parent, child) ==
  /\ CanCall(parent)
  /\ at[child] = "none"
  /\ tracees' = Listed(child)
  /\ at' = [at EXCEPT ![child] = "user"]
  /\ config' = [config EXCEPT ![child] = ZeroConfig]
  /\ sigstop' = [sigstop EXCEPT ![child] = "SIGSTOP_ALLOWED"]
  /\ kick' = [kick EXCEPT ![child] = FALSE]

(* The kernel kills the tracee, wherever it is.                            *)
Die(t) ==
  /\ at[t] \in {"user", "rewound", "kernel"}
  /\ at' = [at EXCEPT ![t] = "dead"]
  /\ kick' = [kick EXCEPT ![t] = FALSE]
  /\ UNCHANGED <<tracees, config, sigstop>>

(* terminate_tracee and free_terminated_tracees.                           *)
Reap(t) ==
  /\ at[t] = "dead"
  /\ \E k \in 1..Len(tracees) :
       /\ tracees[k] = t
       /\ tracees' = SubSeq(tracees, 1, k - 1)
                       \o SubSeq(tracees, k + 1, Len(tracees))
  /\ at' = [at EXCEPT ![t] = "none"]
  /\ config' = [config EXCEPT ![t] = ZeroConfig]
  /\ UNCHANGED <<sigstop, kick>>

=============================================================================
