------------------------------- MODULE SysVSem -------------------------------
(***************************************************************************)
(* Semaphore sets of PRoot's System V IPC emulation                        *)
(* (extension/sysvipc/sysvipc_sem.c) on top of the wait mechanism.         *)
(*                                                                         *)
(* An identifier is the pair of slot and generation it encodes (module     *)
(* IpcId has the encoding).  GETVAL, GETALL, the INFO commands and every   *)
(* refused call change nothing but the caller's result: action Query.      *)
(***************************************************************************)
EXTENDS SysVIpc, Integers, FiniteSetsExt

CONSTANTS
  Keys,           \* keys of semget, IPC_PRIVATE among them
  IPC_PRIVATE,
  MAX_SEMS,       \* SYSVIPC_MAX_SEMS
  MAX_NSEMS,      \* SYSVIPC_MAX_NSEMS
  MAX_SEMVAL,     \* SYSVIPC_MAX_SEMVAL
  SopsArgs,       \* the sops arrays guests pass to semop
  SetVals,        \* the values guests pass to SETVAL
  SigsysModes,    \* how calls arrive: FALSE at the entry stop, TRUE by SIGSYS
  Mortal,         \* tracees that may be killed
  MaxGeneration   \* bound: removals of one slot

VARIABLES
  semaphores,     \* ipc_namespace->semaphores
  semop_sops,     \* config->semop_sops, <<>> when freed
  call,           \* the semop being executed: the caller's arguments
  ledger          \* history: net effect of the semops reported successful

semVars == <<semaphores, semop_sops, call, ledger>>
vars == <<tracees, at, config, sigstop, kick,
          semaphores, semop_sops, call, ledger>>

(* One struct sembuf; nowait is IPC_NOWAIT in sem_flg.                     *)
Sembuf == [sem_num : Nat, sem_op : Int, nowait : BOOLEAN]
SemNums == 0..(MAX_NSEMS - 1)
SemVec == [SemNums -> 0..MAX_SEMVAL]   \* only the first nsems are in use
Slot == [key : Keys, generation : 0..MaxGeneration, valid : BOOLEAN,
         sems : SemVec, nsems : 1..MAX_NSEMS]
NoCall == [index |-> 0, generation |-> 0, sops |-> <<>>]

ASSUME SemAssumption ==
  /\ IPC_PRIVATE \in Keys
  /\ MAX_SEMS \in Nat /\ MAX_NSEMS \in Nat \ {0} /\ MAX_SEMVAL \in Nat
  /\ MaxGeneration \in Nat
  /\ SopsArgs \subseteq Seq(Sembuf) \ {<<>>}
  /\ SetVals \subseteq 0..MAX_SEMVAL
  /\ SigsysModes \subseteq BOOLEAN
  /\ Mortal \subseteq Tracees

Valid(i) == i \in 1..Len(semaphores) /\ semaphores[i].valid

-----------------------------------------------------------------------------
(* Mutant: a value may exceed the limit.                                   *)
SopStep_Unlimited(v, sop) ==
  LET new_value == v[sop.sem_num] + sop.sem_op
  IN  IF new_value < 0 \/ (sop.sem_op = 0 /\ new_value # 0)
        THEN [status |-> IF sop.nowait THEN "EAGAIN" ELSE "WAIT", sems |-> v]
      ELSE [status |-> "OK", sems |-> [v EXCEPT ![sop.sem_num] = new_value]]

(* One iteration of the loop of sysvipc_sem_check on the vector v.         *)
SopStep(v, sop) ==
  LET new_value == v[sop.sem_num] + sop.sem_op
  IN  IF sop.sem_op = 0
        THEN IF v[sop.sem_num] = 0 THEN [status |-> "OK", sems |-> v]
             ELSE [status |-> IF sop.nowait THEN "EAGAIN" ELSE "WAIT", sems |-> v]
      ELSE IF new_value < 0
        THEN [status |-> IF sop.nowait THEN "EAGAIN" ELSE "WAIT", sems |-> v]
      ELSE IF new_value > MAX_SEMVAL THEN [status |-> "ERANGE", sems |-> v]
      ELSE [status |-> "OK", sems |-> [v EXCEPT ![sop.sem_num] = new_value]]

(* sysvipc_sem_check: runs sops on a copy (new_sems) and writes it back    *)
(* only if none of them stops it.  "WAIT" is the return value 1.           *)
(* SemRun is the copy and the status after each of the sops.               *)
SemRun(v, sops) ==
  LET run[i \in 0..Len(sops)] ==
        IF i = 0 THEN [status |-> "OK", sems |-> v]
        ELSE IF run[i - 1].status # "OK" THEN run[i - 1]
        ELSE SopStep(run[i - 1].sems, sops[i])
  IN  run

(* Mutant: works on the set itself, not on a copy.                         *)
SemCheck_InPlace(v, sops) == SemRun(v, sops)[Len(sops)]

SemCheck(v, sops) ==
  LET last == SemRun(v, sops)[Len(sops)]
  IN  [status |-> last.status,
       sems |-> IF last.status = "OK" THEN last.sems ELSE v]

(* The tracee sleeps in semop on slot i.                                   *)
WaitsFor(t, i) ==
  /\ config[t].wait_reason = "WR_WAIT_SEMOP"
  /\ config[t].waiting_object_index = i

(* The loop of sysvipc_semop over the other tracees, in list order: each   *)
(* sleeper on slot i is checked once against the values its predecessors   *)
(* left.  pass[k] is the outcome for the k-th tracee of the list.          *)
WakePass(v, caller, i) ==
  LET pass[k \in 0..Len(tracees)] ==
        IF k = 0 THEN [status |-> "WAIT", sems |-> v]
        ELSE IF tracees[k] # caller /\ WaitsFor(tracees[k], i)
          THEN SemCheck(pass[k - 1].sems, semop_sops[tracees[k]])
        ELSE [status |-> "WAIT", sems |-> pass[k - 1].sems]
  IN  pass

(* What the sops add to semaphore n of their set.                          *)
PartialSums(sops, n) ==
  LET sum[k \in 0..Len(sops)] ==
        IF k = 0 THEN 0
        ELSE sum[k - 1] + IF sops[k].sem_num = n THEN sops[k].sem_op ELSE 0
  IN  sum

Delta(sops, n) == PartialSums(sops, n)[Len(sops)]

(* The caller of call c gets status: a success is entered in the ledger of *)
(* its set, if that set still exists.                                      *)
Settled(led, c, status) ==
  IF /\ status = "OK" /\ c # NoCall
     /\ Valid(c.index) /\ semaphores[c.index].generation = c.generation
  THEN [led EXCEPT ![c.index] =
          [n \in SemNums |-> @[n] + Delta(c.sops, n)]]
  ELSE led

-----------------------------------------------------------------------------
(* semget: search for the key, else take the first free slot, else grow.   *)
FoundKey(key) == key # IPC_PRIVATE
                   /\ \E i \in 1..Len(semaphores) : Valid(i) /\ semaphores[i].key = key
FreeSlots == {i \in 1..Len(semaphores) : ~semaphores[i].valid}
ZeroVec == [n \in SemNums |-> 0]

SemgetCreate(t, sigsys, key, nsems) ==
  /\ CanCall(t)
  /\ nsems \in 1..MAX_NSEMS
  /\ ~FoundKey(key)
  /\ IF FreeSlots # {}
       THEN LET i == CHOOSE i \in FreeSlots : \A j \in FreeSlots : i <= j
            IN  /\ semaphores' = [semaphores EXCEPT ![i].key = key,
                                    ![i].valid = TRUE, ![i].sems = ZeroVec,
                                    ![i].nsems = nsems]
                /\ ledger' = [ledger EXCEPT ![i] = ZeroVec]
       ELSE /\ Len(semaphores) < MAX_SEMS
            /\ semaphores' = Append(semaphores,
                 [key |-> key, generation |-> 0, valid |-> TRUE,
                  sems |-> ZeroVec, nsems |-> nsems])
            /\ ledger' = Append(ledger, ZeroVec)
  /\ SyscallCommon(t, config[t], "OK", sigsys)
  /\ UNCHANGED <<semop_sops, call>>

(* Every call that only reports: a found key, GETVAL, GETALL, IPC_INFO,    *)
(* or an error of semget, semop or semctl before they change anything.     *)
Query(t, sigsys, status) ==
  /\ CanCall(t)
  /\ SyscallCommon(t, config[t], status, sigsys)
  /\ UNCHANGED semVars

(* semop and semtimedop on a set that exists, with sem_nums in range.      *)
Semop(t, sigsys, i, sops) ==
  /\ CanCall(t)
  /\ Valid(i)
  /\ \A k \in 1..Len(sops) : sops[k].sem_num < semaphores[i].nsems
  /\ LET own == SemCheck(semaphores[i].sems, sops)
         pass == WakePass(own.sems, t, i)
         n == Len(tracees)
         W == {tracees[k] : k \in {k \in 1..n : pass[k].status # "WAIT"}}
         verdict == [w \in W |->
           pass[CHOOSE k \in 1..n : tracees[k] = w /\ pass[k].status # "WAIT"].status]
         c == IF own.status = "WAIT"
                THEN [config[t] EXCEPT !.wait_reason = "WR_WAIT_SEMOP",
                                       !.waiting_object_index = i]
                ELSE [config[t] EXCEPT !.waiting_object_index = i]
         args == [index |-> i, generation |-> semaphores[i].generation,
                  sops |-> sops]
         status == IF own.status = "WAIT" THEN "OK" ELSE own.status
         now == own.status # "WAIT" /\ sigsys    \* back in guest code at once
     IN  /\ CommonAndWake(t, c, status, sigsys, W, verdict)
         /\ semaphores' = [semaphores EXCEPT ![i].sems = pass[n].sems]
         /\ semop_sops' = [s \in Tracees |->
              IF s = t THEN IF own.status = "WAIT" THEN sops ELSE <<>>
              ELSE IF s \in W THEN <<>> ELSE semop_sops[s]]
         /\ call' = [call EXCEPT ![t] = IF now THEN NoCall ELSE args]
         /\ ledger' = IF now THEN Settled(ledger, args, status) ELSE ledger

(* semctl(SETVAL): stores the value; sleepers are not looked at.           *)
SemctlSetval(t, sigsys, i, n, val) ==
  /\ CanCall(t)
  /\ Valid(i)
  /\ n < semaphores[i].nsems
  /\ semaphores' = [semaphores EXCEPT ![i].sems[n] = val]
  /\ ledger' = [ledger EXCEPT ![i][n] = @ + (val - semaphores[i].sems[n])]
  /\ SyscallCommon(t, config[t], "OK", sigsys)
  /\ UNCHANGED <<semop_sops, call>>

(* Mutant: overlooks a sleeper that has not reached its ppoll yet.         *)
SleepersOn_Entered(i) ==
  {tracees[k] : k \in {k \in 1..Len(tracees) :
     /\ WaitsFor(tracees[k], i)
     /\ config[tracees[k]].wait_state = "WSTATE_ENTERED_PPOLL"}}

SleepersOn(i) ==
  {tracees[k] : k \in {k \in 1..Len(tracees) : WaitsFor(tracees[k], i)}}

(* semctl(IPC_RMID): wakes every sleeper with EIDRM and frees the slot.    *)
(* The sops of the sleepers are not freed here.                            *)
SemctlRmid(t, sigsys, i) ==
  /\ CanCall(t)
  /\ Valid(i)
  /\ semaphores[i].generation < MaxGeneration
  /\ LET W == SleepersOn(i)
     IN  CommonAndWake(t, config[t], "OK", sigsys, W, [w \in W |-> "EIDRM"])
  /\ semaphores' = [semaphores EXCEPT ![i].valid = FALSE,
                                      ![i].generation = @ + 1,
                                      ![i].sems = ZeroVec]
  /\ ledger' = [ledger EXCEPT ![i] = ZeroVec]
  /\ UNCHANGED <<semop_sops, call>>

-----------------------------------------------------------------------------
(* The wait mechanism's stops.  The caller leaves its semop when it gets   *)
(* its result.                                                             *)
Returns(t, status) ==
  /\ ledger' = Settled(ledger, call[t], status)
  /\ call' = [call EXCEPT ![t] = NoCall]

StartPpoll(t) == EnterPpoll(t) /\ UNCHANGED semVars

StartCanceled(t) ==
  /\ EnterCanceled(t)
  /\ Returns(t, config[t].status_after_wait)
  /\ UNCHANGED <<semaphores, semop_sops>>

EndVoid(t) == ExitVoid(t) /\ UNCHANGED semVars

(* sysvipc_semop_timedout frees the sops.                                  *)
EndPpoll(t) ==
  /\ ExitPpoll(t)
  /\ Returns(t, "EINTR")
  /\ semop_sops' = [semop_sops EXCEPT ![t] = <<>>]
  /\ UNCHANGED semaphores

EndStatus(t) ==
  /\ ExitStatus(t)
  /\ Returns(t, config[t].status_after_wait)
  /\ UNCHANGED <<semaphores, semop_sops>>

Swallow(t) == SigstopStop(t) /\ UNCHANGED semVars

Fork(parent, child) == Clone(parent, child) /\ UNCHANGED semVars

Kill(t) == t \in Mortal /\ Die(t) /\ UNCHANGED semVars

(* The result of a semop decided for a tracee that died counts as given.   *)
ReapTracee(t) ==
  /\ Reap(t)
  /\ Returns(t, IF Asleep(config[t]) THEN "EINTR"
                ELSE config[t].status_after_wait)
  /\ semop_sops' = [semop_sops EXCEPT ![t] = <<>>]
  /\ UNCHANGED semaphores

(* PRoot's event loop ends with its last tracee.                           *)
Terminated == tracees = <<>> /\ UNCHANGED vars

Init ==
  /\ IpcInit
  /\ semaphores = <<>>
  /\ semop_sops = [t \in Tracees |-> <<>>]
  /\ call = [t \in Tracees |-> NoCall]
  /\ ledger = <<>>

Step(t) ==
  \/ StartPpoll(t) \/ StartCanceled(t)
  \/ EndVoid(t) \/ EndPpoll(t) \/ EndStatus(t)
  \/ Swallow(t) \/ ReapTracee(t) \/ Kill(t)

Syscall(t, sigsys) ==
  \/ \E key \in Keys, nsems \in 1..MAX_NSEMS : SemgetCreate(t, sigsys, key, nsems)
  \/ \E status \in {"OK", "ERROR"} : Query(t, sigsys, status)
  \/ \E i \in 1..Len(semaphores) :
       \/ \E sops \in SopsArgs : Semop(t, sigsys, i, sops)
       \/ \E n \in SemNums, val \in SetVals :
            SemctlSetval(t, sigsys, i, n, val)
       \/ SemctlRmid(t, sigsys, i)

Next ==
  \/ \E t \in Tracees : Step(t)
  \/ \E t \in Tracees, sigsys \in SigsysModes : Syscall(t, sigsys)
  \/ \E parent, child \in Tracees : Fork(parent, child)
  \/ Terminated

Spec == Init /\ [][Next]_vars

-----------------------------------------------------------------------------
(* Type invariant of the semaphore emulation.                              *)
TypeOK ==
  /\ IpcTypeOK
  /\ semaphores \in Seq(Slot) /\ Len(semaphores) <= MAX_SEMS
  /\ semop_sops \in [Tracees -> SopsArgs \cup {<<>>}]
  /\ call \in [Tracees -> [index : Nat, generation : Nat,
                           sops : SopsArgs \cup {<<>>}]]
  /\ ledger \in Seq([SemNums -> Int])
  /\ Len(ledger) = Len(semaphores)

(* The assertions of sysvipc.c cannot fail, whatever the order of stops,   *)
(* wake-ups and time-outs: a tracee that issues a call has no wait left    *)
(* over (line 40), a rewound one is in one of the two states of its entry  *)
(* handler (234), one that leaves a call is in none of the two (287), a    *)
(* ppoll nobody cancelled still has its reason (261) and a cancelled one   *)
(* has none (277), and whoever sysvipc_wake_tracee is called on is in one  *)
(* of the two states it knows (353, 363).  No semaphore call chains (84).  *)
WaitStatesAgree ==
  \A t \in Tracees :
    LET c == config[t]
    IN  /\ at[t] \in {"none", "user"} => c.wait_state = "WSTATE_NOT_WAITING"
        /\ at[t] = "rewound" =>
             c.wait_state \in {"WSTATE_RESTARTED_INTO_PPOLL",
                               "WSTATE_RESTARTED_INTO_PPOLL_CANCELED"}
        /\ at[t] = "kernel" =>
             c.wait_state \notin {"WSTATE_RESTARTED_INTO_PPOLL",
                                  "WSTATE_RESTARTED_INTO_PPOLL_CANCELED"}
        /\ Asleep(c) => c.wait_reason = "WR_WAIT_SEMOP"
        /\ ~Asleep(c) => c.wait_reason = "WR_NOT_WAITING"
        /\ c.chain_state = "CSTATE_NOT_CHAINED"

(* The loops over the tracees miss nobody: whoever PRoot has not reaped,   *)
(* the killed ones included, is on the list.                               *)
EveryoneListed ==
  \A t \in Tracees : at[t] # "none" => \E k \in 1..Len(tracees) : tracees[k] = t

(* sysvipc_sem_check never reads outside a semaphore set: a sleeper's slot *)
(* holds a live set with every sem_num it waits for, although sets are     *)
(* removed and slots reused while it sleeps, and its sops are not freed.   *)
SleepersHaveSet ==
  \A t \in Tracees : config[t].wait_reason = "WR_WAIT_SEMOP" =>
    LET i == config[t].waiting_object_index
    IN  /\ Valid(i)
        /\ semop_sops[t] # <<>>
        /\ \A k \in 1..Len(semop_sops[t]) :
             semop_sops[t][k].sem_num < semaphores[i].nsems

(* PRoot's own SIGSTOP never stops the tracee it wakes: it is expected     *)
(* for as long as it is pending.                                           *)
KickIsExpected ==
  \A t \in Tracees : kick[t] => sigstop[t] = "SIGSTOP_IGNORED"

(* The success of a semop on set i is decided but not yet reported.        *)
OnItsWay(i) ==
  {t \in Tracees : /\ call[t] # NoCall
                   /\ call[t].index = i
                   /\ call[t].generation = semaphores[i].generation
                   /\ ~Asleep(config[t])
                   /\ config[t].status_after_wait = "OK"}

(* Semop is exactly-once: the values of a set are what the semops that     *)
(* were reported successful, and those whose success is still on its way   *)
(* to the caller, add up to.  A time-out, a guest signal or a removal that *)
(* races with a wake-up never loses or repeats an operation, and a refused *)
(* semop changed nothing.                                                  *)
ExactlyOnce ==
  \A i \in 1..Len(semaphores) : Valid(i) =>
    \A n \in SemNums :
      semaphores[i].sems[n] =
        ledger[i][n] + MapThenSumSet(LAMBDA t : Delta(call[t].sops, n), OnItsWay(i))

(* Whoever sleeps in semop has to: its operations cannot be carried out    *)
(* on the current values.  The comment of sysvipc_sem_check says so of its *)
(* return value ("Returns 1 if tracee should still wait").  It fails: the  *)
(* loop of sysvipc_semop looks at each sleeper once, and one that it woke  *)
(* may have enabled one that it had passed over.                           *)
SleepersMustWait ==
  \A t \in Tracees : config[t].wait_reason = "WR_WAIT_SEMOP" =>
    SemCheck(semaphores[config[t].waiting_object_index].sems,
             semop_sops[t]).status = "WAIT"

(* Fairness: PRoot handles every stop, and a call that cannot block or was *)
(* interrupted by SIGSTOP returns.  Nothing forces an undisturbed ppoll to *)
(* return: its time-out may be infinite.                                   *)
Fairness ==
  \A t \in Tracees : WF_vars(\/ StartPpoll(t) \/ StartCanceled(t)
                              \/ EndVoid(t) \/ EndStatus(t) \/ Swallow(t))

FairSpec == Spec /\ Fairness

(* A semop that has been decided is reported: its caller is back in guest  *)
(* code, ready for its next call, unless it is killed.                     *)
DecidedReturns ==
  \A t \in Tracees :
    (config[t].wait_state \in {"WSTATE_SIGNALED_PPOLL", "WSTATE_ENTERED_GETPID",
                               "WSTATE_RESTARTED_INTO_PPOLL_CANCELED"})
      ~> (CanCall(t) \/ at[t] \in {"dead", "none"})

=============================================================================
