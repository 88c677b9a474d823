---------------------------- MODULE SysVSemProofs ----------------------------
(***************************************************************************)
(* Proofs about the semaphore emulation, for any number of tracees, sets,  *)
(* semaphores, operations and removals.                                    *)
(***************************************************************************)
EXTENDS SysVSem, LoopLemmas

(* The inductive invariant.  SleepersHaveSet is not inductive by itself:   *)
(* IPC_RMID wakes whom it finds on the list, so a sleeper must be listed   *)
(* (EveryoneListed), and a tracee off the list or in guest code must not   *)
(* have a wait left over (WaitStatesAgree).  ExactlyOnce needs more still: *)
(* see OnceInv.                                                            *)
Inv ==
  /\ TypeOK
  /\ WaitStatesAgree
  /\ SleepersHaveSet
  /\ KickIsExpected
  /\ EveryoneListed

-----------------------------------------------------------------------------
(* Operators on values.                                                    *)

Outcome == [status : {"OK", "WAIT", "EAGAIN", "ERANGE"}, sems : SemVec]

InRange(sops) == \A k \in 1..Len(sops) : sops[k].sem_num \in SemNums

(* One operation keeps every semaphore within 0..MAX_SEMVAL.               *)
LEMMA SopStepType ==
  ASSUME NEW v \in SemVec, NEW sop \in Sembuf, sop.sem_num \in SemNums
  PROVE  SopStep(v, sop) \in Outcome
<1>1. MAX_SEMVAL \in Nat BY SemAssumption
<1>2. v[sop.sem_num] \in 0..MAX_SEMVAL BY DEF SemVec
<1>3. sop.sem_op \in Int /\ sop.nowait \in BOOLEAN BY DEF Sembuf
<1> DEFINE new == v[sop.sem_num] + sop.sem_op
<1>4. new \in Int BY <1>1, <1>2, <1>3
<1>5. ASSUME ~(new < 0), ~(new > MAX_SEMVAL)
      PROVE  [v EXCEPT ![sop.sem_num] = new] \in SemVec
  <2>1. new \in 0..MAX_SEMVAL BY <1>1, <1>4, <1>5
  <2> HIDE DEF new
  <2> QED BY <2>1 DEF SemVec
<1> HIDE DEF new
<1>6. SopStep(v, sop) =
        IF sop.sem_op = 0
          THEN IF v[sop.sem_num] = 0 THEN [status |-> "OK", sems |-> v]
               ELSE [status |-> IF sop.nowait THEN "EAGAIN" ELSE "WAIT", sems |-> v]
        ELSE IF new < 0
          THEN [status |-> IF sop.nowait THEN "EAGAIN" ELSE "WAIT", sems |-> v]
        ELSE IF new > MAX_SEMVAL THEN [status |-> "ERANGE", sems |-> v]
        ELSE [status |-> "OK", sems |-> [v EXCEPT ![sop.sem_num] = new]]
  BY DEF SopStep, new
<1> QED BY <1>5, <1>6 DEF Outcome

(* The loop of sysvipc_sem_check is well defined and typed.                *)
LEMMA SemRunType ==
  ASSUME NEW v \in SemVec, NEW sops \in Seq(Sembuf), InRange(sops)
  PROVE  /\ SemRun(v, sops) \in [0..Len(sops) -> Outcome]
         /\ SemRun(v, sops)[0] = [status |-> "OK", sems |-> v]
         /\ \A i \in 1..Len(sops) :
              SemRun(v, sops)[i] =
                IF SemRun(v, sops)[i - 1].status # "OK" THEN SemRun(v, sops)[i - 1]
                ELSE SopStep(SemRun(v, sops)[i - 1].sems, sops[i])
<1> DEFINE n == Len(sops)
           x == [status |-> "OK", sems |-> v]
           F == [i \in 1..n |-> [o \in Outcome |->
                   IF o.status # "OK" THEN o ELSE SopStep(o.sems, sops[i])]]
           Eq(f) == f = [i \in 0..n |->
                           IF i = 0 THEN x
                           ELSE IF f[i - 1].status # "OK" THEN f[i - 1]
                           ELSE SopStep(f[i - 1].sems, sops[i])]
<1>1. n \in Nat /\ x \in Outcome
  BY DEF Outcome
<1>2. ASSUME NEW o \in Outcome, NEW i \in 1..n
      PROVE  (IF o.status # "OK" THEN o ELSE SopStep(o.sems, sops[i])) \in Outcome
  <2>1. o.sems \in SemVec /\ sops[i] \in Sembuf /\ sops[i].sem_num \in SemNums
    BY DEF Outcome, InRange
  <2> QED BY <2>1, SopStepType
<1>3. F \in [1..n -> [Outcome -> Outcome]]
  BY <1>2
<1>4. PICK f : IsLoop(f, n, Outcome, x, F)
  <2> HIDE DEF n, x, F
  <2> QED BY <1>1, <1>3, Iterate, Zenon
<1>5. Eq(f)
  <2>1. ASSUME NEW i \in 0..n
        PROVE  f[i] = IF i = 0 THEN x
                      ELSE IF f[i - 1].status # "OK" THEN f[i - 1]
                      ELSE SopStep(f[i - 1].sems, sops[i])
    <3>1. CASE i = 0 BY <1>4, <3>1 DEF IsLoop
    <3>2. CASE i # 0
      <4>1. i \in 1..n /\ f[i - 1] \in Outcome BY <1>1, <1>4, <3>2 DEF IsLoop
      <4>2. f[i] = F[i][f[i - 1]] BY <1>4, <4>1 DEF IsLoop
      <4> QED BY <3>2, <4>1, <4>2
    <3> QED BY <3>1, <3>2
  <2> HIDE DEF x
  <2> QED BY <1>4, <2>1 DEF IsLoop
<1> DEFINE r == SemRun(v, sops)
<1>6. Eq(r)
  <2>1. r = CHOOSE g : Eq(g)
    BY DEF SemRun
  <2> HIDE DEF r, Eq
  <2> QED BY <2>1, <1>5, Zenon
<1>7. \A i \in 0..n : r[i] \in Outcome
  <2> DEFINE S == {i \in 0..n : r[i] \in Outcome}
  <2> HIDE DEF r
  <2>1. 0 \in S BY <1>1, <1>6
  <2>2. ASSUME NEW i \in 1..n, i - 1 \in S PROVE i \in S
    <3>1. r[i] = IF r[i - 1].status # "OK" THEN r[i - 1]
                 ELSE SopStep(r[i - 1].sems, sops[i])
      BY <1>6
    <3> QED BY <2>2, <3>1, <1>2
  <2> HIDE DEF S
  <2>3. \A i \in 0..n : i \in S
    BY <1>1, <2>1, <2>2, UpTo
  <2> QED BY <2>3 DEF S
<1> HIDE DEF r
<1>8. r = [i \in 0..n |-> r[i]]
  BY <1>6
<1>9. r[0] = x
  BY <1>1, <1>6
<1>10. \A i \in 1..n : r[i] = IF r[i - 1].status # "OK" THEN r[i - 1]
                              ELSE SopStep(r[i - 1].sems, sops[i])
  BY <1>1, <1>6
<1> QED BY <1>7, <1>8, <1>9, <1>10 DEF r

(* sysvipc_sem_check returns one of its four results and typed values.     *)
LEMMA SemCheckType ==
  ASSUME NEW v \in SemVec, NEW sops \in Seq(Sembuf), InRange(sops)
  PROVE  SemCheck(v, sops) \in Outcome
<1>1. SemRun(v, sops)[Len(sops)] \in Outcome
  <2>1. SemRun(v, sops) \in [0..Len(sops) -> Outcome] BY SemRunType
  <2>2. Len(sops) \in 0..Len(sops) OBVIOUS
  <2> QED BY <2>1, <2>2
<1> QED BY <1>1 DEF SemCheck, Outcome

SleepersFit(i) ==
  \A t \in Tracees : WaitsFor(t, i) =>
    semop_sops[t] \in Seq(Sembuf) /\ InRange(semop_sops[t])

PassDecides(pass, caller, i) ==
  /\ \A k \in 0..Len(tracees) : pass[k] \in Outcome
  /\ \A k \in 1..Len(tracees) : pass[k].status # "WAIT" =>
       tracees[k] # caller /\ WaitsFor(tracees[k], i)

PassRuns(pass, v, caller, i) ==
  /\ pass[0] = [status |-> "WAIT", sems |-> v]
  /\ \A k \in 1..Len(tracees) :
       pass[k] = IF tracees[k] # caller /\ WaitsFor(tracees[k], i)
                   THEN SemCheck(pass[k - 1].sems, semop_sops[tracees[k]])
                   ELSE [status |-> "WAIT", sems |-> pass[k - 1].sems]

(* The loop over the list is typed, and decides only sleepers on set i     *)
(* other than the caller.                                                  *)
LEMMA WakePassType ==
  ASSUME NEW v \in SemVec, NEW caller, NEW i, tracees \in Seq(Tracees),
         SleepersFit(i)
  PROVE  /\ PassDecides(WakePass(v, caller, i), caller, i)
         /\ PassRuns(WakePass(v, caller, i), v, caller, i)
<1> DEFINE n == Len(tracees)
           x == [status |-> "WAIT", sems |-> v]
           D(o, k) == IF tracees[k] # caller /\ WaitsFor(tracees[k], i)
                        THEN SemCheck(o.sems, semop_sops[tracees[k]])
                        ELSE [status |-> "WAIT", sems |-> o.sems]
           F == [k \in 1..n |-> [o \in Outcome |-> D(o, k)]]
           Eq(f) == f = [k \in 0..n |->
                           IF k = 0 THEN x
                           ELSE IF tracees[k] # caller /\ WaitsFor(tracees[k], i)
                             THEN SemCheck(f[k - 1].sems, semop_sops[tracees[k]])
                           ELSE [status |-> "WAIT", sems |-> f[k - 1].sems]]
<1>1. n \in Nat /\ x \in Outcome
  BY DEF Outcome
<1>2. ASSUME NEW o \in Outcome, NEW k \in 1..n PROVE D(o, k) \in Outcome
  <2>1. o.sems \in SemVec /\ tracees[k] \in Tracees BY DEF Outcome
  <2>2. CASE tracees[k] # caller /\ WaitsFor(tracees[k], i)
    BY <2>1, <2>2, SemCheckType DEF SleepersFit
  <2>3. CASE ~(tracees[k] # caller /\ WaitsFor(tracees[k], i))
    BY <2>1, <2>3 DEF Outcome
  <2> QED BY <2>2, <2>3
<1>3. F \in [1..n -> [Outcome -> Outcome]]
  BY <1>2
<1>4. PICK f : IsLoop(f, n, Outcome, x, F)
  <2> HIDE DEF n, x, F
  <2> QED BY <1>1, <1>3, Iterate, Zenon
<1>5. Eq(f)
  <2>1. ASSUME NEW k \in 0..n
        PROVE  f[k] = IF k = 0 THEN x ELSE D(f[k - 1], k)
    <3>1. CASE k = 0 BY <1>4, <3>1 DEF IsLoop
    <3>2. CASE k # 0
      <4>1. k \in 1..n /\ f[k - 1] \in Outcome BY <1>1, <1>4, <3>2 DEF IsLoop
      <4>2. f[k] = F[k][f[k - 1]] BY <1>4, <4>1 DEF IsLoop
      <4> QED BY <3>2, <4>1, <4>2
    <3> QED BY <3>1, <3>2
  <2> HIDE DEF x
  <2> QED BY <1>4, <2>1 DEF IsLoop
<1> DEFINE r == WakePass(v, caller, i)
<1>6. Eq(r)
  <2>1. r = CHOOSE g : Eq(g)
    BY DEF WakePass
  <2> HIDE DEF r, Eq
  <2> QED BY <2>1, <1>5, Zenon
<1>7. ASSUME NEW k \in 1..n PROVE r[k] = D(r[k - 1], k)
  <2> HIDE DEF r
  <2>1. k \in 0..n /\ k # 0 BY <1>1
  <2> QED BY <1>6, <2>1
<1>8. r[0] = x
  <2> HIDE DEF r
  <2> QED BY <1>1, <1>6
<1> HIDE DEF r
<1>9. \A k \in 0..n : r[k] \in Outcome
  <2> DEFINE S == {k \in 0..n : r[k] \in Outcome}
  <2>1. 0 \in S BY <1>1, <1>8
  <2>2. ASSUME NEW k \in 1..n, k - 1 \in S PROVE k \in S
    <3> HIDE DEF D
    <3> QED BY <2>2, <1>7, <1>2
  <2> HIDE DEF S
  <2>3. \A k \in 0..n : k \in S
    BY <1>1, <2>1, <2>2, UpTo
  <2> QED BY <2>3 DEF S
<1>10. ASSUME NEW k \in 1..n, r[k].status # "WAIT"
       PROVE  tracees[k] # caller /\ WaitsFor(tracees[k], i)
  <2> SUFFICES ASSUME ~(tracees[k] # caller /\ WaitsFor(tracees[k], i))
               PROVE  FALSE
    OBVIOUS
  <2>1. D(r[k - 1], k) = [status |-> "WAIT", sems |-> r[k - 1].sems]
    OBVIOUS
  <2> HIDE DEF D
  <2>2. r[k] = [status |-> "WAIT", sems |-> r[k - 1].sems]
    BY <2>1, <1>7
  <2> QED BY <2>2, <1>10
<1>11. \A k \in 1..n :
         r[k] = IF tracees[k] # caller /\ WaitsFor(tracees[k], i)
                  THEN SemCheck(r[k - 1].sems, semop_sops[tracees[k]])
                  ELSE [status |-> "WAIT", sems |-> r[k - 1].sems]
  BY <1>7
<1> QED BY <1>8, <1>9, <1>10, <1>11 DEF r, PassDecides, PassRuns

(* What sops add to one semaphore is an integer, added up one by one.      *)
LEMMA DeltaType ==
  ASSUME NEW sops \in Seq(Sembuf), NEW m
  PROVE  /\ Delta(sops, m) \in Int
         /\ PartialSums(sops, m)[0] = 0
         /\ \A k \in 0..Len(sops) : PartialSums(sops, m)[k] \in Int
         /\ \A k \in 1..Len(sops) :
              PartialSums(sops, m)[k] = PartialSums(sops, m)[k - 1]
                + IF sops[k].sem_num = m THEN sops[k].sem_op ELSE 0
<1> DEFINE n == Len(sops)
           A(k) == IF sops[k].sem_num = m THEN sops[k].sem_op ELSE 0
           F == [k \in 1..n |-> [z \in Int |-> z + A(k)]]
           Eq(f) == f = [k \in 0..n |->
                           IF k = 0 THEN 0
                           ELSE f[k - 1]
                             + IF sops[k].sem_num = m THEN sops[k].sem_op ELSE 0]
<1>1. n \in Nat /\ 0 \in Int
  OBVIOUS
<1>2. ASSUME NEW k \in 1..n PROVE A(k) \in Int
  <2>1. sops[k] \in Sembuf OBVIOUS
  <2> QED BY <2>1 DEF Sembuf
<1>3. F \in [1..n -> [Int -> Int]]
  <2> HIDE DEF A
  <2> QED BY <1>2
<1>4. PICK f : IsLoop(f, n, Int, 0, F)
  <2> HIDE DEF n, F
  <2> QED BY <1>1, <1>3, Iterate, Zenon
<1>5. Eq(f)
  <2>1. ASSUME NEW k \in 0..n
        PROVE  f[k] = IF k = 0 THEN 0 ELSE f[k - 1] + A(k)
    <3>1. CASE k = 0 BY <1>4, <3>1 DEF IsLoop
    <3>2. CASE k # 0
      <4>1. k \in 1..n /\ k - 1 \in 0..n BY <1>1, <3>2
      <4>2. f \in [0..n -> Int] /\ f[k] = F[k][f[k - 1]]
        <5> HIDE DEF F
        <5> QED BY <1>4, <4>1 DEF IsLoop
      <4>3. f[k - 1] \in Int BY <4>1, <4>2
      <4> HIDE DEF A
      <4> QED BY <3>2, <4>1, <4>2, <4>3
    <3> QED BY <3>1, <3>2
  <2> QED BY <1>4, <2>1 DEF IsLoop
<1> DEFINE r == PartialSums(sops, m)
<1>6. Eq(r)
  <2>1. r = CHOOSE g : Eq(g)
    BY DEF PartialSums
  <2> HIDE DEF r, Eq
  <2> QED BY <2>1, <1>5, Zenon
<1>7. /\ r[0] = 0
      /\ \A k \in 1..n : r[k] = r[k - 1] + A(k)
  <2> HIDE DEF r
  <2> QED BY <1>1, <1>6
<1> HIDE DEF r
<1>8. \A k \in 0..n : r[k] \in Int
  <2> DEFINE S == {k \in 0..n : r[k] \in Int}
  <2>1. 0 \in S BY <1>1, <1>7
  <2>2. ASSUME NEW k \in 1..n, k - 1 \in S PROVE k \in S
    <3> HIDE DEF A
    <3> QED BY <2>2, <1>7, <1>2
  <2> HIDE DEF S
  <2>3. \A k \in 0..n : k \in S
    BY <1>1, <2>1, <2>2, UpTo
  <2> QED BY <2>3 DEF S
<1>9. r[n] \in Int BY <1>1, <1>8
<1> QED BY <1>7, <1>8, <1>9 DEF r, Delta

-----------------------------------------------------------------------------
(* The wait mechanism.                                                     *)

IpcInv == IpcTypeOK /\ WaitStatesAgree /\ KickIsExpected /\ EveryoneListed

(* What a handler of sysvipc_sem.c hands to sysvipc_syscall_common.        *)
HandlerConfig(c) ==
  /\ c \in Configs
  /\ c.wait_reason \in {"WR_NOT_WAITING", "WR_WAIT_SEMOP"}
  /\ c.wait_state = "WSTATE_NOT_WAITING"
  /\ c.chain_state = "CSTATE_NOT_CHAINED"

(* A caller has no wait left over: its config is fit for a handler.        *)
LEMMA CallerConfig ==
  ASSUME IpcInv, NEW t \in Tracees, CanCall(t)
  PROVE  HandlerConfig(config[t]) /\ config[t].wait_reason = "WR_NOT_WAITING"
BY DEF IpcInv, IpcTypeOK, WaitStatesAgree, CanCall, HandlerConfig, Asleep

(* sysvipc_syscall_common keeps the fields the handlers set, and leaves    *)
(* the caller in a state that fits where it resumes.                       *)
LEMMA CommonFacts ==
  ASSUME NEW c, HandlerConfig(c), NEW status \in Statuses,
         NEW sigsys \in BOOLEAN
  PROVE  LET d == CommonConfig(c, status, sigsys)
             a == CommonAt(c, sigsys)
         IN  /\ d \in Configs /\ a \in Locations
             /\ d.wait_reason = c.wait_reason
             /\ d.waiting_object_index = c.waiting_object_index
             /\ d.chain_state = "CSTATE_NOT_CHAINED"
             /\ Asleep(d) <=> c.wait_reason = "WR_WAIT_SEMOP"
             /\ a \in {"user", "rewound", "kernel"}
             /\ a = "user" => d.wait_state = "WSTATE_NOT_WAITING"
             /\ a = "rewound" => d.wait_state = "WSTATE_RESTARTED_INTO_PPOLL"
             /\ a = "kernel" => d.wait_state \in {"WSTATE_ENTERED_PPOLL",
                                                  "WSTATE_ENTERED_GETPID"}
BY DEF HandlerConfig, CommonConfig, CommonAt, Resume, Configs, Locations,
       Asleep, WaitStates, WaitReasons

(* sysvipc_wake_tracee on a sleeper ends its wait.                         *)
LEMMA WakeFacts ==
  ASSUME NEW c \in Configs, NEW status \in Statuses
  PROVE  LET d == WakeConfig(c, status)
         IN  /\ d \in Configs
             /\ d.wait_reason = "WR_NOT_WAITING"
             /\ d.chain_state = c.chain_state
             /\ c.wait_state = "WSTATE_ENTERED_PPOLL" =>
                  d.wait_state = "WSTATE_SIGNALED_PPOLL"
             /\ c.wait_state # "WSTATE_ENTERED_PPOLL" =>
                  d.wait_state = "WSTATE_RESTARTED_INTO_PPOLL_CANCELED"
             /\ ~Asleep(d)
BY DEF WakeConfig, Configs, Asleep, WaitStates, WaitReasons

(* A handler that wakes the sleepers W keeps the wait mechanism sound.     *)
LEMMA WakeStep ==
  ASSUME IpcInv,
         NEW t \in Tracees, CanCall(t), NEW c, HandlerConfig(c),
         NEW status \in Statuses, NEW sigsys \in BOOLEAN,
         NEW W \in SUBSET Tracees, t \notin W,
         \A w \in W : config[w].wait_reason = "WR_WAIT_SEMOP",
         NEW verdict \in [W -> Statuses],
         CommonAndWake(t, c, status, sigsys, W, verdict)
  PROVE  /\ IpcInv'
         /\ config'[t].wait_reason = c.wait_reason
         /\ config'[t].waiting_object_index = c.waiting_object_index
         /\ \A w \in W : config'[w].wait_reason = "WR_NOT_WAITING"
         /\ \A s \in Tracees : s # t /\ s \notin W => config'[s] = config[s]
<1> DEFINE d == CommonConfig(c, status, sigsys)
           a == CommonAt(c, sigsys)
           tk(s) == s \in W /\ config[s].wait_state = "WSTATE_ENTERED_PPOLL"
<1>1. /\ d \in Configs /\ a \in Locations
      /\ d.wait_reason = c.wait_reason
      /\ d.waiting_object_index = c.waiting_object_index
      /\ d.chain_state = "CSTATE_NOT_CHAINED"
      /\ Asleep(d) <=> c.wait_reason = "WR_WAIT_SEMOP"
      /\ a \in {"user", "rewound", "kernel"}
      /\ a = "user" => d.wait_state = "WSTATE_NOT_WAITING"
      /\ a = "rewound" => d.wait_state = "WSTATE_RESTARTED_INTO_PPOLL"
      /\ a = "kernel" => d.wait_state \in {"WSTATE_ENTERED_PPOLL",
                                           "WSTATE_ENTERED_GETPID"}
  BY CommonFacts
<1>2. /\ config' = [s \in Tracees |->
                      IF s = t THEN d
                      ELSE IF s \in W THEN WakeConfig(config[s], verdict[s])
                      ELSE config[s]]
      /\ at' = [at EXCEPT ![t] = a]
      /\ kick' = [s \in Tracees |-> kick[s] \/ (tk(s) /\ at[s] # "dead")]
      /\ sigstop' = [s \in Tracees |->
                       IF tk(s) THEN "SIGSTOP_IGNORED" ELSE sigstop[s]]
      /\ tracees' = tracees
  BY DEF CommonAndWake, SigstopAfter
<1> HIDE DEF d, a
<1>3. ASSUME NEW w \in W
      PROVE  /\ config'[w] = WakeConfig(config[w], verdict[w])
             /\ config'[w] \in Configs
             /\ config'[w].wait_reason = "WR_NOT_WAITING"
             /\ config'[w].chain_state = config[w].chain_state
             /\ config[w].wait_state = "WSTATE_ENTERED_PPOLL" =>
                  config'[w].wait_state = "WSTATE_SIGNALED_PPOLL"
             /\ config[w].wait_state # "WSTATE_ENTERED_PPOLL" =>
                  config'[w].wait_state = "WSTATE_RESTARTED_INTO_PPOLL_CANCELED"
             /\ ~Asleep(config'[w])
             /\ at'[w] = at[w]
  <2>1. w \in Tracees /\ w # t /\ config[w] \in Configs /\ verdict[w] \in Statuses
    BY DEF IpcInv, IpcTypeOK
  <2>2. config'[w] = WakeConfig(config[w], verdict[w]) /\ at'[w] = at[w]
    BY <1>2, <2>1 DEF IpcInv, IpcTypeOK
  <2> QED BY <2>1, <2>2, WakeFacts
<1>4. config'[t] = d /\ at'[t] = a
  BY <1>2 DEF IpcInv, IpcTypeOK
<1>5. ASSUME NEW s \in Tracees, s # t, s \notin W
      PROVE  config'[s] = config[s] /\ at'[s] = at[s]
  BY <1>2, <1>5 DEF IpcInv, IpcTypeOK
<1>6. IpcTypeOK'
  <2>1. \A s \in Tracees : config'[s] \in Configs
    BY <1>1, <1>3, <1>4, <1>5 DEF IpcInv, IpcTypeOK
  <2>2. config' \in [Tracees -> Configs]
    BY <1>2, <2>1
  <2>3. at' \in [Tracees -> Locations]
    BY <1>1, <1>2 DEF IpcInv, IpcTypeOK
  <2>4. sigstop' \in [Tracees -> {"SIGSTOP_IGNORED", "SIGSTOP_ALLOWED"}]
    BY <1>2 DEF IpcInv, IpcTypeOK
  <2>5. kick' \in [Tracees -> BOOLEAN]
    BY <1>2 DEF IpcInv, IpcTypeOK
  <2> QED BY <1>2, <2>2, <2>3, <2>4, <2>5 DEF IpcInv, IpcTypeOK
<1>7. WaitStatesAgree'
  <2> SUFFICES ASSUME NEW s \in Tracees
               PROVE  /\ at'[s] \in {"none", "user"} =>
                           config'[s].wait_state = "WSTATE_NOT_WAITING"
                      /\ at'[s] = "rewound" =>
                           config'[s].wait_state \in {"WSTATE_RESTARTED_INTO_PPOLL",
                                "WSTATE_RESTARTED_INTO_PPOLL_CANCELED"}
                      /\ at'[s] = "kernel" =>
                           config'[s].wait_state \notin {"WSTATE_RESTARTED_INTO_PPOLL",
                                "WSTATE_RESTARTED_INTO_PPOLL_CANCELED"}
                      /\ Asleep(config'[s]) => config'[s].wait_reason = "WR_WAIT_SEMOP"
                      /\ ~Asleep(config'[s]) => config'[s].wait_reason = "WR_NOT_WAITING"
                      /\ config'[s].chain_state = "CSTATE_NOT_CHAINED"
    BY DEF WaitStatesAgree, Asleep
  <2>1. CASE s = t
    BY <1>1, <1>4, <2>1 DEF HandlerConfig
  <2>2. CASE s \in W
    <3>1. Asleep(config[s]) /\ config[s].chain_state = "CSTATE_NOT_CHAINED"
      BY <2>2 DEF IpcInv, WaitStatesAgree
    <3>2. at[s] \notin {"none", "user"}
      BY <3>1 DEF IpcInv, WaitStatesAgree, Asleep
    <3>3. at[s] = "rewound" => config[s].wait_state = "WSTATE_RESTARTED_INTO_PPOLL"
      BY <3>1 DEF IpcInv, WaitStatesAgree, Asleep
    <3>4. at[s] = "kernel" => config[s].wait_state = "WSTATE_ENTERED_PPOLL"
      BY <3>1 DEF IpcInv, WaitStatesAgree, Asleep
    <3> QED BY <1>3, <2>2, <3>1, <3>2, <3>3, <3>4
  <2>3. CASE s # t /\ s \notin W
    BY <1>5, <2>3 DEF IpcInv, WaitStatesAgree
  <2> QED BY <2>1, <2>2, <2>3
<1>8. KickIsExpected'
  BY <1>2 DEF IpcInv, KickIsExpected, IpcTypeOK
<1>9. EveryoneListed'
  <2>1. ASSUME NEW s \in Tracees, at'[s] # "none" PROVE at[s] # "none"
    BY <2>1, <1>2 DEF IpcInv, IpcTypeOK, CanCall
  <2> QED BY <1>2, <2>1 DEF IpcInv, EveryoneListed
<1>10. IpcInv'
  BY <1>6, <1>7, <1>8, <1>9 DEF IpcInv
<1> QED BY <1>1, <1>3, <1>4, <1>5, <1>10

(* A handler that wakes nobody is one that wakes an empty set.             *)
LEMMA NobodyToWake ==
  ASSUME IpcTypeOK, NEW t \in Tracees, NEW c, NEW status, NEW sigsys,
         NEW verdict, SyscallCommon(t, c, status, sigsys)
  PROVE  CommonAndWake(t, c, status, sigsys, {}, verdict)
BY DEF IpcTypeOK, SyscallCommon, CommonAndWake, SigstopAfter

(* A handler that wakes nobody keeps the wait mechanism sound.             *)
LEMMA CommonStep ==
  ASSUME IpcInv, NEW t \in Tracees, CanCall(t), NEW status \in Statuses,
         NEW sigsys \in BOOLEAN, SyscallCommon(t, config[t], status, sigsys)
  PROVE  /\ IpcInv'
         /\ \A s \in Tracees :
              /\ config'[s].wait_reason = config[s].wait_reason
              /\ config'[s].waiting_object_index = config[s].waiting_object_index
<1>1. PICK c : c = config[t]
  OBVIOUS
<1>2. HandlerConfig(c)
  BY <1>1, CallerConfig
<1> DEFINE W == {}
           none == [w \in W |-> "OK"]
<1>3. none \in [W -> Statuses]
  OBVIOUS
<1>4. CommonAndWake(t, c, status, sigsys, W, none)
  BY <1>1, NobodyToWake DEF IpcInv
<1>5. /\ W \in SUBSET Tracees /\ t \notin W
      /\ \A w \in W : config[w].wait_reason = "WR_WAIT_SEMOP"
  OBVIOUS
<1> HIDE DEF none, W
<1>6. /\ IpcInv'
      /\ config'[t].wait_reason = c.wait_reason
      /\ config'[t].waiting_object_index = c.waiting_object_index
      /\ \A s \in Tracees : s # t /\ s \notin W => config'[s] = config[s]
  BY <1>2, <1>3, <1>4, <1>5, WakeStep
<1> QED BY <1>1, <1>6 DEF W

-----------------------------------------------------------------------------
(* The semaphore sets.                                                     *)

Ledgers == Seq([SemNums -> Int])
Calls == [index : Nat, generation : Nat, sops : SopsArgs \cup {<<>>}]
SemTypeOK ==
  /\ semaphores \in Seq(Slot) /\ Len(semaphores) <= MAX_SEMS
  /\ semop_sops \in [Tracees -> SopsArgs \cup {<<>>}]
  /\ call \in [Tracees -> Calls]
  /\ ledger \in Ledgers
  /\ Len(ledger) = Len(semaphores)

(* The two halves of the inductive invariant.                              *)
LEMMA InvParts == Inv <=> IpcInv /\ SemTypeOK /\ SleepersHaveSet
BY DEF Inv, IpcInv, SemTypeOK, TypeOK, Calls, Ledgers

(* Stored and passed sops are sequences of operations.                     *)
LEMMA SopsTyped == SopsArgs \cup {<<>>} \subseteq Seq(Sembuf)
<1>1. SopsArgs \subseteq Seq(Sembuf) BY SemAssumption
<1>2. <<>> \in Seq(Sembuf) OBVIOUS
<1> QED BY <1>1, <1>2

(* Entering a result in the ledger keeps it typed.                         *)
LEMMA SettledType ==
  ASSUME SemTypeOK, NEW c \in Calls, NEW status
  PROVE  /\ Settled(ledger, c, status) \in Ledgers
         /\ Len(Settled(ledger, c, status)) = Len(semaphores)
<1>1. ledger \in Ledgers /\ Len(ledger) = Len(semaphores)
  BY DEF SemTypeOK
<1>2. CASE Settled(ledger, c, status) = ledger
  BY <1>1, <1>2
<1>3. CASE Settled(ledger, c, status) # ledger
  <2>1. c.index \in 1..Len(ledger)
    BY <1>1, <1>3 DEF Settled, Valid
  <2>2. \A m \in SemNums : Delta(c.sops, m) \in Int
    <3>1. c.sops \in Seq(Sembuf) BY SopsTyped DEF Calls
    <3> QED BY <3>1, DeltaType
  <2> DEFINE row == [m \in SemNums |-> ledger[c.index][m] + Delta(c.sops, m)]
  <2>3. row \in [SemNums -> Int]
    <3>1. ledger[c.index] \in [SemNums -> Int] BY <1>1, <2>1 DEF Ledgers
    <3> QED BY <2>2, <3>1
  <2>4. Settled(ledger, c, status) = [ledger EXCEPT ![c.index] = row]
    BY <1>3 DEF Settled
  <2> HIDE DEF row
  <2> QED BY <1>1, <2>1, <2>3, <2>4 DEF Ledgers
<1> QED BY <1>2, <1>3

(* Returning from a call keeps call and ledger typed.                      *)
LEMMA ReturnsType ==
  ASSUME SemTypeOK, NEW t \in Tracees, NEW status, Returns(t, status)
  PROVE  /\ call' \in [Tracees -> Calls]
         /\ ledger' \in Ledgers /\ Len(ledger') = Len(semaphores)
<1>1. NoCall \in Calls BY DEF NoCall, Calls
<1>2. call[t] \in Calls BY DEF SemTypeOK
<1>3. ledger' = Settled(ledger, call[t], status) BY DEF Returns
<1>4. ledger' \in Ledgers /\ Len(ledger') = Len(semaphores)
  BY <1>2, <1>3, SettledType
<1>5. call' = [call EXCEPT ![t] = NoCall] BY DEF Returns
<1> HIDE DEF NoCall
<1> QED BY <1>1, <1>4, <1>5 DEF SemTypeOK

(* A step that wakes tracees but puts none to sleep, and removes no set,   *)
(* keeps SleepersHaveSet.                                                  *)
LEMMA NoNewSleeper ==
  ASSUME SleepersHaveSet,
         \A s \in Tracees : config'[s].wait_reason = "WR_WAIT_SEMOP" =>
           /\ config[s].wait_reason = "WR_WAIT_SEMOP"
           /\ config'[s].waiting_object_index = config[s].waiting_object_index
           /\ semop_sops'[s] = semop_sops[s],
         \A i \in Nat : Valid(i) =>
           Valid(i)' /\ semaphores'[i].nsems = semaphores[i].nsems,
         config \in [Tracees -> Configs]
  PROVE  SleepersHaveSet'
<1> SUFFICES ASSUME NEW s \in Tracees, config'[s].wait_reason = "WR_WAIT_SEMOP"
             PROVE  \E i \in 1..Len(semaphores') :
                      /\ i = config'[s].waiting_object_index
                      /\ semaphores'[i].valid
                      /\ semop_sops'[s] # <<>>
                      /\ \A k \in 1..Len(semop_sops'[s]) :
                           semop_sops'[s][k].sem_num < semaphores'[i].nsems
  BY DEF SleepersHaveSet, Valid
<1>1. PICK i : i = config[s].waiting_object_index
  OBVIOUS
<1>2. i \in Nat BY <1>1 DEF Configs
<1>3. /\ Valid(i) /\ semop_sops[s] # <<>>
      /\ \A k \in 1..Len(semop_sops[s]) :
           semop_sops[s][k].sem_num < semaphores[i].nsems
  BY <1>1 DEF SleepersHaveSet
<1>4. /\ i \in 1..Len(semaphores') /\ semaphores'[i].valid
      /\ semaphores'[i].nsems = semaphores[i].nsems
  BY <1>2, <1>3 DEF Valid
<1>5. config'[s].waiting_object_index = i /\ semop_sops'[s] = semop_sops[s]
  BY <1>1
<1> HIDE DEF Valid
<1> QED BY <1>3, <1>4, <1>5 DEF Valid

(* Zero values fit every set.                                              *)
LEMMA ZeroVecType == ZeroVec \in SemVec /\ ZeroVec \in [SemNums -> Int]
BY SemAssumption DEF ZeroVec, SemVec

(* semget keeps the invariant.                                             *)
LEMMA SemgetCreateInv ==
  ASSUME Inv, NEW t \in Tracees, NEW sigsys \in BOOLEAN, NEW key \in Keys,
         NEW nsems \in 1..MAX_NSEMS, SemgetCreate(t, sigsys, key, nsems)
  PROVE  Inv'
<1>1. IpcInv /\ SemTypeOK /\ SleepersHaveSet /\ CanCall(t)
  BY InvParts DEF SemgetCreate
<1>2. /\ IpcInv'
      /\ \A s \in Tracees :
           /\ config'[s].wait_reason = config[s].wait_reason
           /\ config'[s].waiting_object_index = config[s].waiting_object_index
  BY <1>1, CommonStep DEF SemgetCreate, Statuses
<1>3. semop_sops' = semop_sops /\ call' = call
  BY DEF SemgetCreate
<1>4. /\ semaphores' \in Seq(Slot) /\ Len(semaphores') <= MAX_SEMS
      /\ ledger' \in Ledgers /\ Len(ledger') = Len(semaphores')
      /\ \A i \in Nat : Valid(i) =>
           Valid(i)' /\ semaphores'[i].nsems = semaphores[i].nsems
  <2>1. CASE FreeSlots # {}
    <3>1. PICK i \in FreeSlots :
            /\ semaphores' = [semaphores EXCEPT ![i].key = key,
                                    ![i].valid = TRUE, ![i].sems = ZeroVec,
                                    ![i].nsems = nsems]
            /\ ledger' = [ledger EXCEPT ![i] = ZeroVec]
      <4>1. FreeSlots \subseteq Nat BY DEF FreeSlots
      <4>2. \E i \in FreeSlots : \A j \in FreeSlots : i <= j
        BY <2>1, <4>1, LeastElement
      <4> DEFINE m == CHOOSE i \in FreeSlots : \A j \in FreeSlots : i <= j
      <4>3. m \in FreeSlots BY <4>2
      <4>4. /\ semaphores' = [semaphores EXCEPT ![m].key = key,
                                    ![m].valid = TRUE, ![m].sems = ZeroVec,
                                    ![m].nsems = nsems]
            /\ ledger' = [ledger EXCEPT ![m] = ZeroVec]
        BY <2>1 DEF SemgetCreate
      <4> HIDE DEF m
      <4> QED BY <4>3, <4>4
    <3>2. i \in 1..Len(semaphores) /\ ~semaphores[i].valid
      BY DEF FreeSlots
    <3>3. semaphores \in Seq(Slot) /\ ledger \in Seq([SemNums -> Int])
          /\ Len(ledger) = Len(semaphores) /\ Len(semaphores) <= MAX_SEMS
      BY <1>1 DEF SemTypeOK, Ledgers
    <3> DEFINE new == [semaphores[i] EXCEPT !.key = key, !.valid = TRUE,
                         !.sems = ZeroVec, !.nsems = nsems]
    <3>4. new \in Slot
      <4>1. semaphores[i] \in Slot BY <3>2, <3>3
      <4> QED BY <4>1, ZeroVecType DEF Slot
    <3>5. semaphores' = [semaphores EXCEPT ![i] = new]
      BY <3>1, <3>2, <3>3
    <3> HIDE DEF new
    <3>6. semaphores' \in Seq(Slot) /\ Len(semaphores') = Len(semaphores)
      BY <3>2, <3>3, <3>4, <3>5
    <3>7. ledger' \in Ledgers /\ Len(ledger') = Len(ledger)
      BY <3>1, <3>2, <3>3, ZeroVecType DEF Ledgers
    <3>8. ASSUME NEW j \in Nat, Valid(j)
          PROVE  Valid(j)' /\ semaphores'[j].nsems = semaphores[j].nsems
      <4>1. j # i /\ j \in 1..Len(semaphores) BY <3>2, <3>8 DEF Valid
      <4>2. semaphores'[j] = semaphores[j] BY <3>3, <3>5, <4>1
      <4> QED BY <3>6, <3>8, <4>1, <4>2 DEF Valid
    <3> QED BY <3>3, <3>6, <3>7, <3>8
  <2>2. CASE FreeSlots = {}
    <3> DEFINE new == [key |-> key, generation |-> 0, valid |-> TRUE,
                       sems |-> ZeroVec, nsems |-> nsems]
    <3>1. /\ Len(semaphores) < MAX_SEMS
          /\ semaphores' = Append(semaphores, new)
          /\ ledger' = Append(ledger, ZeroVec)
      BY <2>2 DEF SemgetCreate
    <3>2. new \in Slot BY SemAssumption, ZeroVecType DEF Slot
    <3> HIDE DEF new
    <3>3. semaphores \in Seq(Slot) /\ ledger \in Seq([SemNums -> Int])
          /\ Len(ledger) = Len(semaphores)
      BY <1>1 DEF SemTypeOK, Ledgers
    <3>4. /\ semaphores' \in Seq(Slot) /\ Len(semaphores') = Len(semaphores) + 1
          /\ ledger' \in Seq([SemNums -> Int]) /\ Len(ledger') = Len(semaphores')
      BY <3>1, <3>2, <3>3, ZeroVecType
    <3>5. ASSUME NEW j \in Nat, Valid(j)
          PROVE  Valid(j)' /\ semaphores'[j].nsems = semaphores[j].nsems
      <4>1. j \in 1..Len(semaphores) BY <3>5 DEF Valid
      <4>2. semaphores'[j] = semaphores[j] BY <3>1, <3>3, <4>1
      <4> QED BY <3>4, <3>3, <3>5, <4>1, <4>2 DEF Valid
    <3>6. Len(semaphores') <= MAX_SEMS
      <4>1. Len(semaphores) \in Nat BY <3>3
      <4> QED BY <3>1, <3>4, <4>1, SemAssumption
    <3> HIDE DEF Valid
    <3> QED BY <3>4, <3>5, <3>6 DEF Ledgers
  <2> QED BY <2>1, <2>2
<1>5. SemTypeOK'
  BY <1>1, <1>3, <1>4 DEF SemTypeOK, Calls
<1>6. SleepersHaveSet'
  BY <1>1, <1>2, <1>3, <1>4, NoNewSleeper DEF IpcInv, IpcTypeOK
<1> QED BY <1>2, <1>5, <1>6, InvParts DEF Inv, IpcInv, SemTypeOK, TypeOK, Calls, Ledgers

(* Calls that only report keep the invariant.                              *)
LEMMA QueryInv ==
  ASSUME Inv, NEW t \in Tracees, NEW sigsys \in BOOLEAN,
         NEW status \in {"OK", "ERROR"}, Query(t, sigsys, status)
  PROVE  Inv'
<1>1. IpcInv /\ SemTypeOK /\ SleepersHaveSet /\ CanCall(t)
  BY InvParts DEF Query
<1>2. /\ IpcInv'
      /\ \A s \in Tracees :
           /\ config'[s].wait_reason = config[s].wait_reason
           /\ config'[s].waiting_object_index = config[s].waiting_object_index
  BY <1>1, CommonStep DEF Query, Statuses
<1>3. UNCHANGED semVars BY DEF Query
<1>4. SleepersHaveSet'
  BY <1>1, <1>2, <1>3 DEF SleepersHaveSet, Valid, semVars
<1> QED BY <1>1, <1>2, <1>3, <1>4
        DEF Inv, IpcInv, SemTypeOK, TypeOK, Calls, Ledgers, semVars

(* What a caller of semop on set i and the sleepers on i pass is in range. *)
LEMMA SleepersInRange ==
  ASSUME Inv, NEW i \in Nat, Valid(i), NEW sops \in SopsArgs \cup {<<>>},
         \A k \in 1..Len(sops) : sops[k].sem_num < semaphores[i].nsems
  PROVE  sops \in Seq(Sembuf) /\ InRange(sops)
<1>1. sops \in Seq(Sembuf) BY SopsTyped
<1>2. semaphores[i].nsems \in 1..MAX_NSEMS
  <2>1. semaphores \in Seq(Slot) /\ i \in 1..Len(semaphores)
    BY DEF Valid, Inv, TypeOK
  <2>2. semaphores[i] \in Slot BY <2>1
  <2> QED BY <2>2 DEF Slot
<1>3. ASSUME NEW k \in 1..Len(sops) PROVE sops[k].sem_num \in SemNums
  <2>1. sops[k] \in Sembuf BY <1>1
  <2>2. sops[k].sem_num \in Nat BY <2>1 DEF Sembuf
  <2>3. sops[k].sem_num < semaphores[i].nsems OBVIOUS
  <2> QED BY <1>2, <2>2, <2>3, SemAssumption DEF SemNums
<1> QED BY <1>1, <1>3 DEF InRange

(* semop keeps the invariant: it leaves everyone it decides awake and      *)
(* everyone else on a set it did not remove.                               *)
LEMMA SemopInv ==
  ASSUME Inv, NEW t \in Tracees, NEW sigsys \in BOOLEAN,
         NEW i \in 1..Len(semaphores), NEW sops \in SopsArgs,
         Semop(t, sigsys, i, sops)
  PROVE  Inv'
<1> DEFINE own == SemCheck(semaphores[i].sems, sops)
           pass == WakePass(own.sems, t, i)
           n == Len(tracees)
           W == {tracees[k] : k \in {k \in 1..n : pass[k].status # "WAIT"}}
           verdict == [w \in W |->
             pass[CHOOSE k \in 1..n : tracees[k] = w /\ pass[k].status # "WAIT"].status]
           c == IF own.status = "WAIT"
                  THEN [config[t] EXCEPT !.wait_reason = "WR_WAIT_SEMOP",
                                         !.waiting_object_index = i]
                  ELSE [config[t] EXCEPT !.waiting_object_index = i]
           args == [index |-> i, generation |-> semaphores[i].generation,
                    sops |-> sops]
           status == IF own.status = "WAIT" THEN "OK" ELSE own.status
           now == own.status # "WAIT" /\ sigsys
<1>1. IpcInv /\ SemTypeOK /\ SleepersHaveSet /\ CanCall(t) /\ Valid(i) /\ i \in Nat
  <2>1. IpcInv /\ SemTypeOK /\ SleepersHaveSet BY InvParts
  <2>2. CanCall(t) /\ Valid(i) BY Zenon DEF Semop
  <2>3. Len(semaphores) \in Nat BY <2>1 DEF SemTypeOK
  <2>4. i \in Nat BY <2>3
  <2> QED BY <2>1, <2>2, <2>4
<1>2. sops \in Seq(Sembuf) /\ InRange(sops)
  BY <1>1, SleepersInRange DEF Semop
<1>3. semaphores[i] \in Slot /\ semaphores[i].sems \in SemVec
  <2>1. semaphores[i] \in Slot BY <1>1 DEF SemTypeOK
  <2> QED BY <2>1 DEF Slot
<1>4. own \in Outcome
  BY <1>2, <1>3, SemCheckType
<1>5. ASSUME NEW s \in Tracees, WaitsFor(s, i)
      PROVE  semop_sops[s] \in Seq(Sembuf) /\ InRange(semop_sops[s])
  <2>1. \A k \in 1..Len(semop_sops[s]) :
          semop_sops[s][k].sem_num < semaphores[i].nsems
    BY <1>1, <1>5 DEF SleepersHaveSet, WaitsFor
  <2>2. semop_sops[s] \in SopsArgs \cup {<<>>}
    BY <1>1 DEF SemTypeOK
  <2> QED BY <1>1, <2>1, <2>2, SleepersInRange
<1>6. tracees \in Seq(Tracees)
  BY <1>1 DEF IpcInv, IpcTypeOK
<1>7. /\ \A k \in 0..n : pass[k] \in Outcome
      /\ \A k \in 1..n : pass[k].status # "WAIT" =>
           tracees[k] # t /\ WaitsFor(tracees[k], i)
  <2>1. own.sems \in SemVec BY <1>4 DEF Outcome
  <2> HIDE DEF own
  <2>2. SleepersFit(i) BY <1>5 DEF SleepersFit
  <2>3. PassDecides(pass, t, i) BY <2>1, <2>2, <1>6, WakePassType
  <2> HIDE DEF pass
  <2> QED BY <2>3 DEF PassDecides
<1>8. /\ CommonAndWake(t, c, status, sigsys, W, verdict)
      /\ semaphores' = [semaphores EXCEPT ![i].sems = pass[n].sems]
      /\ semop_sops' = [s \in Tracees |->
           IF s = t THEN IF own.status = "WAIT" THEN sops ELSE <<>>
           ELSE IF s \in W THEN <<>> ELSE semop_sops[s]]
      /\ call' = [call EXCEPT ![t] = IF now THEN NoCall ELSE args]
      /\ ledger' = IF now THEN Settled(ledger, args, status) ELSE ledger
  BY DEF Semop
<1>9. own.status \in {"OK", "WAIT", "EAGAIN", "ERANGE"}
  BY <1>4 DEF Outcome
<1>10. HandlerConfig(c) /\ config[t].wait_reason = "WR_NOT_WAITING"
  <2>1. HandlerConfig(config[t]) /\ config[t].wait_reason = "WR_NOT_WAITING"
    BY <1>1, CallerConfig
  <2> HIDE DEF own
  <2> QED BY <1>1, <2>1 DEF HandlerConfig, Configs, WaitReasons
<1>11. status \in Statuses
  <2> HIDE DEF own
  <2> QED BY <1>9 DEF Statuses
<1> HIDE DEF own, pass
<1>12. /\ W \in SUBSET Tracees /\ t \notin W
       /\ \A w \in W : WaitsFor(w, i)
  BY <1>6, <1>7
<1>13. verdict \in [W -> Statuses]
  <2>1. ASSUME NEW w \in W PROVE verdict[w] \in Statuses
    <3> DEFINE m == CHOOSE k \in 1..n : tracees[k] = w /\ pass[k].status # "WAIT"
    <3>1. \E k \in 1..n : tracees[k] = w /\ pass[k].status # "WAIT"
      OBVIOUS
    <3>2. m \in 1..n BY <3>1
    <3>3. verdict[w] = pass[m].status OBVIOUS
    <3> HIDE DEF m
    <3>4. m \in 0..n BY <3>2
    <3>5. pass[m].status \in {"OK", "WAIT", "EAGAIN", "ERANGE"}
      BY <1>7, <3>4 DEF Outcome
    <3>6. pass[m].status # "WAIT"
      <4> USE DEF m
      <4> QED BY <3>1
    <3> QED BY <3>3, <3>5, <3>6 DEF Statuses
  <2> HIDE DEF W
  <2> QED BY <2>1
<1>14. c.wait_reason = IF own.status = "WAIT" THEN "WR_WAIT_SEMOP" ELSE "WR_NOT_WAITING"
  BY <1>10, <1>1 DEF IpcInv, IpcTypeOK, Configs
<1>15. c.waiting_object_index = i
  BY <1>1 DEF IpcInv, IpcTypeOK, Configs
<1> HIDE DEF W, verdict, c, status
<1>16. /\ IpcInv'
       /\ config'[t].wait_reason = c.wait_reason
       /\ config'[t].waiting_object_index = c.waiting_object_index
       /\ \A w \in W : config'[w].wait_reason = "WR_NOT_WAITING"
       /\ \A s \in Tracees : s # t /\ s \notin W => config'[s] = config[s]
  <2>1. \A w \in W : config[w].wait_reason = "WR_WAIT_SEMOP"
    BY <1>12 DEF WaitsFor
  <2> QED BY <1>1, <1>8, <1>10, <1>11, <1>12, <1>13, <2>1, WakeStep
<1>17. /\ semaphores' \in Seq(Slot) /\ Len(semaphores') = Len(semaphores)
       /\ \A j \in Nat : Valid(j) =>
            Valid(j)' /\ semaphores'[j].nsems = semaphores[j].nsems
  <2> DEFINE new == [semaphores[i] EXCEPT !.sems = pass[n].sems]
  <2>1. pass[n].sems \in SemVec BY <1>6, <1>7 DEF Outcome
  <2>2. new \in Slot /\ new.nsems = semaphores[i].nsems /\ new.valid = semaphores[i].valid
    BY <1>3, <2>1 DEF Slot
  <2>3. semaphores' = [semaphores EXCEPT ![i] = new] BY <1>8
  <2> HIDE DEF new
  <2>4. semaphores \in Seq(Slot) BY <1>1 DEF SemTypeOK
  <2> QED BY <2>2, <2>3, <2>4 DEF Valid
<1>18. args \in Calls
  <2>1. semaphores[i].generation \in Nat BY <1>3, SemAssumption DEF Slot
  <2> QED BY <1>1, <2>1 DEF Calls
<1>19. /\ ledger' \in Ledgers /\ Len(ledger') = Len(semaphores)
       /\ call' \in [Tracees -> Calls]
  <2>1. NoCall \in Calls BY DEF NoCall, Calls
  <2> HIDE DEF args, now, NoCall
  <2>2. call' \in [Tracees -> Calls]
    BY <1>1, <1>8, <1>18, <2>1 DEF SemTypeOK
  <2>3. CASE now BY <1>1, <1>8, <1>18, <2>2, <2>3, SettledType
  <2>4. CASE ~now BY <1>1, <1>8, <2>2, <2>4 DEF SemTypeOK
  <2> QED BY <2>3, <2>4
<1>20. semop_sops' \in [Tracees -> SopsArgs \cup {<<>>}]
  BY <1>1, <1>8 DEF SemTypeOK
<1>21. SemTypeOK'
  BY <1>1, <1>17, <1>19, <1>20 DEF SemTypeOK, Calls
<1>22. SleepersHaveSet'
  <2> SUFFICES ASSUME NEW s \in Tracees, config'[s].wait_reason = "WR_WAIT_SEMOP"
               PROVE  \E j \in 1..Len(semaphores') :
                        /\ j = config'[s].waiting_object_index
                        /\ semaphores'[j].valid
                        /\ semop_sops'[s] # <<>>
                        /\ \A k \in 1..Len(semop_sops'[s]) :
                             semop_sops'[s][k].sem_num < semaphores'[j].nsems
    BY DEF SleepersHaveSet, Valid
  <2>1. CASE s = t
    <3>1. own.status = "WAIT" BY <1>14, <1>16, <2>1
    <3>2. semop_sops'[s] = sops BY <1>8, <2>1, <3>1
    <3>3. sops # <<>> BY SemAssumption
    <3>4. \A k \in 1..Len(sops) : sops[k].sem_num < semaphores[i].nsems
      BY DEF Semop
    <3>5. /\ i \in 1..Len(semaphores') /\ semaphores'[i].valid
          /\ semaphores'[i].nsems = semaphores[i].nsems
      BY <1>1, <1>17 DEF Valid
    <3>6. config'[s].waiting_object_index = i BY <1>15, <1>16, <2>1
    <3> QED BY <3>2, <3>3, <3>4, <3>5, <3>6
  <2>2. CASE s # t
    <3>1. s \notin W BY <1>16
    <3>2. config'[s] = config[s] /\ semop_sops'[s] = semop_sops[s]
      BY <1>8, <1>16, <2>2, <3>1
    <3>3. PICK j : j = config[s].waiting_object_index OBVIOUS
    <3>4. /\ Valid(j) /\ semop_sops[s] # <<>>
          /\ \A k \in 1..Len(semop_sops[s]) :
               semop_sops[s][k].sem_num < semaphores[j].nsems
      BY <1>1, <3>2, <3>3 DEF SleepersHaveSet
    <3>5. /\ j \in 1..Len(semaphores') /\ semaphores'[j].valid
          /\ semaphores'[j].nsems = semaphores[j].nsems
      BY <1>17, <3>4 DEF Valid
    <3> QED BY <3>2, <3>3, <3>4, <3>5
  <2> QED BY <2>1, <2>2
<1> QED BY <1>16, <1>21, <1>22
        DEF Inv, IpcInv, SemTypeOK, TypeOK, Calls, Ledgers

(* SETVAL keeps the invariant.                                             *)
LEMMA SemctlSetvalInv ==
  ASSUME Inv, NEW t \in Tracees, NEW sigsys \in BOOLEAN,
         NEW i \in 1..Len(semaphores), NEW m \in SemNums, NEW val \in SetVals,
         SemctlSetval(t, sigsys, i, m, val)
  PROVE  Inv'
<1>1. IpcInv /\ SemTypeOK /\ SleepersHaveSet /\ CanCall(t)
  BY InvParts DEF SemctlSetval
<1>2. /\ IpcInv'
      /\ \A s \in Tracees :
           /\ config'[s].wait_reason = config[s].wait_reason
           /\ config'[s].waiting_object_index = config[s].waiting_object_index
  BY <1>1, CommonStep DEF SemctlSetval, Statuses
<1>3. semop_sops' = semop_sops /\ call' = call
  BY DEF SemctlSetval
<1>4. semaphores \in Seq(Slot) /\ ledger \in Seq([SemNums -> Int])
      /\ Len(ledger) = Len(semaphores) /\ Len(semaphores) <= MAX_SEMS
  BY <1>1 DEF SemTypeOK, Ledgers
<1>5. semaphores[i] \in Slot /\ ledger[i] \in [SemNums -> Int]
  BY <1>4
<1>6. val \in 0..MAX_SEMVAL /\ semaphores[i].sems \in SemVec
  BY <1>5, SemAssumption DEF Slot
<1>7. semaphores[i].sems[m] \in 0..MAX_SEMVAL
  BY <1>6 DEF SemVec
<1>8. /\ semaphores' \in Seq(Slot) /\ Len(semaphores') = Len(semaphores)
      /\ \A j \in Nat : Valid(j) =>
           Valid(j)' /\ semaphores'[j].nsems = semaphores[j].nsems
  <2> DEFINE new == [semaphores[i] EXCEPT !.sems = [@ EXCEPT ![m] = val]]
  <2>1. [semaphores[i].sems EXCEPT ![m] = val] \in SemVec
    BY <1>6 DEF SemVec
  <2>2. new \in Slot /\ new.nsems = semaphores[i].nsems /\ new.valid = semaphores[i].valid
    BY <1>5, <2>1 DEF Slot
  <2>3. semaphores' = [semaphores EXCEPT ![i] = new] BY DEF SemctlSetval
  <2> HIDE DEF new
  <2> QED BY <1>4, <2>2, <2>3 DEF Valid
<1>9. ledger' \in Ledgers /\ Len(ledger') = Len(ledger)
  <2> DEFINE x == ledger[i][m] + (val - semaphores[i].sems[m])
             row == [ledger[i] EXCEPT ![m] = x]
  <2>1. x \in Int
    <3>1. ledger[i][m] \in Int BY <1>5
    <3>2. MAX_SEMVAL \in Nat BY SemAssumption
    <3> QED BY <3>1, <3>2, <1>6, <1>7
  <2>2. ledger' = [ledger EXCEPT ![i] = row] BY DEF SemctlSetval
  <2> HIDE DEF x
  <2>3. row \in [SemNums -> Int] BY <1>5, <2>1
  <2> HIDE DEF row
  <2> QED BY <1>4, <2>2, <2>3 DEF Ledgers
<1>10. SemTypeOK'
  BY <1>1, <1>3, <1>4, <1>8, <1>9 DEF SemTypeOK, Calls
<1>11. SleepersHaveSet'
  BY <1>1, <1>2, <1>3, <1>8, NoNewSleeper DEF IpcInv, IpcTypeOK
<1> QED BY <1>2, <1>10, <1>11 DEF Inv, IpcInv, SemTypeOK, TypeOK, Calls, Ledgers

(* IPC_RMID keeps the invariant: nobody is left asleep on the removed set. *)
LEMMA SemctlRmidInv ==
  ASSUME Inv, NEW t \in Tracees, NEW sigsys \in BOOLEAN,
         NEW i \in 1..Len(semaphores), SemctlRmid(t, sigsys, i)
  PROVE  Inv'
<1> DEFINE W == SleepersOn(i)
           verdict == [w \in W |-> "EIDRM"]
<1>1. IpcInv /\ SemTypeOK /\ SleepersHaveSet
  BY InvParts
<1>2. /\ CanCall(t) /\ semaphores[i].generation < MaxGeneration
      /\ CommonAndWake(t, config[t], "OK", sigsys, W, verdict)
      /\ semaphores' = [semaphores EXCEPT ![i].valid = FALSE,
                                          ![i].generation = @ + 1,
                                          ![i].sems = ZeroVec]
      /\ ledger' = [ledger EXCEPT ![i] = ZeroVec]
      /\ semop_sops' = semop_sops /\ call' = call
  BY Zenon DEF SemctlRmid
<1>3. PICK c : c = config[t]
  OBVIOUS
<1>4. HandlerConfig(c) /\ c.wait_reason = "WR_NOT_WAITING"
  BY <1>1, <1>2, <1>3, CallerConfig
<1>5. /\ W \in SUBSET Tracees
      /\ \A w \in W : WaitsFor(w, i)
      /\ \A s \in Tracees : WaitsFor(s, i) => s \in W
  <2>1. tracees \in Seq(Tracees) BY <1>1 DEF IpcInv, IpcTypeOK
  <2>2. W \in SUBSET Tracees /\ \A w \in W : WaitsFor(w, i)
    BY <2>1 DEF SleepersOn
  <2>3. ASSUME NEW s \in Tracees, WaitsFor(s, i) PROVE s \in W
    <3>1. at[s] # "none"
      BY <1>1, <2>3 DEF IpcInv, WaitStatesAgree, WaitsFor, Asleep
    <3>2. PICK k \in 1..Len(tracees) : tracees[k] = s
      BY <1>1, <3>1 DEF IpcInv, EveryoneListed
    <3> QED BY <2>3, <3>2 DEF SleepersOn
  <2> QED BY <2>2, <2>3
<1>6. verdict \in [W -> Statuses] /\ "OK" \in Statuses
  BY DEF Statuses
<1> HIDE DEF W, verdict
<1>7. \A w \in W : config[w].wait_reason = "WR_WAIT_SEMOP"
  BY <1>5 DEF WaitsFor
<1>8. t \notin W
  BY <1>3, <1>4, <1>7
<1>9. /\ IpcInv'
      /\ config'[t].wait_reason = c.wait_reason
      /\ \A w \in W : config'[w].wait_reason = "WR_NOT_WAITING"
      /\ \A s \in Tracees : s # t /\ s \notin W => config'[s] = config[s]
  BY <1>1, <1>2, <1>3, <1>4, <1>5, <1>6, <1>7, <1>8, WakeStep, SMTT(20)
<1>10. semaphores \in Seq(Slot) /\ ledger \in Seq([SemNums -> Int])
       /\ Len(ledger) = Len(semaphores) /\ Len(semaphores) <= MAX_SEMS
  BY <1>1 DEF SemTypeOK, Ledgers
<1>11. /\ semaphores' \in Seq(Slot) /\ Len(semaphores') = Len(semaphores)
       /\ \A j \in 1..Len(semaphores) : j # i => semaphores'[j] = semaphores[j]
  <2> DEFINE new == [semaphores[i] EXCEPT !.valid = FALSE, !.generation = @ + 1,
                                          !.sems = ZeroVec]
  <2>1. semaphores[i] \in Slot BY <1>10
  <2>2. semaphores[i].generation + 1 \in 0..MaxGeneration
    <3>1. semaphores[i].generation \in 0..MaxGeneration BY <2>1 DEF Slot
    <3> QED BY <1>2, <3>1, SemAssumption
  <2>3. new \in Slot BY <2>1, <2>2, ZeroVecType DEF Slot
  <2>4. semaphores' = [semaphores EXCEPT ![i] = new] BY <1>2, <1>10
  <2> HIDE DEF new
  <2> QED BY <1>10, <2>3, <2>4
<1>12. ledger' \in Ledgers /\ Len(ledger') = Len(ledger)
  BY <1>2, <1>10, ZeroVecType DEF Ledgers
<1>13. SemTypeOK'
  BY <1>1, <1>2, <1>10, <1>11, <1>12 DEF SemTypeOK, Calls
<1>14. SleepersHaveSet'
  <2> SUFFICES ASSUME NEW s \in Tracees, config'[s].wait_reason = "WR_WAIT_SEMOP"
               PROVE  \E j \in 1..Len(semaphores') :
                        /\ j = config'[s].waiting_object_index
                        /\ semaphores'[j].valid
                        /\ semop_sops'[s] # <<>>
                        /\ \A k \in 1..Len(semop_sops'[s]) :
                             semop_sops'[s][k].sem_num < semaphores'[j].nsems
    BY DEF SleepersHaveSet, Valid
  <2>1. s # t /\ s \notin W BY <1>4, <1>9
  <2>2. config'[s] = config[s] /\ semop_sops'[s] = semop_sops[s]
    BY <1>2, <1>9, <2>1
  <2>3. PICK j : j = config[s].waiting_object_index OBVIOUS
  <2>4. j # i BY <1>5, <2>1, <2>2, <2>3 DEF WaitsFor
  <2>5. /\ Valid(j) /\ semop_sops[s] # <<>>
        /\ \A k \in 1..Len(semop_sops[s]) :
             semop_sops[s][k].sem_num < semaphores[j].nsems
    BY <1>1, <2>2, <2>3 DEF SleepersHaveSet
  <2>6. j \in 1..Len(semaphores') /\ semaphores'[j] = semaphores[j]
    BY <1>11, <2>4, <2>5 DEF Valid
  <2> QED BY <2>2, <2>3, <2>5, <2>6 DEF Valid
<1> QED BY <1>9, <1>13, <1>14 DEF Inv, IpcInv, SemTypeOK, TypeOK, Calls, Ledgers

-----------------------------------------------------------------------------
(* The stops of the wait mechanism.                                        *)

(* A step of one tracee t that starts no wait and removes no set.          *)
LEMMA LocalStep ==
  ASSUME Inv, NEW t \in Tracees, NEW a \in Locations, NEW c \in Configs,
         at[t] # "none",
         at' = [at EXCEPT ![t] = a], config' = [config EXCEPT ![t] = c],
         tracees' = tracees, sigstop' = sigstop,
         kick' \in [Tracees -> BOOLEAN],
         \A s \in Tracees : kick'[s] => kick[s],
         a \in {"none", "user"} => c.wait_state = "WSTATE_NOT_WAITING",
         a = "rewound" => c.wait_state \in {"WSTATE_RESTARTED_INTO_PPOLL",
                                     "WSTATE_RESTARTED_INTO_PPOLL_CANCELED"},
         a = "kernel" => c.wait_state \notin {"WSTATE_RESTARTED_INTO_PPOLL",
                                     "WSTATE_RESTARTED_INTO_PPOLL_CANCELED"},
         Asleep(c) => c.wait_reason = "WR_WAIT_SEMOP",
         ~Asleep(c) => c.wait_reason = "WR_NOT_WAITING",
         c.chain_state = "CSTATE_NOT_CHAINED"
  PROVE  IpcInv'
<1>1. IpcInv BY InvParts
<1>2. config'[t] = c /\ at'[t] = a
  BY <1>1 DEF IpcInv, IpcTypeOK
<1>3. ASSUME NEW s \in Tracees, s # t
      PROVE  config'[s] = config[s] /\ at'[s] = at[s]
  BY <1>1, <1>3 DEF IpcInv, IpcTypeOK
<1>4. IpcTypeOK'
  BY <1>1 DEF IpcInv, IpcTypeOK
<1>5. WaitStatesAgree'
  <2> SUFFICES ASSUME NEW s \in Tracees
               PROVE  /\ at'[s] \in {"none", "user"} =>
                           config'[s].wait_state = "WSTATE_NOT_WAITING"
                      /\ at'[s] = "rewound" =>
                           config'[s].wait_state \in {"WSTATE_RESTARTED_INTO_PPOLL",
                                "WSTATE_RESTARTED_INTO_PPOLL_CANCELED"}
                      /\ at'[s] = "kernel" =>
                           config'[s].wait_state \notin {"WSTATE_RESTARTED_INTO_PPOLL",
                                "WSTATE_RESTARTED_INTO_PPOLL_CANCELED"}
                      /\ Asleep(config'[s]) => config'[s].wait_reason = "WR_WAIT_SEMOP"
                      /\ ~Asleep(config'[s]) => config'[s].wait_reason = "WR_NOT_WAITING"
                      /\ config'[s].chain_state = "CSTATE_NOT_CHAINED"
    BY DEF WaitStatesAgree, Asleep
  <2>1. CASE s = t BY <1>2, <2>1
  <2>2. CASE s # t BY <1>1, <1>3, <2>2 DEF IpcInv, WaitStatesAgree
  <2> QED BY <2>1, <2>2
<1>6. KickIsExpected'
  BY <1>1 DEF IpcInv, KickIsExpected
<1>7. EveryoneListed'
  <2>1. ASSUME NEW s \in Tracees, at'[s] # "none" PROVE at[s] # "none"
    BY <1>3, <2>1
  <2> QED BY <1>1, <2>1 DEF IpcInv, EveryoneListed
<1> QED BY <1>4, <1>5, <1>6, <1>7 DEF IpcInv

(* The stops of a tracee's own system call keep the invariant.             *)
LEMMA StopsInv ==
  ASSUME Inv, NEW t \in Tracees,
         \/ StartPpoll(t) \/ StartCanceled(t)
         \/ EndVoid(t) \/ EndPpoll(t) \/ EndStatus(t)
  PROVE  Inv'
<1>1. IpcInv /\ SemTypeOK /\ SleepersHaveSet
  BY InvParts
<1>2. config \in [Tracees -> Configs] /\ at \in [Tracees -> Locations]
  BY <1>1 DEF IpcInv, IpcTypeOK
<1> DEFINE c == config[t]
<1>3. /\ c \in Configs /\ c.chain_state = "CSTATE_NOT_CHAINED"
      /\ Asleep(c) => c.wait_reason = "WR_WAIT_SEMOP"
      /\ ~Asleep(c) => c.wait_reason = "WR_NOT_WAITING"
      /\ kick \in [Tracees -> BOOLEAN]
  BY <1>1, <1>2 DEF IpcInv, WaitStatesAgree, IpcTypeOK
<1>4. CASE StartPpoll(t)
  <2>1. PICK d : d = [config[t] EXCEPT !.wait_state = "WSTATE_ENTERED_PPOLL"]
    OBVIOUS
  <2>2. /\ d \in Configs /\ Asleep(d) /\ d.wait_reason = "WR_WAIT_SEMOP"
        /\ d.chain_state = "CSTATE_NOT_CHAINED"
        /\ d.wait_state = "WSTATE_ENTERED_PPOLL"
        /\ d.waiting_object_index = config[t].waiting_object_index
        /\ config[t].wait_reason = "WR_WAIT_SEMOP"
    BY <1>3, <1>4, <2>1 DEF StartPpoll, EnterPpoll, Configs, WaitStates, Asleep
  <2>3. /\ at' = [at EXCEPT ![t] = "kernel"] /\ config' = [config EXCEPT ![t] = d]
        /\ at[t] # "none" /\ tracees' = tracees /\ sigstop' = sigstop /\ kick' = kick
        /\ UNCHANGED semVars /\ "kernel" \in Locations
    BY <1>2, <1>4, <2>1 DEF StartPpoll, EnterPpoll, Locations
  <2>4. IpcInv' BY <1>3, <2>2, <2>3, LocalStep
  <2>5. SemTypeOK' BY <1>1, <2>3 DEF SemTypeOK, semVars
  <2>6. SleepersHaveSet'
    <3>1. \A s \in Tracees :
            /\ config'[s].wait_reason = config[s].wait_reason
            /\ config'[s].waiting_object_index = config[s].waiting_object_index
      BY <1>2, <2>2, <2>3
    <3> QED BY <1>1, <2>3, <3>1 DEF SleepersHaveSet, Valid, semVars
  <2> QED BY <2>4, <2>5, <2>6 DEF Inv, IpcInv, SemTypeOK, TypeOK, Calls, Ledgers
<1>5. CASE StartCanceled(t) \/ EndVoid(t) \/ EndPpoll(t) \/ EndStatus(t)
  <2>1. PICK a \in {"user", "kernel"}, d \in Configs :
          /\ d.wait_state = "WSTATE_NOT_WAITING"
          /\ d.wait_reason = "WR_NOT_WAITING"
          /\ d.chain_state = "CSTATE_NOT_CHAINED"
          /\ at' = [at EXCEPT ![t] = a] /\ config' = [config EXCEPT ![t] = d]
          /\ at[t] # "none" /\ tracees' = tracees /\ sigstop' = sigstop
          /\ kick' = kick /\ semaphores' = semaphores
    <3>1. CASE StartCanceled(t)
      <4> DEFINE d == [config[t] EXCEPT !.wait_state = "WSTATE_NOT_WAITING"]
      <4>1. /\ d \in Configs /\ d.wait_state = "WSTATE_NOT_WAITING"
            /\ d.wait_reason = "WR_NOT_WAITING"
            /\ d.chain_state = "CSTATE_NOT_CHAINED"
        BY <1>3, <3>1 DEF StartCanceled, EnterCanceled, Configs, WaitStates, Asleep
      <4>2. /\ at' = [at EXCEPT ![t] = "kernel"] /\ config' = [config EXCEPT ![t] = d]
            /\ at[t] # "none" /\ tracees' = tracees /\ sigstop' = sigstop
            /\ kick' = kick /\ semaphores' = semaphores
        BY <1>2, <3>1 DEF StartCanceled, EnterCanceled
      <4> HIDE DEF d
      <4> QED BY <4>1, <4>2
    <3>2. CASE EndVoid(t)
      <4>1. /\ c \in Configs /\ c.wait_state = "WSTATE_NOT_WAITING"
            /\ c.wait_reason = "WR_NOT_WAITING"
            /\ c.chain_state = "CSTATE_NOT_CHAINED"
        BY <1>3, <3>2 DEF EndVoid, ExitVoid, Asleep
      <4>2. /\ at' = [at EXCEPT ![t] = "user"] /\ config' = [config EXCEPT ![t] = c]
            /\ at[t] # "none" /\ tracees' = tracees /\ sigstop' = sigstop
            /\ kick' = kick /\ semaphores' = semaphores
        BY <1>2, <3>2 DEF EndVoid, ExitVoid, semVars
      <4> HIDE DEF c
      <4> QED BY <4>1, <4>2
    <3>3. CASE EndPpoll(t)
      <4> DEFINE d == [config[t] EXCEPT !.wait_state = "WSTATE_NOT_WAITING",
                                        !.wait_reason = "WR_NOT_WAITING"]
      <4>1. /\ d \in Configs /\ d.wait_state = "WSTATE_NOT_WAITING"
            /\ d.wait_reason = "WR_NOT_WAITING"
            /\ d.chain_state = "CSTATE_NOT_CHAINED"
        BY <1>3 DEF Configs, WaitStates, WaitReasons
      <4>2. /\ at' = [at EXCEPT ![t] = "user"] /\ config' = [config EXCEPT ![t] = d]
            /\ at[t] # "none" /\ tracees' = tracees /\ sigstop' = sigstop
            /\ kick' = kick /\ semaphores' = semaphores
        BY <1>2, <3>3 DEF EndPpoll, ExitPpoll
      <4> HIDE DEF d
      <4> QED BY <4>1, <4>2
    <3>4. CASE EndStatus(t)
      <4> DEFINE d == [config[t] EXCEPT !.wait_state = "WSTATE_NOT_WAITING"]
      <4>1. /\ d \in Configs /\ d.wait_state = "WSTATE_NOT_WAITING"
            /\ d.wait_reason = "WR_NOT_WAITING"
            /\ d.chain_state = "CSTATE_NOT_CHAINED"
        BY <1>3, <3>4 DEF EndStatus, ExitStatus, Configs, WaitStates, Asleep
      <4>2. /\ at' = [at EXCEPT ![t] = "user"] /\ config' = [config EXCEPT ![t] = d]
            /\ at[t] # "none" /\ tracees' = tracees /\ sigstop' = sigstop
            /\ kick' = kick /\ semaphores' = semaphores
        BY <1>2, <3>4 DEF EndStatus, ExitStatus
      <4> HIDE DEF d
      <4> QED BY <4>1, <4>2
    <3> QED BY <1>5, <3>1, <3>2, <3>3, <3>4
  <2>2. IpcInv'
    <3>1. a \in Locations /\ ~Asleep(d) BY <2>1 DEF Locations, Asleep
    <3> QED BY <1>3, <2>1, <3>1, LocalStep
  <2>3. /\ call' \in [Tracees -> Calls]
        /\ ledger' \in Ledgers /\ Len(ledger') = Len(semaphores)
    <3>1. CASE EndVoid(t) BY <1>1, <3>1 DEF EndVoid, SemTypeOK, semVars
    <3>2. CASE \E status : Returns(t, status) BY <1>1, <3>2, ReturnsType
    <3> QED BY <1>5, <3>1, <3>2 DEF StartCanceled, EndPpoll, EndStatus
  <2>4. /\ semop_sops' \in [Tracees -> SopsArgs \cup {<<>>}]
        /\ \A s \in Tracees : s # t => semop_sops'[s] = semop_sops[s]
    BY <1>1, <1>5 DEF SemTypeOK, StartCanceled, EndVoid, EndPpoll, EndStatus, semVars
  <2>5. SemTypeOK' BY <1>1, <2>1, <2>3, <2>4 DEF SemTypeOK, Calls
  <2>6. SleepersHaveSet'
    <3>1. \A s \in Tracees : config'[s].wait_reason = "WR_WAIT_SEMOP" =>
            s # t /\ config'[s] = config[s] /\ semop_sops'[s] = semop_sops[s]
      BY <1>2, <2>1, <2>4
    <3>2. \A j \in Nat : Valid(j) =>
            Valid(j)' /\ semaphores'[j].nsems = semaphores[j].nsems
      BY <2>1 DEF Valid
    <3> QED BY <1>1, <1>2, <3>1, <3>2, NoNewSleeper
  <2> QED BY <2>2, <2>5, <2>6 DEF Inv, IpcInv, SemTypeOK, TypeOK, Calls, Ledgers
<1> QED BY <1>4, <1>5

(* Swallowing PRoot's SIGSTOP keeps the invariant.                         *)
LEMMA SwallowInv ==
  ASSUME Inv, NEW t \in Tracees, Swallow(t)
  PROVE  Inv'
<1>1. /\ sigstop' = [sigstop EXCEPT ![t] = "SIGSTOP_ALLOWED"]
      /\ kick' = [kick EXCEPT ![t] = FALSE]
      /\ UNCHANGED <<tracees, at, config>> /\ UNCHANGED semVars
  BY DEF Swallow, SigstopStop
<1>2. TypeOK'
  BY <1>1 DEF Inv, TypeOK, IpcTypeOK, semVars
<1>3. WaitStatesAgree' /\ SleepersHaveSet' /\ EveryoneListed'
  BY <1>1 DEF Inv, WaitStatesAgree, Asleep, SleepersHaveSet, Valid,
              EveryoneListed, semVars
<1>4. KickIsExpected'
  BY <1>1 DEF Inv, KickIsExpected, TypeOK, IpcTypeOK
<1> QED BY <1>2, <1>3, <1>4 DEF Inv

(* A kill keeps the invariant: the dead keep their config until reaped.    *)
LEMMA KillInv ==
  ASSUME Inv, NEW t \in Tracees, Kill(t)
  PROVE  Inv'
<1>1. /\ at' = [at EXCEPT ![t] = "dead"]
      /\ kick' = [kick EXCEPT ![t] = FALSE]
      /\ at[t] # "none"
      /\ UNCHANGED <<tracees, config, sigstop>> /\ UNCHANGED semVars
  BY DEF Kill, Die
<1>2. TypeOK'
  BY <1>1 DEF Inv, TypeOK, IpcTypeOK, Locations, semVars
<1>3. WaitStatesAgree'
  BY <1>1 DEF Inv, WaitStatesAgree, Asleep, TypeOK, IpcTypeOK
<1>4. SleepersHaveSet'
  BY <1>1 DEF Inv, SleepersHaveSet, Valid, semVars
<1>5. KickIsExpected'
  BY <1>1 DEF Inv, KickIsExpected, TypeOK, IpcTypeOK
<1>6. EveryoneListed'
  BY <1>1 DEF Inv, EveryoneListed, TypeOK, IpcTypeOK
<1> QED BY <1>2, <1>3, <1>4, <1>5, <1>6 DEF Inv

(* A new config fits a tracee in guest code and one that is gone.          *)
LEMMA ZeroConfigFacts ==
  /\ ZeroConfig \in Configs
  /\ ZeroConfig.wait_state = "WSTATE_NOT_WAITING"
  /\ ZeroConfig.wait_reason = "WR_NOT_WAITING"
  /\ ZeroConfig.chain_state = "CSTATE_NOT_CHAINED"
  /\ ~Asleep(ZeroConfig)
BY DEF ZeroConfig, Configs, WaitReasons, WaitStates, ChainStates, Statuses, Asleep

(* fork keeps the invariant: the child has no wait and is listed.          *)
LEMMA ForkInv ==
  ASSUME Inv, NEW parent \in Tracees, NEW child \in Tracees, Fork(parent, child)
  PROVE  Inv'
<1>1. /\ tracees' = <<child>> \o tracees
      /\ at' = [at EXCEPT ![child] = "user"]
      /\ config' = [config EXCEPT ![child] = ZeroConfig]
      /\ sigstop' = [sigstop EXCEPT ![child] = "SIGSTOP_ALLOWED"]
      /\ kick' = [kick EXCEPT ![child] = FALSE]
      /\ UNCHANGED semVars
  BY DEF Fork, Clone, Listed
<1>2. /\ tracees \in Seq(Tracees) /\ at \in [Tracees -> Locations]
      /\ config \in [Tracees -> Configs]
  BY DEF Inv, TypeOK, IpcTypeOK
<1> HIDE DEF ZeroConfig
<1>3. TypeOK'
  <2>1. tracees' \in Seq(Tracees) BY <1>1, <1>2
  <2>2. at' \in [Tracees -> Locations] BY <1>1, <1>2 DEF Locations
  <2>3. config' \in [Tracees -> Configs] BY <1>1, <1>2, ZeroConfigFacts
  <2> QED BY <1>1, <2>1, <2>2, <2>3 DEF Inv, TypeOK, IpcTypeOK, semVars
<1>4. WaitStatesAgree'
  <2> SUFFICES ASSUME NEW s \in Tracees
               PROVE  /\ at'[s] \in {"none", "user"} =>
                           config'[s].wait_state = "WSTATE_NOT_WAITING"
                      /\ at'[s] = "rewound" =>
                           config'[s].wait_state \in {"WSTATE_RESTARTED_INTO_PPOLL",
                                "WSTATE_RESTARTED_INTO_PPOLL_CANCELED"}
                      /\ at'[s] = "kernel" =>
                           config'[s].wait_state \notin {"WSTATE_RESTARTED_INTO_PPOLL",
                                "WSTATE_RESTARTED_INTO_PPOLL_CANCELED"}
                      /\ Asleep(config'[s]) => config'[s].wait_reason = "WR_WAIT_SEMOP"
                      /\ ~Asleep(config'[s]) => config'[s].wait_reason = "WR_NOT_WAITING"
                      /\ config'[s].chain_state = "CSTATE_NOT_CHAINED"
    BY DEF WaitStatesAgree, Asleep
  <2>1. CASE s = child
    <3>1. config'[s] = ZeroConfig /\ at'[s] = "user" BY <1>1, <1>2, <2>1
    <3> QED BY <3>1, ZeroConfigFacts
  <2>2. CASE s # child
    <3>1. config'[s] = config[s] /\ at'[s] = at[s] BY <1>1, <1>2, <2>2
    <3> QED BY <3>1 DEF Inv, WaitStatesAgree
  <2> QED BY <2>1, <2>2
<1>5. SleepersHaveSet'
  <2>1. \A s \in Tracees : config'[s].wait_reason = "WR_WAIT_SEMOP" =>
          config'[s] = config[s]
    BY <1>1, <1>2, ZeroConfigFacts
  <2> QED BY <1>1, <2>1 DEF Inv, SleepersHaveSet, Valid, semVars
<1>6. KickIsExpected'
  BY <1>1 DEF Inv, KickIsExpected, TypeOK, IpcTypeOK
<1>7. EveryoneListed'
  <2> SUFFICES ASSUME NEW s \in Tracees, at'[s] # "none"
               PROVE  \E k \in 1..Len(tracees') : tracees'[k] = s
    BY DEF EveryoneListed
  <2>1. Len(tracees') = Len(tracees) + 1 /\ tracees'[1] = child
    BY <1>1, <1>2
  <2>2. CASE s = child
    BY <1>2, <2>1, <2>2
  <2>3. CASE s # child
    <3>1. PICK k \in 1..Len(tracees) : tracees[k] = s
      BY <1>1, <1>2, <2>3 DEF Inv, EveryoneListed
    <3>2. k + 1 \in 1..Len(tracees') /\ tracees'[k + 1] = s
      BY <1>1, <1>2, <2>1, <3>1
    <3> QED BY <3>2
  <2> QED BY <2>2, <2>3
<1> QED BY <1>3, <1>4, <1>5, <1>6, <1>7 DEF Inv

(* Taking the k-th element out of a list keeps every other element.        *)
LEMMA Unlink ==
  ASSUME NEW S, NEW q \in Seq(S), NEW k \in 1..Len(q)
  PROVE  LET r == SubSeq(q, 1, k - 1) \o SubSeq(q, k + 1, Len(q))
         IN  /\ r \in Seq(S)
             /\ \A j \in 1..Len(q) : j # k => \E i \in 1..Len(r) : r[i] = q[j]
<1> DEFINE a == SubSeq(q, 1, k - 1)
           b == SubSeq(q, k + 1, Len(q))
<1>1. /\ a \in Seq(S) /\ Len(a) = k - 1
      /\ \A i \in 1..(k - 1) : a[i] = q[i]
  OBVIOUS
<1>2. /\ b \in Seq(S) /\ Len(b) = Len(q) - k
      /\ \A i \in 1..(Len(q) - k) : b[i] = q[k + i]
  OBVIOUS
<1> HIDE DEF a, b
<1> DEFINE r == a \o b
<1>3. r \in Seq(S) /\ Len(r) = Len(q) - 1
  <2>1. r \in Seq(S) /\ Len(r) = Len(a) + Len(b)
    <3>1. a \in Seq(S) /\ b \in Seq(S) BY <1>1, <1>2
    <3> QED BY <3>1, Z3
  <2>2. Len(q) \in Nat OBVIOUS
  <2> HIDE DEF r
  <2> QED BY <1>1, <1>2, <2>1, <2>2
<1>4. ASSUME NEW j \in 1..Len(q), j # k PROVE \E i \in 1..Len(r) : r[i] = q[j]
  <2>1. CASE j < k
    <3>1. j \in 1..Len(r) /\ j \in 1..(k - 1) BY <1>3, <2>1
    <3>2. r[j] = a[j] BY <1>1, <1>2, <3>1
    <3> HIDE DEF r
    <3> QED BY <1>1, <3>1, <3>2
  <2>2. CASE j > k
    <3>1. j - 1 \in 1..Len(r) /\ j - k \in 1..(Len(q) - k) /\ ~(j - 1 <= k - 1)
      BY <1>3, <2>2
    <3>2. r[j - 1] = b[j - k] BY <1>1, <1>2, <3>1
    <3>3. b[j - k] = q[j]
      <4>1. b[j - k] = q[k + (j - k)] BY <1>2, <3>1
      <4>2. k + (j - k) = j OBVIOUS
      <4> QED BY <4>1, <4>2
    <3> HIDE DEF r
    <3> QED BY <3>1, <3>2, <3>3
  <2> QED BY <1>4, <2>1, <2>2
<1> QED BY <1>3, <1>4 DEF a, b

(* Reaping keeps the invariant: whoever is gone has no wait left.          *)
LEMMA ReapInv ==
  ASSUME Inv, NEW t \in Tracees, ReapTracee(t)
  PROVE  Inv'
<1>1. IpcInv /\ SemTypeOK /\ SleepersHaveSet
  BY InvParts
<1>2. PICK k \in 1..Len(tracees) :
        /\ tracees[k] = t
        /\ tracees' = SubSeq(tracees, 1, k - 1)
                        \o SubSeq(tracees, k + 1, Len(tracees))
  BY DEF ReapTracee, Reap
<1>3. /\ at' = [at EXCEPT ![t] = "none"]
      /\ config' = [config EXCEPT ![t] = ZeroConfig]
      /\ sigstop' = sigstop /\ kick' = kick /\ semaphores' = semaphores
      /\ semop_sops' = [semop_sops EXCEPT ![t] = <<>>]
      /\ \E status : Returns(t, status)
  BY DEF ReapTracee, Reap
<1>4. /\ tracees \in Seq(Tracees) /\ at \in [Tracees -> Locations]
      /\ config \in [Tracees -> Configs]
  BY <1>1 DEF IpcInv, IpcTypeOK
<1>5. /\ tracees' \in Seq(Tracees)
      /\ \A j \in 1..Len(tracees) : j # k =>
           \E i \in 1..Len(tracees') : tracees'[i] = tracees[j]
  BY <1>2, <1>4, Unlink
<1>6. IpcTypeOK'
  <2>1. at' \in [Tracees -> Locations] BY <1>3, <1>4 DEF Locations
  <2>2. config' \in [Tracees -> Configs] BY <1>3, <1>4, ZeroConfigFacts
  <2> QED BY <1>1, <1>3, <1>5, <2>1, <2>2 DEF IpcInv, IpcTypeOK
<1>7. WaitStatesAgree'
  <2> SUFFICES ASSUME NEW s \in Tracees
               PROVE  /\ at'[s] \in {"none", "user"} =>
                           config'[s].wait_state = "WSTATE_NOT_WAITING"
                      /\ at'[s] = "rewound" =>
                           config'[s].wait_state \in {"WSTATE_RESTARTED_INTO_PPOLL",
                                "WSTATE_RESTARTED_INTO_PPOLL_CANCELED"}
                      /\ at'[s] = "kernel" =>
                           config'[s].wait_state \notin {"WSTATE_RESTARTED_INTO_PPOLL",
                                "WSTATE_RESTARTED_INTO_PPOLL_CANCELED"}
                      /\ Asleep(config'[s]) => config'[s].wait_reason = "WR_WAIT_SEMOP"
                      /\ ~Asleep(config'[s]) => config'[s].wait_reason = "WR_NOT_WAITING"
                      /\ config'[s].chain_state = "CSTATE_NOT_CHAINED"
    BY DEF WaitStatesAgree, Asleep
  <2>1. CASE s = t
    <3>1. config'[s] = ZeroConfig /\ at'[s] = "none" BY <1>3, <1>4, <2>1
    <3> QED BY <3>1, ZeroConfigFacts
  <2>2. CASE s # t
    <3>1. config'[s] = config[s] /\ at'[s] = at[s] BY <1>3, <1>4, <2>2
    <3> QED BY <1>1, <3>1 DEF IpcInv, WaitStatesAgree
  <2> QED BY <2>1, <2>2
<1>8. KickIsExpected'
  BY <1>1, <1>3 DEF IpcInv, KickIsExpected
<1>9. EveryoneListed'
  <2> SUFFICES ASSUME NEW s \in Tracees, at'[s] # "none"
               PROVE  \E j \in 1..Len(tracees') : tracees'[j] = s
    BY DEF EveryoneListed
  <2>1. s # t /\ at[s] # "none" BY <1>3, <1>4
  <2>2. PICK j \in 1..Len(tracees) : tracees[j] = s
    BY <1>1, <2>1 DEF IpcInv, EveryoneListed
  <2> QED BY <1>2, <1>5, <2>1, <2>2
<1>10. SemTypeOK'
  <2>1. /\ call' \in [Tracees -> Calls]
        /\ ledger' \in Ledgers /\ Len(ledger') = Len(semaphores)
    BY <1>1, <1>3, ReturnsType
  <2> QED BY <1>1, <1>3, <2>1 DEF SemTypeOK, Calls
<1>11. SleepersHaveSet'
  <2>1. \A s \in Tracees : config'[s].wait_reason = "WR_WAIT_SEMOP" =>
          config'[s] = config[s] /\ semop_sops'[s] = semop_sops[s]
    BY <1>1, <1>3, <1>4, ZeroConfigFacts DEF SemTypeOK
  <2> QED BY <1>1, <1>3, <2>1 DEF SleepersHaveSet, Valid
<1> QED BY <1>6, <1>7, <1>8, <1>9, <1>10, <1>11
        DEF Inv, SemTypeOK, TypeOK, Calls, Ledgers

-----------------------------------------------------------------------------
(* Exactly once: what the operations do to the values.                     *)

(* One operation that goes through adds its sem_op to its semaphore.       *)
LEMMA SopStepAdds ==
  ASSUME NEW v \in SemVec, NEW sop \in Sembuf, sop.sem_num \in SemNums,
         SopStep(v, sop).status = "OK", NEW m \in SemNums
  PROVE  SopStep(v, sop).sems[m] =
           v[m] + IF sop.sem_num = m THEN sop.sem_op ELSE 0
<1>1. MAX_SEMVAL \in Nat BY SemAssumption
<1>2. v[m] \in 0..MAX_SEMVAL /\ v[sop.sem_num] \in 0..MAX_SEMVAL BY DEF SemVec
<1>3. sop.sem_op \in Int /\ v[m] \in Int BY <1>1, <1>2 DEF Sembuf
<1>4. PICK new : new = v[sop.sem_num] + sop.sem_op
  OBVIOUS
<1>5. SopStep(v, sop) =
        IF sop.sem_op = 0
          THEN IF v[sop.sem_num] = 0 THEN [status |-> "OK", sems |-> v]
               ELSE [status |-> IF sop.nowait THEN "EAGAIN" ELSE "WAIT", sems |-> v]
        ELSE IF new < 0
          THEN [status |-> IF sop.nowait THEN "EAGAIN" ELSE "WAIT", sems |-> v]
        ELSE IF new > MAX_SEMVAL THEN [status |-> "ERANGE", sems |-> v]
        ELSE [status |-> "OK", sems |-> [v EXCEPT ![sop.sem_num] = new]]
  BY <1>4 DEF SopStep
<1>6. CASE sop.sem_op = 0
  <2>1. SopStep(v, sop).sems = v BY <1>5, <1>6
  <2> QED BY <1>3, <1>6, <2>1
<1>7. CASE sop.sem_op # 0
  <2>1. SopStep(v, sop).sems = [v EXCEPT ![sop.sem_num] = new]
    BY <1>5, <1>7
  <2>2. CASE sop.sem_num = m
    BY <1>4, <2>1, <2>2 DEF SemVec
  <2>3. CASE sop.sem_num # m
    <3>1. SopStep(v, sop).sems[m] = v[m] BY <2>1, <2>3 DEF SemVec
    <3> QED BY <1>3, <2>3, <3>1
  <2> QED BY <2>2, <2>3
<1> QED BY <1>6, <1>7

(* A semop that goes through adds what all its operations add; one that is *)
(* stopped changes nothing.                                                *)
LEMMA SemCheckAdds ==
  ASSUME NEW v \in SemVec, NEW sops \in Seq(Sembuf), InRange(sops),
         NEW m \in SemNums
  PROVE  SemCheck(v, sops).sems[m] =
           v[m] + IF SemCheck(v, sops).status = "OK" THEN Delta(sops, m) ELSE 0
<1>1. PICK r : r = SemRun(v, sops)
  OBVIOUS
<1>2. PICK p : p = PartialSums(sops, m)
  OBVIOUS
<1>3. PICK n \in Nat : n = Len(sops)
  OBVIOUS
<1>4. /\ r \in [0..n -> Outcome] /\ r[0] = [status |-> "OK", sems |-> v]
      /\ \A i \in 1..n : r[i] = IF r[i - 1].status # "OK" THEN r[i - 1]
                                ELSE SopStep(r[i - 1].sems, sops[i])
  BY <1>1, <1>3, SemRunType
<1>5. /\ p[0] = 0 /\ \A k \in 0..n : p[k] \in Int
      /\ \A k \in 1..n :
           p[k] = p[k - 1] + IF sops[k].sem_num = m THEN sops[k].sem_op ELSE 0
  BY <1>2, <1>3, DeltaType
<1>6. v[m] \in Int
  <2>1. v[m] \in 0..MAX_SEMVAL BY DEF SemVec
  <2> QED BY <2>1, SemAssumption
<1> DEFINE S == {k \in 0..n : r[k].status = "OK" => r[k].sems[m] = v[m] + p[k]}
<1>7. 0 \in S
  BY <1>4, <1>5, <1>6
<1>8. ASSUME NEW k \in 1..n, k - 1 \in S PROVE k \in S
  <2> SUFFICES ASSUME r[k].status = "OK" PROVE r[k].sems[m] = v[m] + p[k]
    OBVIOUS
  <2>1. k - 1 \in 0..n /\ sops[k] \in Sembuf BY <1>3
  <2>2. r[k] = IF r[k - 1].status # "OK" THEN r[k - 1]
               ELSE SopStep(r[k - 1].sems, sops[k])
    BY <1>4
  <2>3. r[k - 1].status = "OK" BY <2>2
  <2>4. r[k] = SopStep(r[k - 1].sems, sops[k]) BY <2>2, <2>3
  <2>5. r[k - 1].sems \in SemVec BY <1>4, <2>1 DEF Outcome
  <2>6. sops[k].sem_num \in SemNums BY <1>3 DEF InRange
  <2>7. r[k].sems[m] =
          r[k - 1].sems[m] + IF sops[k].sem_num = m THEN sops[k].sem_op ELSE 0
    BY <2>1, <2>4, <2>5, <2>6, SopStepAdds
  <2>8. r[k - 1].sems[m] = v[m] + p[k - 1] BY <1>8, <2>3
  <2>9. (IF sops[k].sem_num = m THEN sops[k].sem_op ELSE 0) \in Int
    BY <2>1 DEF Sembuf
  <2>10. PICK z \in Int : z = IF sops[k].sem_num = m THEN sops[k].sem_op ELSE 0
    BY <2>9
  <2>11. p[k] = p[k - 1] + z /\ p[k - 1] \in Int /\ r[k].sems[m] = r[k - 1].sems[m] + z
    BY <1>5, <2>1, <2>7, <2>10
  <2> QED BY ONLY <1>6, <2>8, <2>11
<1>9. n \in S
  <2> HIDE DEF S
  <2>1. \A k \in 0..n : k \in S BY <1>7, <1>8, UpTo
  <2> QED BY <2>1
<1>10. SemCheck(v, sops) = [status |-> r[n].status,
                            sems |-> IF r[n].status = "OK" THEN r[n].sems ELSE v]
  BY <1>1, <1>3 DEF SemCheck
<1>11. Delta(sops, m) = p[n] BY <1>2, <1>3 DEF Delta
<1>12. CASE r[n].status = "OK"
  BY <1>9, <1>10, <1>11, <1>12
<1>13. CASE r[n].status # "OK"
  BY <1>6, <1>10, <1>13
<1> QED BY <1>12, <1>13

(* What each tracee's call adds to semaphore n.                            *)
Share(n) == [t \in Tracees |-> Delta(call[t].sops, n)]

LEMMA ShareType ==
  ASSUME SemTypeOK, NEW n, NEW S \in SUBSET Tracees
  PROVE  Share(n) \in [Tracees -> Int] /\ IntOn(Share(n), S)
<1>1. ASSUME NEW t \in Tracees PROVE Delta(call[t].sops, n) \in Int
  <2>1. call[t].sops \in Seq(Sembuf) BY SopsTyped DEF SemTypeOK, Calls
  <2> QED BY <2>1, DeltaType
<1> QED BY <1>1 DEF Share, IntOn

(* The sum that ExactlyOnce speaks of.                                     *)
LEMMA OwedSum ==
  ASSUME SemTypeOK, NEW S \in SUBSET Tracees, IsFiniteSet(S), NEW n
  PROVE  MapThenSumSet(LAMBDA t : Delta(call[t].sops, n), S) =
           SumOver(Share(n), S)
<1> DEFINE Eq(h) == h = [s \in SUBSET S |->
               IF s = {} THEN 0
               ELSE Delta(call[CHOOSE x \in s : TRUE].sops, n)
                      + h[s \ {CHOOSE x \in s : TRUE}]]
           c == CHOOSE h : Eq(h)
<1>1. MapThenSumSet(LAMBDA t : Delta(call[t].sops, n), S) = c[S]
  BY DEF MapThenSumSet, MapThenFoldSet
<1>2. PICK g \in [SUBSET S -> Int] :
        IsSum(g, Share(n), S) /\ SumOver(Share(n), S) = g[S]
  <2>1. IntOn(Share(n), S) BY ShareType
  <2> QED BY <2>1, SumDefined
<1>3. \A s \in SUBSET S : s # {} =>
        Share(n)[Chosen(s)] = Delta(call[CHOOSE x \in s : TRUE].sops, n)
  <2> SUFFICES ASSUME NEW s \in SUBSET S, s # {}
               PROVE Share(n)[Chosen(s)] = Delta(call[CHOOSE x \in s : TRUE].sops, n)
    OBVIOUS
  <2>1. Chosen(s) = (CHOOSE x \in s : TRUE) BY DEF Chosen
  <2>2. Chosen(s) \in s BY <2>1
  <2>3. Chosen(s) \in Tracees BY <2>2
  <2> QED BY <2>1, <2>3 DEF Share
<1>4. Eq(g)
  <2>1. ASSUME NEW s \in SUBSET S
        PROVE  g[s] = IF s = {} THEN 0
                      ELSE Delta(call[CHOOSE x \in s : TRUE].sops, n)
                             + g[s \ {CHOOSE x \in s : TRUE}]
    <3>1. CASE s = {} BY <1>2, <3>1 DEF IsSum
    <3>2. CASE s # {}
      <4>1. g[s] = Share(n)[Chosen(s)] + g[s \ {Chosen(s)}]
        BY <1>2, <3>2, SumStep
      <4> QED BY <1>3, <3>2, <4>1 DEF Chosen
    <3> QED BY <3>1, <3>2
  <2> QED BY <2>1
<1>5. Eq(c)
  <2> HIDE DEF Eq
  <2> QED BY <1>4, Zenon
<1> HIDE DEF c
<1>6. IsSum(c, Share(n), S)
  <2>1. ASSUME NEW s \in SUBSET S
        PROVE  c[s] = IF s = {} THEN 0
                      ELSE Share(n)[Chosen(s)] + c[s \ {Chosen(s)}]
    <3>1. c[s] = IF s = {} THEN 0
                 ELSE Delta(call[CHOOSE x \in s : TRUE].sops, n)
                        + c[s \ {CHOOSE x \in s : TRUE}]
      BY <1>5
    <3>2. CASE s = {} BY <3>1, <3>2
    <3>3. CASE s # {}
      <4>1. (CHOOSE x \in s : TRUE) = Chosen(s) BY DEF Chosen
      <4> QED BY <1>3, <3>1, <3>3, <4>1
    <3> QED BY <3>2, <3>3
  <2>2. c = [s \in SUBSET S |-> c[s]] BY <1>5
  <2> QED BY <2>1, <2>2 DEF IsSum
<1>7. c[S] = g[S]
  BY <1>2, <1>6, SumUnique
<1> QED BY <1>1, <1>2, <1>7

-----------------------------------------------------------------------------
(* Exactly once: the invariant.                                            *)

(* A tracee is on the list at most once, and only while PRoot knows it:    *)
(* the wake-up loop tries no sleeper twice.                                *)
ListedOnce ==
  /\ \A j, k \in 1..Len(tracees) : tracees[j] = tracees[k] => j = k
  /\ \A k \in 1..Len(tracees) : at[tracees[k]] # "none"

(* A semop being executed is one PRoot has not answered, on a slot that    *)
(* exists; the slot may have moved on to a later generation, but while it  *)
(* has not, its set is there.                                              *)
CallsFit ==
  \A t \in Tracees : call[t] # NoCall =>
    LET i == call[t].index
    IN  /\ config[t].wait_state # "WSTATE_NOT_WAITING"
        /\ i \in 1..Len(semaphores)
        /\ call[t].generation <= semaphores[i].generation
        /\ call[t].generation = semaphores[i].generation => semaphores[i].valid

(* The config of a sleeper is about the semop it sleeps in.                *)
SleepersCall ==
  \A t \in Tracees : Asleep(config[t]) =>
    LET i == config[t].waiting_object_index
    IN  /\ call[t].index = i
        /\ call[t].generation = semaphores[i].generation
        /\ call[t].sops = semop_sops[t]

(* ExactlyOnce, for one set.                                               *)
Owed(i, n) == SumOver(Share(n), OnItsWay(i))
Balance(i) ==
  \A n \in SemNums : semaphores[i].sems[n] = ledger[i][n] + Owed(i, n)
Balanced == \A i \in 1..Len(semaphores) : semaphores[i].valid => Balance(i)

(* Inv, what a semop being executed and its sleeper agree on, and the      *)
(* values.                                                                 *)
OnceInv == Inv /\ ListedOnce /\ CallsFit /\ SleepersCall /\ Balanced

(* A tracee that can issue a call has none left over.                      *)
LEMMA CallerIdle ==
  ASSUME Inv, CallsFit, NEW t \in Tracees, at[t] \in {"none", "user"}
  PROVE  call[t] = NoCall
BY DEF Inv, WaitStatesAgree, CallsFit

(* Only finitely many results can be on their way: their tracees are on    *)
(* the list.                                                               *)
LEMMA WayFinite ==
  ASSUME Inv, CallsFit, NEW i
  PROVE  IsFiniteSet(OnItsWay(i)) /\ OnItsWay(i) \in SUBSET Tracees
<1> DEFINE T == {tracees[k] : k \in 1..Len(tracees)}
           f == [k \in 1..Len(tracees) |-> tracees[k]]
<1>1. tracees \in Seq(Tracees) BY DEF Inv, TypeOK, IpcTypeOK
<1>2. IsFiniteSet(1..Len(tracees)) BY <1>1, FS_Interval
<1>3. f \in Surjection(1..Len(tracees), T) BY DEF Surjection
<1>4. IsFiniteSet(T)
  <2> HIDE DEF f, T
  <2> QED BY <1>2, <1>3, FS_Surjection
<1>5. OnItsWay(i) \in SUBSET T
  <2> SUFFICES ASSUME NEW t \in Tracees, call[t] # NoCall PROVE t \in T
    BY DEF OnItsWay
  <2>1. at[t] # "none" BY CallerIdle
  <2> QED BY <2>1 DEF Inv, EveryoneListed
<1>6. IsFiniteSet(OnItsWay(i))
  <2> HIDE DEF T
  <2> QED BY <1>4, <1>5, FS_Subset
<1> QED BY <1>6 DEF OnItsWay

(* Balanced is ExactlyOnce.                                                *)
LEMMA BalancedIsExactlyOnce ==
  ASSUME Inv, CallsFit
  PROVE  Balanced <=> ExactlyOnce
<1>1. SemTypeOK BY InvParts
<1>2. \A i, n : MapThenSumSet(LAMBDA t : Delta(call[t].sops, n), OnItsWay(i)) =
                  Owed(i, n)
  <2> SUFFICES ASSUME NEW i, NEW n
               PROVE  MapThenSumSet(LAMBDA t : Delta(call[t].sops, n), OnItsWay(i)) =
                        Owed(i, n)
    OBVIOUS
  <2>1. IsFiniteSet(OnItsWay(i)) /\ OnItsWay(i) \in SUBSET Tracees BY WayFinite
  <2>2. PICK S \in SUBSET Tracees : S = OnItsWay(i) BY <2>1
  <2>3. MapThenSumSet(LAMBDA t : Delta(call[t].sops, n), S) = SumOver(Share(n), S)
    BY <1>1, <2>1, <2>2, OwedSum
  <2> QED BY <2>2, <2>3 DEF Owed
<1> QED BY <1>2 DEF Balanced, Balance, ExactlyOnce, Valid

(* What is owed is a number.                                               *)
LEMMA OwedType ==
  ASSUME Inv, CallsFit, NEW i, NEW n
  PROVE  Owed(i, n) \in Int
<1>1. SemTypeOK BY InvParts
<1>2. IsFiniteSet(OnItsWay(i)) /\ OnItsWay(i) \in SUBSET Tracees BY WayFinite
<1>3. IntOn(Share(n), OnItsWay(i)) BY <1>1, <1>2, ShareType
<1> QED BY <1>2, <1>3, SumType DEF Owed

(* The step changes neither whose results for set i are on their way nor   *)
(* their calls.                                                            *)
SameWay(i) ==
  OnItsWay(i)' = OnItsWay(i) /\ \A s \in OnItsWay(i) : call'[s] = call[s]

(* The sum over callers that keep their calls is kept.                     *)
LEMMA SumKept ==
  ASSUME SemTypeOK, SemTypeOK', NEW S \in SUBSET Tracees, IsFiniteSet(S),
         \A s \in S : call'[s] = call[s], NEW n
  PROVE  SumOver(Share(n)', S) = SumOver(Share(n), S)
<1>1. IntOn(Share(n), S) BY ShareType
<1>2. \A s \in S : Share(n)[s] = Share(n)'[s] BY DEF Share
<1> QED BY <1>1, <1>2, SumSame

LEMMA OwedKept ==
  ASSUME Inv, CallsFit, SemTypeOK', NEW i, SameWay(i), NEW n
  PROVE  Owed(i, n)' = Owed(i, n)
<1>1. SemTypeOK BY InvParts
<1>2. PICK S \in SUBSET Tracees : S = OnItsWay(i) /\ IsFiniteSet(S) BY WayFinite
<1>3. S = OnItsWay(i)' /\ \A s \in S : call'[s] = call[s] BY <1>2 DEF SameWay
<1>4. SumOver(Share(n)', S) = SumOver(Share(n), S)
  BY <1>1, <1>2, <1>3, SumKept
<1> QED BY <1>2, <1>3, <1>4 DEF Owed

(* ... so a set it does not touch stays balanced.                          *)
LEMMA BalanceKept ==
  ASSUME Inv, CallsFit, SemTypeOK', NEW i, SameWay(i), Balance(i),
         semaphores'[i].sems = semaphores[i].sems, ledger'[i] = ledger[i]
  PROVE  Balance(i)'
BY OwedKept DEF Balance

(* A step between calls: every tracee that has a call keeps what its       *)
(* config says of it.                                                      *)
Undisturbed ==
  /\ call' = call
  /\ \A s \in Tracees : call[s] # NoCall =>
       /\ Asleep(config'[s]) <=> Asleep(config[s])
       /\ config'[s].status_after_wait = config[s].status_after_wait
       /\ config'[s].wait_state # "WSTATE_NOT_WAITING"
  /\ \A s \in Tracees : Asleep(config'[s]) =>
       /\ Asleep(config[s])
       /\ config'[s].waiting_object_index = config[s].waiting_object_index
       /\ semop_sops'[s] = semop_sops[s]

LEMMA UndisturbedWay ==
  ASSUME Undisturbed, NEW i,
         semaphores'[i].generation = semaphores[i].generation
  PROVE  SameWay(i)
BY DEF Undisturbed, SameWay, OnItsWay

(* ... and nothing happens to the sets.                                    *)
LEMMA QuietStep ==
  ASSUME Inv, CallsFit, SleepersCall, Balanced, Inv',
         Undisturbed, semaphores' = semaphores, ledger' = ledger
  PROVE  CallsFit' /\ SleepersCall' /\ Balanced'
<1>1. CallsFit' BY DEF CallsFit, Undisturbed
<1>2. SleepersCall' BY DEF SleepersCall, Undisturbed
<1>3. ASSUME NEW i \in 1..Len(semaphores), semaphores[i].valid PROVE Balance(i)'
  <2>1. SameWay(i) BY UndisturbedWay
  <2>2. SemTypeOK'
    BY DEF Inv, SemTypeOK, TypeOK, Calls, Ledgers
  <2>3. Balance(i) BY <1>3 DEF Balanced
  <2> QED BY <2>1, <2>2, <2>3, BalanceKept
<1> QED BY <1>1, <1>2, <1>3 DEF Balanced

(* A step that neither links nor unlinks a tracee.                         *)
LEMMA ListKept ==
  ASSUME ListedOnce, Inv, tracees' = tracees,
         \A s \in Tracees : at[s] # "none" => at'[s] # "none"
  PROVE  ListedOnce'
<1>1. tracees \in Seq(Tracees) BY DEF Inv, TypeOK, IpcTypeOK
<1>2. \A k \in 1..Len(tracees) : tracees[k] \in Tracees BY <1>1
<1> QED BY <1>2 DEF ListedOnce

-----------------------------------------------------------------------------
(* Exactly once: the steps.                                                *)

(* A caller that wakes nobody disturbs nobody: it had no semop left over.  *)
LEMMA CallerStep ==
  ASSUME OnceInv, NEW t \in Tracees, CanCall(t), NEW sigsys \in BOOLEAN,
         NEW status \in Statuses, SyscallCommon(t, config[t], status, sigsys),
         call' = call, semop_sops' = semop_sops
  PROVE  Undisturbed /\ ListedOnce'
<1>1. IpcInv /\ at[t] = "user"
  BY InvParts DEF OnceInv, CanCall
<1>2. call[t] = NoCall BY <1>1, CallerIdle DEF OnceInv
<1>3. HandlerConfig(config[t]) /\ config[t].wait_reason = "WR_NOT_WAITING"
  BY <1>1, CallerConfig
<1>4. PICK d, a : /\ d = CommonConfig(config[t], status, sigsys)
                  /\ a = CommonAt(config[t], sigsys)
  OBVIOUS
<1>5. ~Asleep(d) /\ a \in {"user", "rewound", "kernel"}
  BY <1>3, <1>4, CommonFacts
<1>6. /\ config' = [config EXCEPT ![t] = d] /\ at' = [at EXCEPT ![t] = a]
      /\ tracees' = tracees
  BY <1>4 DEF SyscallCommon
<1>7. /\ config'[t] = d /\ at'[t] = a
      /\ \A s \in Tracees : s # t => config'[s] = config[s] /\ at'[s] = at[s]
  BY <1>1, <1>6 DEF IpcInv, IpcTypeOK
<1>8. Undisturbed
  BY <1>2, <1>5, <1>7 DEF Undisturbed, OnceInv, CallsFit
<1>9. ListedOnce'
  BY <1>5, <1>6, <1>7, ListKept DEF OnceInv
<1> QED BY <1>8, <1>9

(* Calls that only report.                                                 *)
LEMMA QueryOnce ==
  ASSUME OnceInv, Inv', NEW t \in Tracees, NEW sigsys \in BOOLEAN,
         NEW status \in {"OK", "ERROR"}, Query(t, sigsys, status)
  PROVE  OnceInv'
<1>1. /\ call' = call /\ semop_sops' = semop_sops
      /\ semaphores' = semaphores /\ ledger' = ledger
      /\ CanCall(t) /\ SyscallCommon(t, config[t], status, sigsys)
  BY DEF Query, semVars
<1>2. Undisturbed /\ ListedOnce' BY <1>1, CallerStep DEF Statuses
<1>3. CallsFit' /\ SleepersCall' /\ Balanced'
  BY <1>1, <1>2, QuietStep DEF OnceInv
<1> QED BY <1>2, <1>3 DEF OnceInv

(* The stops that answer no call.                                          *)
LEMMA StopsOnce ==
  ASSUME OnceInv, Inv', NEW t \in Tracees,
         StartPpoll(t) \/ EndVoid(t) \/ Swallow(t) \/ Kill(t)
  PROVE  OnceInv'
<1>1. IpcInv BY InvParts DEF OnceInv
<1>2. /\ UNCHANGED semVars /\ tracees' = tracees
      /\ \A s \in Tracees : at[s] # "none" => at'[s] # "none"
  BY <1>1 DEF IpcInv, IpcTypeOK, StartPpoll, EnterPpoll, EndVoid, ExitVoid,
              Swallow, SigstopStop, Kill, Die
<1>3. /\ call' = call /\ semop_sops' = semop_sops
      /\ semaphores' = semaphores /\ ledger' = ledger
  BY <1>2 DEF semVars
<1>4. \A s \in Tracees :
        /\ Asleep(config'[s]) <=> Asleep(config[s])
        /\ config'[s].status_after_wait = config[s].status_after_wait
        /\ config'[s].waiting_object_index = config[s].waiting_object_index
        /\ config[s].wait_state # "WSTATE_NOT_WAITING" =>
             config'[s].wait_state # "WSTATE_NOT_WAITING"
  <2>1. CASE StartPpoll(t)
    <3> SUFFICES ASSUME NEW s \in Tracees
                 PROVE /\ Asleep(config'[s]) <=> Asleep(config[s])
                       /\ config'[s].status_after_wait = config[s].status_after_wait
                       /\ config'[s].waiting_object_index = config[s].waiting_object_index
                       /\ config[s].wait_state # "WSTATE_NOT_WAITING" =>
                            config'[s].wait_state # "WSTATE_NOT_WAITING"
      OBVIOUS
    <3>1. config[t] \in Configs BY <1>1 DEF IpcInv, IpcTypeOK
    <3>2. PICK d : d = [config[t] EXCEPT !.wait_state = "WSTATE_ENTERED_PPOLL"]
      OBVIOUS
    <3>3. /\ Asleep(d) /\ Asleep(config[t])
          /\ d.status_after_wait = config[t].status_after_wait
          /\ d.waiting_object_index = config[t].waiting_object_index
          /\ d.wait_state # "WSTATE_NOT_WAITING"
      BY <2>1, <3>1, <3>2 DEF Configs, Asleep, StartPpoll, EnterPpoll
    <3>4. config' = [config EXCEPT ![t] = d]
      BY <2>1, <3>2 DEF StartPpoll, EnterPpoll
    <3>5. CASE s = t
      <4>1. config'[s] = d BY <1>1, <3>4, <3>5 DEF IpcInv, IpcTypeOK
      <4> QED BY <3>3, <3>5, <4>1
    <3>6. CASE s # t
      <4>1. config'[s] = config[s] BY <1>1, <3>4, <3>6 DEF IpcInv, IpcTypeOK
      <4> QED BY <4>1
    <3> QED BY <3>5, <3>6
  <2>2. CASE EndVoid(t) \/ Swallow(t) \/ Kill(t)
    <3>1. config' = config
      BY <2>2 DEF EndVoid, ExitVoid, Swallow, SigstopStop, Kill, Die
    <3> QED BY <3>1
  <2> QED BY <2>1, <2>2
<1>5. Undisturbed
  BY <1>3, <1>4 DEF Undisturbed, OnceInv, CallsFit
<1>6. ListedOnce' BY <1>2, ListKept DEF OnceInv
<1>7. CallsFit' /\ SleepersCall' /\ Balanced'
  BY <1>3, <1>5, QuietStep DEF OnceInv
<1> QED BY <1>6, <1>7 DEF OnceInv

(* fork: the child is new on the list and has no call.                     *)
LEMMA ForkOnce ==
  ASSUME OnceInv, Inv', NEW parent \in Tracees, NEW child \in Tracees,
         Fork(parent, child)
  PROVE  OnceInv'
<1>1. /\ tracees' = <<child>> \o tracees
      /\ at' = [at EXCEPT ![child] = "user"]
      /\ config' = [config EXCEPT ![child] = ZeroConfig]
      /\ UNCHANGED semVars /\ at[child] = "none"
  BY DEF Fork, Clone, Listed
<1>2. /\ tracees \in Seq(Tracees) /\ at \in [Tracees -> Locations]
      /\ config \in [Tracees -> Configs]
  BY DEF OnceInv, Inv, TypeOK, IpcTypeOK
<1>3. call[child] = NoCall BY <1>1, CallerIdle DEF OnceInv
<1>4. config'[child] = ZeroConfig /\ \A s \in Tracees : s # child => config'[s] = config[s]
  BY <1>1, <1>2
<1>5. /\ call' = call /\ semop_sops' = semop_sops
      /\ semaphores' = semaphores /\ ledger' = ledger
  BY <1>1 DEF semVars
<1>6. Undisturbed
  <2>1. ~Asleep(ZeroConfig) BY ZeroConfigFacts
  <2> HIDE DEF ZeroConfig
  <2> QED BY <1>3, <1>4, <1>5, <2>1 DEF Undisturbed, OnceInv, CallsFit
<1>7. CallsFit' /\ SleepersCall' /\ Balanced'
  BY <1>5, <1>6, QuietStep DEF OnceInv
<1>8. ListedOnce'
  <2>1. PICK n \in Nat : n = Len(tracees) BY <1>2
  <2>2. /\ Len(tracees') = n + 1 /\ tracees'[1] = child
        /\ \A k \in 2..(n + 1) : tracees'[k] = tracees[k - 1]
    BY <1>1, <1>2, <2>1
  <2>3. \A k \in 1..n : tracees[k] \in Tracees /\ at[tracees[k]] # "none"
    BY <1>2, <2>1 DEF OnceInv, ListedOnce
  <2>4. \A k \in 2..(n + 1) : tracees'[k] # child /\ at'[tracees'[k]] # "none"
    <3> SUFFICES ASSUME NEW k \in 2..(n + 1)
                 PROVE  tracees'[k] # child /\ at'[tracees'[k]] # "none"
      OBVIOUS
    <3>1. k - 1 \in 1..n OBVIOUS
    <3>2. tracees'[k] \in Tracees /\ at[tracees'[k]] # "none" BY <2>2, <2>3, <3>1
    <3> QED BY <1>1, <1>2, <3>2
  <2>5. \A j, k \in 2..(n + 1) : tracees'[j] = tracees'[k] => j = k
    <3> SUFFICES ASSUME NEW j \in 2..(n + 1), NEW k \in 2..(n + 1),
                        tracees'[j] = tracees'[k]
                 PROVE  j = k
      OBVIOUS
    <3>1. j - 1 \in 1..n /\ k - 1 \in 1..n OBVIOUS
    <3>2. tracees[j - 1] = tracees[k - 1] BY <2>2
    <3>3. j - 1 = k - 1 BY <2>1, <3>1, <3>2 DEF OnceInv, ListedOnce
    <3> QED BY <3>3
  <2>6. \A k \in 1..(n + 1) : k = 1 \/ k \in 2..(n + 1) BY <2>1
  <2>7. at'[child] # "none" BY <1>1, <1>2
  <2>8. ASSUME NEW j \in 1..(n + 1), NEW k \in 1..(n + 1), tracees'[j] = tracees'[k]
        PROVE  j = k
    BY <2>2, <2>4, <2>5, <2>6, <2>8
  <2>9. ASSUME NEW k \in 1..(n + 1) PROVE at'[tracees'[k]] # "none"
    BY <2>2, <2>4, <2>6, <2>7
  <2>10. Len(tracees') = n + 1 BY <2>2
  <2> QED BY ONLY <2>8, <2>9, <2>10 DEF ListedOnce
<1> QED BY <1>7, <1>8 DEF OnceInv

(* A step that removes no set.                                             *)
LEMMA SetsKept ==
  ASSUME OnceInv, Undisturbed, Len(semaphores) <= Len(semaphores'),
         Len(semaphores') \in Nat,
         \A j \in 1..Len(semaphores) :
           /\ semaphores'[j].generation = semaphores[j].generation
           /\ semaphores[j].valid => semaphores'[j].valid
  PROVE  CallsFit' /\ SleepersCall'
<1>1. Len(semaphores) \in Nat BY DEF OnceInv, Inv, TypeOK
<1>2. \A j \in 1..Len(semaphores) : j \in 1..Len(semaphores') BY <1>1
<1>3. CallsFit'
  BY <1>2 DEF CallsFit, Undisturbed, OnceInv
<1>4. ASSUME NEW s \in Tracees, Asleep(config[s])
      PROVE  config[s].waiting_object_index \in 1..Len(semaphores)
  BY <1>4 DEF OnceInv, Inv, WaitStatesAgree, SleepersHaveSet, Valid
<1>5. SleepersCall'
  BY <1>4 DEF SleepersCall, Undisturbed, OnceInv
<1> QED BY <1>3, <1>5

(* SETVAL: the difference is entered in the ledger.                        *)
LEMMA SetvalOnce ==
  ASSUME OnceInv, Inv', NEW t \in Tracees, NEW sigsys \in BOOLEAN,
         NEW i \in 1..Len(semaphores), NEW m \in SemNums, NEW val \in SetVals,
         SemctlSetval(t, sigsys, i, m, val)
  PROVE  OnceInv'
<1>1. /\ call' = call /\ semop_sops' = semop_sops /\ CanCall(t)
      /\ SyscallCommon(t, config[t], "OK", sigsys)
      /\ semaphores' = [semaphores EXCEPT ![i].sems[m] = val]
      /\ ledger' = [ledger EXCEPT ![i][m] = @ + (val - semaphores[i].sems[m])]
  BY DEF SemctlSetval
<1>2. Undisturbed /\ ListedOnce' BY <1>1, CallerStep DEF Statuses
<1>3. SemTypeOK /\ SemTypeOK'
  BY InvParts DEF OnceInv, Inv, SemTypeOK, TypeOK, Calls, Ledgers
<1>4. /\ semaphores \in Seq(Slot) /\ ledger \in Seq([SemNums -> Int])
      /\ Len(ledger) = Len(semaphores)
  BY <1>3 DEF SemTypeOK, Ledgers
<1>5. semaphores[i] \in Slot /\ ledger[i] \in [SemNums -> Int]
  BY <1>4
<1>6. semaphores[i].sems \in SemVec BY <1>5 DEF Slot
<1>7. PICK v : v = [semaphores[i].sems EXCEPT ![m] = val]
  OBVIOUS
<1>8. PICK new : new = [semaphores[i] EXCEPT !.sems = v]
  OBVIOUS
<1>9. /\ new.sems = v /\ new.generation = semaphores[i].generation
      /\ new.valid = semaphores[i].valid
  BY <1>5, <1>8 DEF Slot
<1>10. semaphores' = [semaphores EXCEPT ![i] = new] BY <1>1, <1>7, <1>8
<1>11. /\ Len(semaphores') = Len(semaphores) /\ semaphores'[i] = new
       /\ \A j \in 1..Len(semaphores) : j # i => semaphores'[j] = semaphores[j]
       /\ Len(semaphores') \in Nat
  BY <1>4, <1>10
<1>12. \A j \in 1..Len(semaphores) :
         /\ semaphores'[j].generation = semaphores[j].generation
         /\ semaphores'[j].valid = semaphores[j].valid
  BY <1>9, <1>11
<1>13. CallsFit' /\ SleepersCall'
  BY <1>2, <1>11, <1>12, SetsKept
<1>14. ASSUME NEW j \in 1..Len(semaphores), semaphores[j].valid
       PROVE  Balance(j)'
  <2>1. SameWay(j) BY <1>2, <1>12, UndisturbedWay
  <2>2. Balance(j) BY <1>14 DEF OnceInv, Balanced
  <2>3. CASE j # i
    <3>1. semaphores'[j] = semaphores[j] /\ ledger'[j] = ledger[j]
      BY <1>1, <1>4, <1>11, <2>3
    <3> QED BY <1>3, <2>1, <2>2, <3>1, BalanceKept DEF OnceInv
  <2>4. CASE j = i
    <3> SUFFICES ASSUME NEW n \in SemNums
                 PROVE  semaphores'[j].sems[n] = ledger'[j][n] + Owed(j, n)'
      BY DEF Balance
    <3>1. Owed(j, n)' = Owed(j, n) /\ Owed(j, n) \in Int
      BY <1>3, <2>1, OwedKept, OwedType DEF OnceInv
    <3>2. semaphores[i].sems[n] = ledger[i][n] + Owed(j, n)
      BY <2>2, <2>4 DEF Balance
    <3>3. ledger[i][n] \in Int /\ semaphores[i].sems[n] \in Int /\ val \in Int
      <4>1. semaphores[i].sems[n] \in 0..MAX_SEMVAL BY <1>6 DEF SemVec
      <4> QED BY <1>5, <4>1, SemAssumption
    <3>4. semaphores'[i].sems[n] = IF n = m THEN val ELSE semaphores[i].sems[n]
      BY <1>6, <1>7, <1>9, <1>11 DEF SemVec
    <3>5. ledger'[i] = [ledger[i] EXCEPT ![m] = @ + (val - semaphores[i].sems[m])]
      <4>1. PICK z : z = ledger[i][m] + (val - semaphores[i].sems[m])
        OBVIOUS
      <4>2. PICK row : row = [ledger[i] EXCEPT ![m] = z]
        OBVIOUS
      <4>3. ledger' = [ledger EXCEPT ![i] = row] BY <1>1, <4>1, <4>2
      <4>4. ledger'[i] = row BY <1>4, <4>3
      <4> QED BY <4>1, <4>2, <4>4
    <3>6. ledger'[i][n] = IF n = m THEN ledger[i][m] + (val - semaphores[i].sems[m])
                          ELSE ledger[i][n]
      BY <1>5, <3>5
    <3>7. CASE n = m
      <4>1. semaphores'[i].sems[n] = val BY <3>4, <3>7
      <4>2. ledger'[i][n] = ledger[i][n] + (val - semaphores[i].sems[n])
        BY <3>6, <3>7
      <4> QED BY ONLY <2>4, <3>1, <3>2, <3>3, <4>1, <4>2
    <3>8. CASE n # m
      BY <2>4, <3>1, <3>2, <3>4, <3>6, <3>8
    <3> QED BY <3>7, <3>8
  <2> QED BY <2>3, <2>4
<1>15. Balanced' BY <1>11, <1>12, <1>14 DEF Balanced
<1> QED BY <1>2, <1>13, <1>15 DEF OnceInv

(* A slot without a set has nobody's result on its way, nor has a slot     *)
(* that does not exist yet.                                                *)
LEMMA NobodyOwed ==
  ASSUME CallsFit, NEW i, i \in 1..Len(semaphores) => ~semaphores[i].valid
  PROVE  OnItsWay(i) = {}
BY DEF CallsFit, OnItsWay

(* semget: a new set starts at zero, whatever its slot was before.         *)
LEMMA SemgetCreateOnce ==
  ASSUME OnceInv, Inv', NEW t \in Tracees, NEW sigsys \in BOOLEAN,
         NEW key \in Keys, NEW nsems \in 1..MAX_NSEMS,
         SemgetCreate(t, sigsys, key, nsems)
  PROVE  OnceInv'
<1>1. /\ call' = call /\ semop_sops' = semop_sops /\ CanCall(t)
      /\ SyscallCommon(t, config[t], "OK", sigsys)
  BY Zenon DEF SemgetCreate
<1>2. Undisturbed /\ ListedOnce' BY <1>1, CallerStep DEF Statuses
<1>3. SemTypeOK /\ SemTypeOK'
  BY InvParts DEF OnceInv, Inv, SemTypeOK, TypeOK, Calls, Ledgers
<1>4. /\ semaphores \in Seq(Slot) /\ ledger \in Seq([SemNums -> Int])
      /\ Len(ledger) = Len(semaphores) /\ Len(semaphores) \in Nat
  BY <1>3 DEF SemTypeOK, Ledgers
<1>5. PICK i \in 1..(Len(semaphores) + 1) :
        /\ i \in 1..Len(semaphores) =>
             /\ ~semaphores[i].valid
             /\ semaphores'[i].generation = semaphores[i].generation
        /\ i \in 1..Len(semaphores')
        /\ semaphores'[i].sems = ZeroVec /\ ledger'[i] = ZeroVec
        /\ Len(semaphores) <= Len(semaphores')
        /\ \A j \in 1..Len(semaphores') : j # i =>
             /\ j \in 1..Len(semaphores)
             /\ semaphores'[j] = semaphores[j] /\ ledger'[j] = ledger[j]
  <2>1. CASE FreeSlots # {}
    <3>1. PICK i \in FreeSlots :
            /\ semaphores' = [semaphores EXCEPT ![i].key = key,
                                    ![i].valid = TRUE, ![i].sems = ZeroVec,
                                    ![i].nsems = nsems]
            /\ ledger' = [ledger EXCEPT ![i] = ZeroVec]
      <4>1. FreeSlots \subseteq Nat BY DEF FreeSlots
      <4>2. \E i \in FreeSlots : \A j \in FreeSlots : i <= j
        BY <2>1, <4>1, LeastElement
      <4> DEFINE m == CHOOSE i \in FreeSlots : \A j \in FreeSlots : i <= j
      <4>3. m \in FreeSlots BY <4>2
      <4>4. /\ semaphores' = [semaphores EXCEPT ![m].key = key,
                                    ![m].valid = TRUE, ![m].sems = ZeroVec,
                                    ![m].nsems = nsems]
            /\ ledger' = [ledger EXCEPT ![m] = ZeroVec]
        BY <2>1 DEF SemgetCreate
      <4> HIDE DEF m
      <4> QED BY <4>3, <4>4
    <3>2. i \in 1..Len(semaphores) /\ ~semaphores[i].valid
      BY DEF FreeSlots
    <3>3. PICK new : new = [semaphores[i] EXCEPT !.key = key, !.valid = TRUE,
                              !.sems = ZeroVec, !.nsems = nsems]
      OBVIOUS
    <3>4. new.sems = ZeroVec /\ new.generation = semaphores[i].generation
      <4>1. semaphores[i] \in Slot BY <1>4, <3>2
      <4> HIDE DEF ZeroVec
      <4> QED BY <3>3, <4>1 DEF Slot
    <3>5. semaphores' = [semaphores EXCEPT ![i] = new]
      BY <3>1, <3>2, <3>3, <1>4
    <3>6. /\ Len(semaphores') = Len(semaphores) /\ semaphores'[i] = new
          /\ ledger'[i] = ZeroVec
          /\ \A j \in 1..Len(semaphores) : j # i =>
               semaphores'[j] = semaphores[j] /\ ledger'[j] = ledger[j]
      <4> HIDE DEF ZeroVec
      <4>1. PICK z : z = ZeroVec OBVIOUS
      <4>2. ledger' = [ledger EXCEPT ![i] = z] BY <3>1, <4>1
      <4>3. /\ Len(semaphores') = Len(semaphores) /\ semaphores'[i] = new
            /\ \A j \in 1..Len(semaphores) : j # i =>
                 semaphores'[j] = semaphores[j]
        BY <1>4, <3>2, <3>5
      <4>4. /\ ledger'[i] = z
            /\ \A j \in 1..Len(semaphores) : j # i => ledger'[j] = ledger[j]
        BY <1>4, <3>2, <4>2
      <4> QED BY <4>1, <4>3, <4>4
    <3> QED BY <1>4, <3>2, <3>4, <3>6
  <2>2. CASE FreeSlots = {}
    <3>1. PICK new : new = [key |-> key, generation |-> 0, valid |-> TRUE,
                            sems |-> ZeroVec, nsems |-> nsems]
      OBVIOUS
    <3>2. /\ semaphores' = Append(semaphores, new)
          /\ ledger' = Append(ledger, ZeroVec)
      BY <2>2, <3>1 DEF SemgetCreate
    <3>3. new.sems = ZeroVec BY <3>1
    <3>4. PICK i : i = Len(semaphores) + 1 OBVIOUS
    <3>5. /\ i \in 1..(Len(semaphores) + 1) /\ i \notin 1..Len(semaphores)
          /\ Len(semaphores') = Len(semaphores) + 1
          /\ semaphores'[i] = new /\ ledger'[i] = ZeroVec
          /\ \A j \in 1..Len(semaphores) :
               semaphores'[j] = semaphores[j] /\ ledger'[j] = ledger[j]
      BY <1>4, <3>2, <3>4
    <3>6. \A j \in 1..Len(semaphores') : j # i => j \in 1..Len(semaphores)
      BY <1>4, <3>4, <3>5
    <3> QED BY <1>4, <3>3, <3>5, <3>6
  <2> QED BY <2>1, <2>2
<1>6. Len(semaphores') \in Nat BY <1>3 DEF SemTypeOK
<1>7. \A j \in 1..Len(semaphores) :
        /\ semaphores'[j].generation = semaphores[j].generation
        /\ semaphores[j].valid => semaphores'[j].valid
  <2>1. \A j \in 1..Len(semaphores) : j \in 1..Len(semaphores')
    BY <1>4, <1>5, <1>6
  <2> QED BY <1>5, <2>1
<1>8. CallsFit' /\ SleepersCall'
  BY <1>2, <1>5, <1>6, <1>7, SetsKept
<1>9. ASSUME NEW j \in 1..Len(semaphores'), semaphores'[j].valid
      PROVE  Balance(j)'
  <2>1. CASE j = i
    <3>1. OnItsWay(i) = {} BY <1>5, NobodyOwed DEF OnceInv
    <3>2. OnItsWay(i)' = {}
      <4>1. CASE i \in 1..Len(semaphores)
        <5>1. SameWay(i) BY <1>2, <1>5, <4>1, UndisturbedWay
        <5> QED BY <3>1, <5>1 DEF SameWay
      <4>2. CASE i \notin 1..Len(semaphores)
        <5>1. \A s \in Tracees : call[s] # NoCall => call[s].index # i
          BY <4>2 DEF OnceInv, CallsFit
        <5> QED BY <1>1, <5>1 DEF OnItsWay
      <4> QED BY <4>1, <4>2
    <3>3. semaphores'[i].sems = ZeroVec /\ ledger'[i] = ZeroVec BY <1>5
    <3>4. ZeroVec' = ZeroVec BY DEF ZeroVec
    <3>5. Balance(i)'
      <4>1. ASSUME NEW n PROVE Owed(i, n)' = 0
        <5>1. IsFiniteSet({}) BY FS_EmptySet
        <5>2. IntOn(Share(n)', {}) BY DEF IntOn
        <5>3. SumOver(Share(n)', {}) = 0 BY <5>1, <5>2, SumType
        <5> QED BY <3>2, <5>3 DEF Owed
      <4>2. \A n \in SemNums : ZeroVec[n] = 0 BY DEF ZeroVec
      <4> HIDE DEF ZeroVec
      <4> QED BY <3>3, <4>1, <4>2 DEF Balance
    <3> QED BY <2>1, <3>5
  <2>2. CASE j # i
    <3>1. /\ j \in 1..Len(semaphores) /\ semaphores'[j] = semaphores[j]
          /\ ledger'[j] = ledger[j]
      BY <1>5, <2>2
    <3>2. SameWay(j) BY <1>2, <3>1, UndisturbedWay
    <3>3. Balance(j) BY <1>9, <3>1 DEF OnceInv, Balanced
    <3> QED BY <1>3, <3>1, <3>2, <3>3, BalanceKept DEF OnceInv
  <2> QED BY <2>1, <2>2
<1>10. Balanced' BY <1>9 DEF Balanced
<1> QED BY <1>2, <1>8, <1>10 DEF OnceInv

(* IPC_RMID: nobody it wakes is owed anything, and the slot's next set     *)
(* has a generation nobody waits for.                                      *)
LEMMA RmidOnce ==
  ASSUME OnceInv, Inv', NEW t \in Tracees, NEW sigsys \in BOOLEAN,
         NEW i \in 1..Len(semaphores), SemctlRmid(t, sigsys, i)
  PROVE  OnceInv'
<1> DEFINE W == SleepersOn(i)
           verdict == [w \in W |-> "EIDRM"]
<1>1. /\ CanCall(t) /\ Valid(i)
      /\ CommonAndWake(t, config[t], "OK", sigsys, W, verdict)
      /\ semaphores' = [semaphores EXCEPT ![i].valid = FALSE,
                                          ![i].generation = @ + 1,
                                          ![i].sems = ZeroVec]
      /\ ledger' = [ledger EXCEPT ![i] = ZeroVec]
      /\ semop_sops' = semop_sops /\ call' = call
  BY Zenon DEF SemctlRmid
<1>2. IpcInv /\ SemTypeOK /\ SemTypeOK'
  BY InvParts DEF OnceInv, Inv, SemTypeOK, TypeOK, Calls, Ledgers
<1>3. /\ W \in SUBSET Tracees
      /\ \A w \in W : WaitsFor(w, i)
      /\ \A w \in W : verdict[w] = "EIDRM"
  <2>1. tracees \in Seq(Tracees) BY <1>2 DEF IpcInv, IpcTypeOK
  <2> QED BY <2>1 DEF SleepersOn
<1>4. PICK c : c = config[t]
  OBVIOUS
<1>5. HandlerConfig(c) /\ c.wait_reason = "WR_NOT_WAITING"
  BY <1>1, <1>2, <1>4, CallerConfig
<1>6. PICK d, a : d = CommonConfig(c, "OK", sigsys) /\ a = CommonAt(c, sigsys)
  OBVIOUS
<1>7. ~Asleep(d) /\ a \in {"user", "rewound", "kernel"}
  BY <1>5, <1>6, CommonFacts DEF Statuses
<1> HIDE DEF W, verdict
<1>8. /\ config' = [s \in Tracees |->
                      IF s = t THEN d
                      ELSE IF s \in W THEN WakeConfig(config[s], verdict[s])
                      ELSE config[s]]
      /\ at' = [at EXCEPT ![t] = a] /\ tracees' = tracees
  BY <1>1, <1>4, <1>6 DEF CommonAndWake
<1>9. call[t] = NoCall /\ at[t] = "user"
  <2>1. at[t] = "user" BY <1>1 DEF CanCall
  <2> QED BY <2>1, CallerIdle DEF OnceInv
<1>10. /\ config'[t] = d
       /\ \A s \in Tracees : s # t /\ s \notin W => config'[s] = config[s]
  BY <1>8
<1>11. ASSUME NEW w \in W, w # t
       PROVE  /\ ~Asleep(config'[w]) /\ config'[w].status_after_wait = "EIDRM"
              /\ config'[w].wait_state # "WSTATE_NOT_WAITING"
  <2>1. config[w] \in Configs BY <1>2, <1>3 DEF IpcInv, IpcTypeOK
  <2>2. config'[w] = WakeConfig(config[w], "EIDRM") BY <1>3, <1>8, <1>11
  <2>3. ~Asleep(config'[w]) /\ config'[w].wait_state # "WSTATE_NOT_WAITING"
    BY <2>1, <2>2, WakeFacts DEF Statuses
  <2>4. config'[w].status_after_wait = "EIDRM"
    BY <2>1, <2>2 DEF WakeConfig, Configs
  <2> QED BY <2>3, <2>4
<1>12. ASSUME NEW w \in W PROVE Asleep(config[w]) /\ call[w].index = i
  <2>1. config[w].wait_reason = "WR_WAIT_SEMOP" /\ config[w].waiting_object_index = i
    BY <1>3 DEF WaitsFor
  <2>2. Asleep(config[w]) BY <1>2, <1>3, <2>1 DEF IpcInv, WaitStatesAgree
  <2> QED BY <1>3, <2>1, <2>2 DEF OnceInv, SleepersCall
<1>13. \A s \in Tracees : Asleep(config'[s]) =>
         s # t /\ s \notin W /\ config'[s] = config[s]
  BY <1>7, <1>10, <1>11
<1>14. /\ semaphores \in Seq(Slot) /\ ledger \in Seq([SemNums -> Int])
       /\ Len(ledger) = Len(semaphores) /\ Len(semaphores) \in Nat
  BY <1>2 DEF SemTypeOK, Ledgers
<1>15. PICK g \in Nat : g = semaphores[i].generation
  <2>1. semaphores[i] \in Slot BY <1>14
  <2> QED BY <2>1, SemAssumption DEF Slot
<1>16. /\ Len(semaphores') = Len(semaphores) /\ ~semaphores'[i].valid
       /\ semaphores'[i].generation = g + 1
       /\ \A j \in 1..Len(semaphores) : j # i =>
            semaphores'[j] = semaphores[j] /\ ledger'[j] = ledger[j]
  <2>1. PICK new : new = [semaphores[i] EXCEPT !.valid = FALSE, !.generation = @ + 1,
                                               !.sems = ZeroVec]
    OBVIOUS
  <2>2. semaphores' = [semaphores EXCEPT ![i] = new] BY <1>1, <1>14, <2>1
  <2>3. ~new.valid /\ new.generation = g + 1
    <3>1. semaphores[i] \in Slot BY <1>14
    <3> HIDE DEF ZeroVec
    <3> QED BY <1>15, <2>1, <3>1 DEF Slot
  <2>4. /\ Len(semaphores') = Len(semaphores) /\ semaphores'[i] = new
        /\ \A j \in 1..Len(semaphores) : j # i => semaphores'[j] = semaphores[j]
    BY <1>14, <2>2
  <2>5. \A j \in 1..Len(semaphores) : j # i => ledger'[j] = ledger[j]
    BY <1>1, <1>14
  <2> QED BY <2>3, <2>4, <2>5
<1>17. ListedOnce'
  <2>1. \A s \in Tracees : at[s] # "none" => at'[s] # "none"
    BY <1>2, <1>7, <1>8 DEF IpcInv, IpcTypeOK
  <2> QED BY <1>8, <2>1, ListKept DEF OnceInv
<1>18. CallsFit'
  <2> SUFFICES ASSUME NEW s \in Tracees, call[s] # NoCall
               PROVE  \E j : /\ j = call[s].index
                             /\ config'[s].wait_state # "WSTATE_NOT_WAITING"
                             /\ j \in 1..Len(semaphores)
                             /\ call[s].generation <= semaphores'[j].generation
                             /\ call[s].generation = semaphores'[j].generation =>
                                  semaphores'[j].valid
    BY <1>1, <1>16 DEF CallsFit
  <2>1. PICK j : /\ j = call[s].index /\ j \in 1..Len(semaphores)
                 /\ config[s].wait_state # "WSTATE_NOT_WAITING"
                 /\ call[s].generation <= semaphores[j].generation
                 /\ call[s].generation = semaphores[j].generation => semaphores[j].valid
    BY DEF OnceInv, CallsFit
  <2>2. config'[s].wait_state # "WSTATE_NOT_WAITING"
    BY <1>9, <1>10, <1>11, <2>1
  <2>3. CASE j = i
    <3>1. call[s].generation \in Nat
      <4>1. call[s] \in Calls BY <1>2 DEF SemTypeOK
      <4> QED BY <4>1 DEF Calls
    <3>2. call[s].generation <= g + 1 /\ call[s].generation # g + 1
      BY <1>15, <2>1, <2>3, <3>1
    <3> QED BY <1>16, <2>1, <2>2, <2>3, <3>2
  <2>4. CASE j # i
    BY <1>16, <2>1, <2>2, <2>4
  <2> QED BY <2>3, <2>4
<1>19. SleepersCall'
  <2> SUFFICES ASSUME NEW s \in Tracees, Asleep(config'[s])
               PROVE  LET j == config'[s].waiting_object_index
                      IN  /\ call[s].index = j
                          /\ call[s].generation = semaphores'[j].generation
                          /\ call[s].sops = semop_sops[s]
    BY <1>1 DEF SleepersCall
  <2>1. s \notin W /\ config'[s] = config[s] BY <1>13
  <2>2. PICK j : j = config[s].waiting_object_index OBVIOUS
  <2>3. /\ config[s].wait_reason = "WR_WAIT_SEMOP"
        /\ Asleep(config[s])
    BY <1>2, <2>1 DEF IpcInv, WaitStatesAgree
  <2>4. j \in 1..Len(semaphores)
    BY <2>2, <2>3 DEF OnceInv, Inv, SleepersHaveSet, Valid
  <2>5. j # i
    <3>1. at[s] # "none"
      BY <1>2, <2>3 DEF IpcInv, WaitStatesAgree, Asleep
    <3>2. PICK k \in 1..Len(tracees) : tracees[k] = s
      BY <1>2, <3>1 DEF IpcInv, EveryoneListed
    <3>3. ~WaitsFor(s, i) BY <2>1, <3>2 DEF W, SleepersOn
    <3> QED BY <2>2, <2>3, <3>3 DEF WaitsFor
  <2> QED BY <1>16, <2>1, <2>2, <2>3, <2>4, <2>5 DEF OnceInv, SleepersCall
<1>20. ASSUME NEW j \in 1..Len(semaphores), j # i, semaphores[j].valid
       PROVE  Balance(j)'
  <2>1. semaphores'[j] = semaphores[j] /\ ledger'[j] = ledger[j]
    BY <1>16, <1>20
  <2>2. ASSUME NEW s \in Tracees, call[s] # NoCall, call[s].index = j
        PROVE  config'[s] = config[s]
    BY <1>9, <1>10, <1>12, <1>20, <2>2
  <2>3. SameWay(j) BY <1>1, <2>1, <2>2 DEF SameWay, OnItsWay
  <2>4. Balance(j) BY <1>20 DEF OnceInv, Balanced
  <2> QED BY <1>2, <2>1, <2>3, <2>4, BalanceKept DEF OnceInv
<1>21. Balanced'
  BY <1>16, <1>20 DEF Balanced
<1> QED BY <1>17, <1>18, <1>19, <1>21 DEF OnceInv

(* What the caller gets is what was decided for it.                        *)
Decided(t, status) ==
  call[t] # NoCall =>
    (status = "OK" <=> ~Asleep(config[t]) /\ config[t].status_after_wait = "OK")

(* The step is about tracee t alone, whose wait is over.                   *)
Alone(t) ==
  /\ semaphores' = semaphores
  /\ config'[t].wait_state = "WSTATE_NOT_WAITING"
  /\ \A s \in Tracees : s # t =>
       config'[s] = config[s] /\ semop_sops'[s] = semop_sops[s]

(* A result that arrives moves from what is owed to the ledger.            *)
LEMMA ReturnsOnce ==
  ASSUME OnceInv, Inv', NEW t \in Tracees, NEW status, Returns(t, status),
         Decided(t, status), Alone(t)
  PROVE  CallsFit' /\ SleepersCall' /\ Balanced'
<1>1. SemTypeOK /\ SemTypeOK'
  BY InvParts DEF OnceInv, Inv, SemTypeOK, TypeOK, Calls, Ledgers
<1>2. /\ call'[t] = NoCall /\ \A s \in Tracees : s # t => call'[s] = call[s]
      /\ ledger' = Settled(ledger, call[t], status)
  <2> HIDE DEF NoCall
  <2> QED BY <1>1 DEF SemTypeOK, Returns
<1>3. CallsFit'
  BY <1>2 DEF OnceInv, CallsFit, Alone
<1>4. SleepersCall'
  BY <1>2 DEF OnceInv, SleepersCall, Alone, Asleep
<1>5. ASSUME NEW j \in 1..Len(semaphores), semaphores[j].valid PROVE Balance(j)'
  <2>1. Balance(j) BY <1>5 DEF OnceInv, Balanced
  <2>2. /\ ledger \in Seq([SemNums -> Int]) /\ Len(ledger) = Len(semaphores)
        /\ ledger[j] \in [SemNums -> Int] /\ semaphores[j].sems \in SemVec
    <3>1. semaphores[j] \in Slot BY <1>1 DEF SemTypeOK
    <3> QED BY <1>1, <3>1 DEF SemTypeOK, Ledgers, Slot
  <2>3. CASE t \in OnItsWay(j)
    <3>1. /\ call[t] # NoCall /\ call[t].index = j /\ status = "OK"
          /\ call[t].generation = semaphores[j].generation
      BY <2>3 DEF OnItsWay, Decided
    <3>2. PICK S \in SUBSET Tracees : S = OnItsWay(j) \ {t} /\ IsFiniteSet(S)
      <4>1. IsFiniteSet(OnItsWay(j)) /\ OnItsWay(j) \in SUBSET Tracees
        BY WayFinite DEF OnceInv
      <4>2. IsFiniteSet(OnItsWay(j) \ {t}) BY <4>1, FS_RemoveElement
      <4> QED BY <4>1, <4>2
    <3>3. OnItsWay(j)' = S
      <4>1. \A s \in Tracees : s # t => (s \in OnItsWay(j)' <=> s \in OnItsWay(j))
        BY <1>2 DEF OnItsWay, Alone
      <4>2. t \notin OnItsWay(j)' BY <1>2 DEF OnItsWay
      <4>3. OnItsWay(j)' \subseteq Tracees BY DEF OnItsWay
      <4>4. PICK R : R = OnItsWay(j)' OBVIOUS
      <4> QED BY ONLY <3>2, <4>1, <4>2, <4>3, <4>4
    <3> SUFFICES ASSUME NEW n \in SemNums
                 PROVE  semaphores'[j].sems[n] = ledger'[j][n] + Owed(j, n)'
      BY DEF Balance
    <3>4. PICK x \in Int : x = Delta(call[t].sops, n)
      <4>1. call[t].sops \in Seq(Sembuf) BY <1>1, SopsTyped DEF SemTypeOK, Calls
      <4> QED BY <4>1, DeltaType
    <3>5. Owed(j, n) = SumOver(Share(n), S) + x
      <4>1. S \cup {t} = OnItsWay(j) /\ t \notin S BY <2>3, <3>2
      <4>2. IntOn(Share(n), S \cup {t}) BY <1>1, ShareType
      <4>3. SumOver(Share(n), S \cup {t}) = SumOver(Share(n), S) + Share(n)[t]
        BY <3>2, <4>1, <4>2, SumAdd
      <4>4. Share(n)[t] = x BY <3>4 DEF Share
      <4> QED BY <4>1, <4>3, <4>4 DEF Owed
    <3>6. PICK y \in Int : y = SumOver(Share(n), S)
      <4>1. IntOn(Share(n), S) BY <1>1, ShareType
      <4> QED BY <3>2, <4>1, SumType
    <3>7. Owed(j, n)' = y
      <4>1. \A s \in S : call'[s] = call[s] BY <1>2, <3>2
      <4>2. SumOver(Share(n)', S) = y BY <1>1, <3>2, <3>6, <4>1, SumKept
      <4> QED BY <3>3, <4>2 DEF Owed
    <3>8. ledger'[j][n] = ledger[j][n] + x
      <4>1. PICK row : row = [m \in SemNums |-> ledger[j][m] + Delta(call[t].sops, m)]
        OBVIOUS
      <4>2. ledger' = [ledger EXCEPT ![j] = row]
        BY <1>2, <1>5, <3>1, <4>1 DEF Settled, Valid
      <4>3. ledger'[j] = row BY <2>2, <4>2
      <4> QED BY <3>4, <4>1, <4>3
    <3>9. semaphores[j].sems[n] = ledger[j][n] + Owed(j, n) /\ ledger[j][n] \in Int
      BY <2>1, <2>2 DEF Balance
    <3>10. semaphores'[j].sems[n] = semaphores[j].sems[n] BY DEF Alone
    <3> QED BY ONLY <3>5, <3>6, <3>7, <3>8, <3>9, <3>10
  <2>4. CASE t \notin OnItsWay(j)
    <3>1. ledger'[j] = ledger[j]
      <4> SUFFICES ASSUME ledger'[j] # ledger[j] PROVE FALSE
        OBVIOUS
      <4>1. /\ status = "OK" /\ call[t] # NoCall /\ Valid(call[t].index)
            /\ semaphores[call[t].index].generation = call[t].generation
        BY <1>2 DEF Settled
      <4>2. call[t].index # j BY <2>4, <4>1 DEF OnItsWay, Decided
      <4>3. PICK i, row : ledger' = [ledger EXCEPT ![i] = row] /\ i = call[t].index
        BY <1>2, <4>1 DEF Settled
      <4> QED BY <2>2, <4>2, <4>3
    <3>2. SameWay(j)
      <4>1. \A s \in Tracees : s \in OnItsWay(j)' <=> s \in OnItsWay(j)
        BY <1>2, <2>4 DEF OnItsWay, Alone
      <4>2. OnItsWay(j)' \subseteq Tracees /\ OnItsWay(j) \subseteq Tracees
        BY DEF OnItsWay
      <4>3. OnItsWay(j)' = OnItsWay(j)
        <5>1. PICK R, Q : R = OnItsWay(j)' /\ Q = OnItsWay(j) OBVIOUS
        <5> QED BY ONLY <4>1, <4>2, <5>1
      <4> QED BY <1>2, <2>4, <4>2, <4>3 DEF SameWay
    <3>3. semaphores'[j].sems = semaphores[j].sems BY DEF Alone
    <3> QED BY <1>1, <2>1, <3>1, <3>2, <3>3, BalanceKept DEF OnceInv
  <2> QED BY <2>3, <2>4
<1>6. Balanced' BY <1>5 DEF Balanced, Alone
<1> QED BY <1>3, <1>4, <1>6

(* The stops that answer a call.                                           *)
LEMMA AnswersOnce ==
  ASSUME OnceInv, Inv', NEW t \in Tracees,
         StartCanceled(t) \/ EndPpoll(t) \/ EndStatus(t)
  PROVE  OnceInv'
<1>1. IpcInv /\ SemTypeOK BY InvParts DEF OnceInv
<1>2. /\ config \in [Tracees -> Configs] /\ at \in [Tracees -> Locations]
      /\ semop_sops \in [Tracees -> SopsArgs \cup {<<>>}]
  BY <1>1 DEF IpcInv, IpcTypeOK, SemTypeOK
<1>3. /\ tracees' = tracees
      /\ \A s \in Tracees : at[s] # "none" => at'[s] # "none"
  BY <1>2 DEF StartCanceled, EndPpoll, EndStatus, EnterCanceled, ExitPpoll, ExitStatus
<1>4. ListedOnce' BY <1>3, ListKept DEF OnceInv
<1>5. PICK status, c :
        /\ Returns(t, status) /\ Decided(t, status)
        /\ config' = [config EXCEPT ![t] = c]
        /\ c.wait_state = "WSTATE_NOT_WAITING"
        /\ semaphores' = semaphores
        /\ \A s \in Tracees : s # t => semop_sops'[s] = semop_sops[s]
  <2>0. config[t] \in Configs BY <1>2
  <2>1. CASE StartCanceled(t)
    <3>1. PICK c : c = [config[t] EXCEPT !.wait_state = "WSTATE_NOT_WAITING"]
      OBVIOUS
    <3>2. c.wait_state = "WSTATE_NOT_WAITING" BY <2>0, <3>1 DEF Configs
    <3>3. /\ config' = [config EXCEPT ![t] = c]
          /\ semaphores' = semaphores /\ semop_sops' = semop_sops
          /\ Returns(t, config[t].status_after_wait)
      BY <2>1, <3>1 DEF StartCanceled, EnterCanceled
    <3>4. Decided(t, config[t].status_after_wait)
      BY <2>1 DEF Decided, StartCanceled, EnterCanceled, Asleep
    <3> QED BY <3>2, <3>3, <3>4
  <2>2. CASE EndPpoll(t)
    <3>1. PICK c : c = [config[t] EXCEPT !.wait_state = "WSTATE_NOT_WAITING",
                                         !.wait_reason = "WR_NOT_WAITING"]
      OBVIOUS
    <3>2. c.wait_state = "WSTATE_NOT_WAITING" BY <2>0, <3>1 DEF Configs
    <3>3. /\ config' = [config EXCEPT ![t] = c]
          /\ semaphores' = semaphores /\ Returns(t, "EINTR")
          /\ \A s \in Tracees : s # t => semop_sops'[s] = semop_sops[s]
      BY <1>2, <2>2, <3>1 DEF EndPpoll, ExitPpoll
    <3>4. Decided(t, "EINTR")
      BY <2>2 DEF Decided, EndPpoll, ExitPpoll, Asleep
    <3> QED BY <3>2, <3>3, <3>4
  <2>3. CASE EndStatus(t)
    <3>1. PICK c : c = [config[t] EXCEPT !.wait_state = "WSTATE_NOT_WAITING"]
      OBVIOUS
    <3>2. c.wait_state = "WSTATE_NOT_WAITING" BY <2>0, <3>1 DEF Configs
    <3>3. /\ config' = [config EXCEPT ![t] = c]
          /\ semaphores' = semaphores /\ semop_sops' = semop_sops
          /\ Returns(t, config[t].status_after_wait)
      BY <2>3, <3>1 DEF EndStatus, ExitStatus
    <3>4. Decided(t, config[t].status_after_wait)
      BY <2>3 DEF Decided, EndStatus, ExitStatus, Asleep
    <3> QED BY <3>2, <3>3, <3>4
  <2> QED BY <2>1, <2>2, <2>3
<1>6. Alone(t) BY <1>2, <1>5 DEF Alone
<1>7. CallsFit' /\ SleepersCall' /\ Balanced' BY <1>5, <1>6, ReturnsOnce
<1> QED BY <1>4, <1>7 DEF OnceInv

(* Reaping answers the call of the dead.                                   *)
LEMMA ReapOnce ==
  ASSUME OnceInv, Inv', NEW t \in Tracees, ReapTracee(t)
  PROVE  OnceInv'
<1>1. /\ config \in [Tracees -> Configs] /\ at \in [Tracees -> Locations]
      /\ semop_sops \in [Tracees -> SopsArgs \cup {<<>>}]
      /\ tracees \in Seq(Tracees)
  BY DEF OnceInv, Inv, TypeOK, IpcTypeOK
<1>2. PICK k \in 1..Len(tracees) :
        /\ tracees[k] = t
        /\ tracees' = SubSeq(tracees, 1, k - 1)
                        \o SubSeq(tracees, k + 1, Len(tracees))
  BY DEF ReapTracee, Reap
<1>3. PICK status :
        /\ status = IF Asleep(config[t]) THEN "EINTR" ELSE config[t].status_after_wait
        /\ Returns(t, status)
        /\ at' = [at EXCEPT ![t] = "none"]
        /\ config' = [config EXCEPT ![t] = ZeroConfig]
        /\ semaphores' = semaphores
        /\ semop_sops' = [semop_sops EXCEPT ![t] = <<>>]
  BY DEF ReapTracee, Reap
<1>4. Decided(t, status) BY <1>3 DEF Decided
<1>5. Alone(t)
  <2>1. ZeroConfig.wait_state = "WSTATE_NOT_WAITING" BY ZeroConfigFacts
  <2> HIDE DEF ZeroConfig
  <2> QED BY <1>1, <1>3, <2>1 DEF Alone
<1>6. CallsFit' /\ SleepersCall' /\ Balanced' BY <1>3, <1>4, <1>5, ReturnsOnce
<1>7. ListedOnce'
  <2>1. PICK n \in Nat : n = Len(tracees) BY <1>1
  <2>2. /\ Len(tracees') = n - 1 /\ k \in 1..n
        /\ \A j \in 1..(k - 1) : tracees'[j] = tracees[j]
        /\ \A j \in k..(n - 1) : tracees'[j] = tracees[j + 1]
    BY <1>1, <1>2, <2>1, UnlinkedList
  <2>3. \A i, j \in 1..n : tracees[i] = tracees[j] => i = j
    BY <2>1 DEF OnceInv, ListedOnce
  <2>4. \A j \in 1..n : tracees[j] \in Tracees /\ at[tracees[j]] # "none"
    BY <1>1, <2>1 DEF OnceInv, ListedOnce
  <2> DEFINE f(j) == IF j < k THEN j ELSE j + 1
  <2>5. \A j \in 1..(n - 1) :
          f(j) \in 1..n /\ f(j) # k /\ tracees'[j] = tracees[f(j)]
    <3> SUFFICES ASSUME NEW j \in 1..(n - 1)
                 PROVE  f(j) \in 1..n /\ f(j) # k /\ tracees'[j] = tracees[f(j)]
      OBVIOUS
    <3>1. CASE j < k
      <4>1. j \in 1..(k - 1) /\ j \in 1..n BY <2>1, <2>2, <3>1
      <4> QED BY <2>2, <3>1, <4>1
    <3>2. CASE ~(j < k)
      <4>1. j \in k..(n - 1) /\ j + 1 \in 1..n /\ j + 1 # k BY <2>1, <2>2, <3>2
      <4> QED BY <2>2, <3>2, <4>1
    <3> QED BY <3>1, <3>2
  <2>6. \A i, j \in 1..(n - 1) : f(i) = f(j) => i = j
    BY <2>1, <2>2
  <2> HIDE DEF f
  <2>7. ASSUME NEW i \in 1..(n - 1), NEW j \in 1..(n - 1), tracees'[i] = tracees'[j]
        PROVE  i = j
    <3>1. tracees[f(i)] = tracees[f(j)] BY <2>5, <2>7
    <3>2. f(i) = f(j) BY <2>3, <2>5, <3>1
    <3> QED BY <2>6, <3>2
  <2>8. ASSUME NEW j \in 1..(n - 1) PROVE at'[tracees'[j]] # "none"
    <3>1. f(j) \in 1..n /\ f(j) # k /\ tracees'[j] = tracees[f(j)] BY <2>5
    <3>2. tracees[f(j)] # t BY <1>2, <2>2, <2>3, <3>1
    <3>3. at'[tracees[f(j)]] = at[tracees[f(j)]] BY <1>1, <1>3, <2>4, <3>1, <3>2
    <3> QED BY <2>4, <3>1, <3>3
  <2> QED BY <2>2, <2>7, <2>8 DEF ListedOnce
<1> QED BY <1>6, <1>7 DEF OnceInv

(* The callers whose success is on its way after the wake-up loop has      *)
(* passed the first m tracees.                                             *)
Woken(pass, i, m) ==
  OnItsWay(i) \cup {tracees[k] : k \in {k \in 1..m : pass[k].status = "OK"}}

(* Each sleeper the loop lets go on has its operations added once.         *)
LEMMA PassSum ==
  ASSUME OnceInv, NEW i, NEW caller, NEW v \in SemVec, NEW pass,
         PassDecides(pass, caller, i), PassRuns(pass, v, caller, i),
         SleepersFit(i), NEW x \in SemNums, NEW m \in 0..Len(tracees)
  PROVE  /\ IsFiniteSet(Woken(pass, i, m)) /\ Woken(pass, i, m) \in SUBSET Tracees
         /\ pass[m].sems[x] + Owed(i, x) = v[x] + SumOver(Share(x), Woken(pass, i, m))
<1> DEFINE S == {k \in 0..Len(tracees) :
                   /\ IsFiniteSet(Woken(pass, i, k))
                   /\ pass[k].sems[x] + Owed(i, x) =
                        v[x] + SumOver(Share(x), Woken(pass, i, k))}
<1>1. PICK n \in Nat : n = Len(tracees)
  BY DEF OnceInv, Inv, TypeOK, IpcTypeOK
<1>2. \A k \in 1..n : tracees[k] \in Tracees
  BY <1>1 DEF OnceInv, Inv, TypeOK, IpcTypeOK
<1>3. SemTypeOK BY InvParts DEF OnceInv
<1>4. IsFiniteSet(OnItsWay(i)) /\ OnItsWay(i) \in SUBSET Tracees
  BY WayFinite DEF OnceInv
<1>5. \A k \in 0..n : Woken(pass, i, k) \in SUBSET Tracees
  BY <1>1, <1>2, <1>4 DEF Woken
<1>6. Owed(i, x) \in Int BY OwedType DEF OnceInv
<1>7. ASSUME NEW u \in SemVec PROVE u[x] \in Int
  <2>1. u[x] \in 0..MAX_SEMVAL BY <1>7 DEF SemVec
  <2> QED BY <2>1, SemAssumption
<1>8. 0 \in S
  <2>1. Woken(pass, i, 0) = OnItsWay(i) BY DEF Woken
  <2>2. pass[0].sems = v BY DEF PassRuns
  <2>3. v[x] \in Int BY <1>7
  <2>4. pass[0].sems[x] + Owed(i, x) = v[x] + SumOver(Share(x), Woken(pass, i, 0))
    BY <2>1, <2>2, <2>3 DEF Owed
  <2> QED BY <1>1, <1>4, <2>1, <2>4
<1>9. ASSUME NEW k \in 1..n, k - 1 \in S PROVE k \in S
  <2>1. /\ k \in 0..n /\ k - 1 \in 0..n /\ tracees[k] \in Tracees
    BY <1>1, <1>2
  <2>2. /\ IsFiniteSet(Woken(pass, i, k - 1))
        /\ pass[k - 1].sems[x] + Owed(i, x) =
             v[x] + SumOver(Share(x), Woken(pass, i, k - 1))
    BY <1>9
  <2>3. pass[k - 1].sems \in SemVec
    BY <1>1, <2>1 DEF PassDecides, Outcome
  <2>4. 1..k = (1..(k - 1)) \cup {k}
    OBVIOUS
  <2>5. CASE pass[k].status # "OK" /\ pass[k].sems[x] = pass[k - 1].sems[x]
    <3>1. Woken(pass, i, k) = Woken(pass, i, k - 1)
      BY <2>4, <2>5 DEF Woken
    <3> QED BY <1>1, <2>1, <2>2, <2>5, <3>1
  <2>6. CASE tracees[k] # caller /\ WaitsFor(tracees[k], i)
    <3>1. PICK w \in Tracees : w = tracees[k] BY <2>1
    <3>2. PICK z : z = semop_sops[w] OBVIOUS
    <3>3. z \in Seq(Sembuf) /\ InRange(z) BY <2>6, <3>1, <3>2 DEF SleepersFit
    <3>4. pass[k] = SemCheck(pass[k - 1].sems, z)
      BY <1>1, <2>6, <3>1, <3>2 DEF PassRuns
    <3>5. pass[k].sems[x] =
            pass[k - 1].sems[x] + IF pass[k].status = "OK" THEN Delta(z, x) ELSE 0
      BY <2>3, <3>3, <3>4, SemCheckAdds
    <3>6. pass[k - 1].sems[x] \in Int /\ Delta(z, x) \in Int
      BY <1>7, <2>3, <3>3, DeltaType
    <3>7. CASE pass[k].status = "OK"
      <4>1. Asleep(config[w]) /\ call[w].sops = z
        <5>1. Asleep(config[w])
          BY <2>6, <3>1 DEF WaitsFor, OnceInv, Inv, WaitStatesAgree
        <5> QED BY <3>2, <5>1 DEF OnceInv, SleepersCall
      <4>2. Share(x)[w] = Delta(z, x) BY <4>1 DEF Share
      <4>3. Woken(pass, i, k) = Woken(pass, i, k - 1) \cup {w}
        BY <2>4, <3>1, <3>7 DEF Woken
      <4>4. w \notin Woken(pass, i, k - 1)
        <5>1. w \notin OnItsWay(i) BY <4>1 DEF OnItsWay
        <5>2. \A j \in 1..(k - 1) : tracees[j] # w
          <6>1. \A j \in 1..n : tracees[j] = tracees[k] => j = k
            BY <1>1 DEF OnceInv, ListedOnce
          <6>2. \A j \in 1..(k - 1) : j \in 1..n /\ j # k BY <1>1
          <6> QED BY <3>1, <6>1, <6>2
        <5> QED BY <5>1, <5>2 DEF Woken
      <4>5. Woken(pass, i, k - 1) \cup {w} \in SUBSET Tracees BY <1>5, <2>1
      <4>6. IntOn(Share(x), Woken(pass, i, k - 1) \cup {w})
        BY <1>3, <4>5, ShareType
      <4>7. /\ IsFiniteSet(Woken(pass, i, k - 1) \cup {w})
            /\ SumOver(Share(x), Woken(pass, i, k - 1) \cup {w}) =
                 SumOver(Share(x), Woken(pass, i, k - 1)) + Share(x)[w]
        BY <2>2, <4>4, <4>6, SumAdd
      <4>8. SumOver(Share(x), Woken(pass, i, k - 1)) \in Int
        <5>1. IntOn(Share(x), Woken(pass, i, k - 1)) BY <1>3, <1>5, <2>1, ShareType
        <5> QED BY <2>2, <5>1, SumType
      <4>9. pass[k].sems[x] = pass[k - 1].sems[x] + Delta(z, x) BY <3>5, <3>7
      <4>10. SumOver(Share(x), Woken(pass, i, k)) =
               SumOver(Share(x), Woken(pass, i, k - 1)) + Delta(z, x)
        BY <4>2, <4>3, <4>7
      <4>11. PICK b, o, u, y, q \in Int :
               /\ b = pass[k - 1].sems[x] /\ o = Owed(i, x) /\ u = v[x]
               /\ y = SumOver(Share(x), Woken(pass, i, k - 1)) /\ q = Delta(z, x)
        <5>1. v[x] \in Int BY <1>7
        <5> QED BY <1>6, <3>6, <4>8, <5>1
      <4>12. b + o = u + y BY <2>2, <4>11
      <4>13. (b + q) + o = u + (y + q) BY ONLY <4>12, b \in Int, o \in Int,
                                             u \in Int, y \in Int, q \in Int
      <4>14. pass[k].sems[x] + Owed(i, x) =
               v[x] + SumOver(Share(x), Woken(pass, i, k))
        BY <4>9, <4>10, <4>11, <4>13
      <4> QED BY <1>1, <2>1, <4>3, <4>7, <4>14
    <3>8. CASE pass[k].status # "OK"
      <4>1. pass[k].sems[x] = pass[k - 1].sems[x] BY <3>5, <3>6, <3>8
      <4> QED BY <2>5, <3>8, <4>1
    <3> QED BY <3>7, <3>8
  <2>7. CASE ~(tracees[k] # caller /\ WaitsFor(tracees[k], i))
    <3>1. pass[k] = [status |-> "WAIT", sems |-> pass[k - 1].sems]
      BY <1>1, <2>7 DEF PassRuns
    <3> QED BY <2>5, <3>1
  <2> QED BY <2>6, <2>7
<1>10. m \in S
  <2> HIDE DEF S
  <2>1. \A k \in 0..n : k \in S BY <1>8, <1>9, UpTo
  <2> QED BY <1>1, <2>1
<1> QED BY <1>1, <1>5, <1>10

(* What the caller of semop is left with: asleep, answered at once, or     *)
(* with its result on its way.                                             *)
LEMMA SemopCaller ==
  ASSUME NEW c, HandlerConfig(c), NEW status \in Statuses, NEW sigsys \in BOOLEAN
  PROVE  LET d == CommonConfig(c, status, sigsys)
         IN  /\ d.waiting_object_index = c.waiting_object_index
             /\ Asleep(d) <=> c.wait_reason = "WR_WAIT_SEMOP"
             /\ Asleep(d) \/ ~sigsys => d.wait_state # "WSTATE_NOT_WAITING"
             /\ ~Asleep(d) /\ ~sigsys => d.status_after_wait = status
BY DEF HandlerConfig, CommonConfig, Configs, Asleep

(* semop: what the caller and those it wakes change is in the ledger or    *)
(* on its way, each exactly once.                                          *)
LEMMA SemopOnce ==
  ASSUME OnceInv, Inv', NEW t \in Tracees, NEW sigsys \in BOOLEAN,
         NEW i \in 1..Len(semaphores), NEW sops \in SopsArgs,
         Semop(t, sigsys, i, sops)
  PROVE  OnceInv'
<1> DEFINE own == SemCheck(semaphores[i].sems, sops)
           pass == WakePass(own.sems, t, i)
           n == Len(tracees)
           W == {tracees[k] : k \in {k \in 1..n : pass[k].status # "WAIT"}}
           verdict == [w \in W |->
             pass[CHOOSE k \in 1..n : tracees[k] = w /\ pass[k].status # "WAIT"].status]
           c == IF own.status = "WAIT"
                  THEN [config[t] EXCEPT !.wait_reason = "WR_WAIT_SEMOP",
                                         !.waiting_object_index = i]
                  ELSE [config[t] EXCEPT !.waiting_object_index = i]
           args == [index |-> i, generation |-> semaphores[i].generation,
                    sops |-> sops]
           status == IF own.status = "WAIT" THEN "OK" ELSE own.status
           now == own.status # "WAIT" /\ sigsys
           A == Woken(pass, i, n)
<1>1. IpcInv /\ SemTypeOK /\ SemTypeOK' /\ SleepersHaveSet
  BY InvParts DEF OnceInv, Inv, SemTypeOK, TypeOK, Calls, Ledgers
<1>2. CanCall(t) /\ Valid(i) /\ i \in Nat
  <2>1. CanCall(t) /\ Valid(i) BY Zenon DEF Semop
  <2>2. Len(semaphores) \in Nat BY <1>1 DEF SemTypeOK
  <2> QED BY <2>1, <2>2
<1>3. sops \in Seq(Sembuf) /\ InRange(sops)
  BY <1>2, SleepersInRange DEF Semop, OnceInv
<1>4. semaphores[i] \in Slot /\ semaphores[i].sems \in SemVec
  <2>1. semaphores[i] \in Slot BY <1>1 DEF SemTypeOK
  <2> QED BY <2>1 DEF Slot
<1>5. own \in Outcome
  BY <1>3, <1>4, SemCheckType
<1>6. ASSUME NEW x \in SemNums
      PROVE  own.sems[x] = semaphores[i].sems[x]
               + IF own.status = "OK" THEN Delta(sops, x) ELSE 0
  BY <1>3, <1>4, SemCheckAdds
<1>7. SleepersFit(i)
  <2> SUFFICES ASSUME NEW s \in Tracees, WaitsFor(s, i)
               PROVE  semop_sops[s] \in Seq(Sembuf) /\ InRange(semop_sops[s])
    BY DEF SleepersFit
  <2>1. \A k \in 1..Len(semop_sops[s]) :
          semop_sops[s][k].sem_num < semaphores[i].nsems
    BY <1>1 DEF SleepersHaveSet, WaitsFor
  <2>2. semop_sops[s] \in SopsArgs \cup {<<>>}
    BY <1>1 DEF SemTypeOK
  <2> QED BY <1>2, <2>1, <2>2, SleepersInRange DEF OnceInv
<1>8. tracees \in Seq(Tracees) /\ n \in Nat /\ \A k \in 1..n : tracees[k] \in Tracees
  BY <1>1 DEF IpcInv, IpcTypeOK
<1>9. own.sems \in SemVec BY <1>5 DEF Outcome
<1>10. PassDecides(pass, t, i) /\ PassRuns(pass, own.sems, t, i)
  <2> HIDE DEF own
  <2> QED BY <1>7, <1>8, <1>9, WakePassType
<1>11. /\ CommonAndWake(t, c, status, sigsys, W, verdict)
       /\ semaphores' = [semaphores EXCEPT ![i].sems = pass[n].sems]
       /\ semop_sops' = [s \in Tracees |->
            IF s = t THEN IF own.status = "WAIT" THEN sops ELSE <<>>
            ELSE IF s \in W THEN <<>> ELSE semop_sops[s]]
       /\ call' = [call EXCEPT ![t] = IF now THEN NoCall ELSE args]
       /\ ledger' = IF now THEN Settled(ledger, args, status) ELSE ledger
  BY DEF Semop
<1>12. own.status \in {"OK", "WAIT", "EAGAIN", "ERANGE"}
  BY <1>5 DEF Outcome
<1> HIDE DEF own, pass
<1>13. HandlerConfig(c) /\ c.waiting_object_index = i
       /\ c.wait_reason = IF own.status = "WAIT" THEN "WR_WAIT_SEMOP"
                          ELSE "WR_NOT_WAITING"
  <2>1. HandlerConfig(config[t]) /\ config[t].wait_reason = "WR_NOT_WAITING"
    BY <1>1, <1>2, CallerConfig
  <2> QED BY <1>2, <2>1 DEF HandlerConfig, Configs, WaitReasons
<1>14. status \in Statuses
  BY <1>12 DEF Statuses
<1> HIDE DEF c
<1>15. PICK d, a : d = CommonConfig(c, status, sigsys) /\ a = CommonAt(c, sigsys)
  OBVIOUS
<1>16. /\ d.waiting_object_index = i
       /\ Asleep(d) <=> own.status = "WAIT"
       /\ ~now => d.wait_state # "WSTATE_NOT_WAITING"
       /\ ~Asleep(d) /\ ~sigsys => d.status_after_wait = status
       /\ a \in {"user", "rewound", "kernel"}
  <2>1. a \in {"user", "rewound", "kernel"} BY <1>13, <1>14, <1>15, CommonFacts
  <2> HIDE DEF status
  <2>2. /\ d.waiting_object_index = c.waiting_object_index
        /\ Asleep(d) <=> c.wait_reason = "WR_WAIT_SEMOP"
        /\ Asleep(d) \/ ~sigsys => d.wait_state # "WSTATE_NOT_WAITING"
        /\ ~Asleep(d) /\ ~sigsys => d.status_after_wait = status
    BY <1>13, <1>14, <1>15, SemopCaller
  <2> QED BY <1>13, <2>1, <2>2
<1>17. /\ W \in SUBSET Tracees /\ t \notin W
       /\ \A w \in W : WaitsFor(w, i)
       /\ \A k \in 1..n : pass[k].status # "WAIT" => tracees[k] \in W
  BY <1>8, <1>10 DEF PassDecides
<1>18. ASSUME NEW k \in 1..n, pass[k].status # "WAIT"
       PROVE  verdict[tracees[k]] = pass[k].status
  <2> DEFINE m == CHOOSE j \in 1..n : tracees[j] = tracees[k] /\ pass[j].status # "WAIT"
  <2>1. m \in 1..n /\ tracees[m] = tracees[k]
    BY <1>18
  <2>2. m = k BY <2>1 DEF OnceInv, ListedOnce
  <2>3. tracees[k] \in W BY <1>17, <1>18
  <2>4. verdict[tracees[k]] = pass[m].status BY <2>3
  <2> HIDE DEF m
  <2> QED BY <2>2, <2>4
<1>19. \A w \in W : \E k \in 1..n : w = tracees[k] /\ pass[k].status # "WAIT"
  OBVIOUS
<1>20. ASSUME NEW k \in 1..n, pass[k].status # "WAIT"
       PROVE  pass[k].status \in Statuses
  <2>1. k \in 0..n BY <1>8
  <2>2. pass[k] \in Outcome BY <1>10, <2>1 DEF PassDecides
  <2>3. PICK o \in Outcome : o = pass[k] BY <2>2
  <2>4. o.status \in {"OK", "EAGAIN", "ERANGE"} BY <1>20, <2>3 DEF Outcome
  <2> QED BY <2>3, <2>4 DEF Statuses
<1> HIDE DEF W, verdict, status
<1>21. /\ config' = [s \in Tracees |->
                       IF s = t THEN d
                       ELSE IF s \in W THEN WakeConfig(config[s], verdict[s])
                       ELSE config[s]]
       /\ at' = [at EXCEPT ![t] = a] /\ tracees' = tracees
  BY <1>11, <1>15 DEF CommonAndWake
<1>22. /\ config'[t] = d
       /\ \A s \in Tracees : s # t /\ s \notin W => config'[s] = config[s]
  BY <1>21
<1>23. ASSUME NEW k \in 1..n, pass[k].status # "WAIT"
       PROVE  /\ ~Asleep(config'[tracees[k]])
              /\ config'[tracees[k]].status_after_wait = pass[k].status
              /\ config'[tracees[k]].wait_state # "WSTATE_NOT_WAITING"
  <2>1. PICK w \in W : w = tracees[k] BY <1>17, <1>23
  <2>2. w \in Tracees /\ w # t /\ config[w] \in Configs
    BY <1>1, <1>17 DEF IpcInv, IpcTypeOK
  <2>3. config'[w] = WakeConfig(config[w], pass[k].status)
    BY <1>18, <1>21, <1>23, <2>1, <2>2
  <2>4. ~Asleep(config'[w]) /\ config'[w].wait_state # "WSTATE_NOT_WAITING"
    <3>1. pass[k].status \in Statuses BY <1>20, <1>23
    <3>2. PICK st \in Statuses : st = pass[k].status BY <3>1
    <3>3. config'[w] = WakeConfig(config[w], st) BY <2>3, <3>2
    <3> QED BY <2>2, <3>3, WakeFacts
  <2>5. config'[w].status_after_wait = pass[k].status
    BY <2>2, <2>3 DEF WakeConfig, Configs
  <2> QED BY <2>1, <2>4, <2>5
<1>24. call[t] = NoCall /\ at[t] = "user"
  <2>1. at[t] = "user" BY <1>2 DEF CanCall
  <2> QED BY <2>1, CallerIdle DEF OnceInv
<1>25. ASSUME NEW w \in W
       PROVE  /\ Asleep(config[w]) /\ call[w].index = i /\ call[w] # NoCall
              /\ call[w].generation = semaphores[i].generation
  <2>1. config[w].wait_reason = "WR_WAIT_SEMOP" /\ config[w].waiting_object_index = i
    BY <1>17 DEF WaitsFor
  <2>2. w \in Tracees /\ Asleep(config[w])
    BY <1>1, <1>17, <2>1 DEF IpcInv, WaitStatesAgree
  <2>3. call[w].index = i /\ call[w].generation = semaphores[i].generation
    BY <2>1, <2>2 DEF OnceInv, SleepersCall
  <2>4. i # 0 BY <1>2
  <2> QED BY <2>2, <2>3, <2>4 DEF NoCall
<1>26. /\ semaphores \in Seq(Slot) /\ ledger \in Seq([SemNums -> Int])
       /\ Len(ledger) = Len(semaphores)
  BY <1>1 DEF SemTypeOK, Ledgers
<1>27. PICK g \in Nat : g = semaphores[i].generation
  BY <1>4, SemAssumption DEF Slot
<1>28. /\ Len(semaphores') = Len(semaphores)
       /\ semaphores'[i].sems = pass[n].sems
       /\ semaphores'[i].valid /\ semaphores'[i].generation = g
       /\ \A j \in 1..Len(semaphores) : j # i => semaphores'[j] = semaphores[j]
  <2>1. PICK new : new = [semaphores[i] EXCEPT !.sems = pass[n].sems]
    OBVIOUS
  <2>2. new.sems = pass[n].sems /\ new.valid /\ new.generation = g
    BY <1>2, <1>4, <1>27, <2>1 DEF Slot, Valid
  <2>3. semaphores' = [semaphores EXCEPT ![i] = new] BY <1>11, <2>1
  <2> QED BY <1>26, <2>2, <2>3
<1>29. /\ call'[t] = IF now THEN NoCall ELSE args
       /\ \A s \in Tracees : s # t => call'[s] = call[s]
  <2>1. PICK y : y = IF now THEN NoCall ELSE args OBVIOUS
  <2>2. call' = [call EXCEPT ![t] = y] BY <1>11, <2>1
  <2>3. call'[t] = y /\ \A s \in Tracees : s # t => call'[s] = call[s]
    BY <1>1, <2>2 DEF SemTypeOK
  <2> QED BY <2>1, <2>3
<1>30. /\ args # NoCall /\ args.index = i /\ args.generation = g /\ args.sops = sops
  <2>1. i # 0 BY <1>2
  <2> QED BY <1>27, <2>1 DEF NoCall
<1> HIDE DEF args, now
<1>31. ListedOnce'
  <2>1. \A s \in Tracees : at[s] # "none" => at'[s] # "none"
    BY <1>1, <1>16, <1>21 DEF IpcInv, IpcTypeOK
  <2> QED BY <1>21, <2>1, ListKept DEF OnceInv
<1>32. CallsFit'
  <2> SUFFICES ASSUME NEW s \in Tracees, call'[s] # NoCall
               PROVE  /\ config'[s].wait_state # "WSTATE_NOT_WAITING"
                      /\ call'[s].index \in 1..Len(semaphores)
                      /\ call'[s].generation <= semaphores'[call'[s].index].generation
                      /\ call'[s].generation = semaphores'[call'[s].index].generation =>
                           semaphores'[call'[s].index].valid
    BY <1>28 DEF CallsFit
  <2>1. CASE s = t
    <3>1. ~now /\ call'[s] = args BY <1>29, <2>1
    <3> QED BY <1>16, <1>22, <1>27, <1>28, <1>30, <2>1, <3>1
  <2>2. CASE s # t
    <3>1. /\ config[s].wait_state # "WSTATE_NOT_WAITING"
          /\ call[s].index \in 1..Len(semaphores)
          /\ call[s].generation <= semaphores[call[s].index].generation
          /\ call[s].generation = semaphores[call[s].index].generation =>
               semaphores[call[s].index].valid
      BY <1>29, <2>2 DEF OnceInv, CallsFit
    <3>2. config'[s].wait_state # "WSTATE_NOT_WAITING"
      BY <1>19, <1>22, <1>23, <2>2, <3>1
    <3>3. /\ semaphores'[call[s].index].generation = semaphores[call[s].index].generation
          /\ semaphores[call[s].index].valid => semaphores'[call[s].index].valid
      BY <1>27, <1>28, <3>1
    <3> QED BY <1>29, <2>2, <3>1, <3>2, <3>3
  <2> QED BY <2>1, <2>2
<1>33. SleepersCall'
  <2> SUFFICES ASSUME NEW s \in Tracees, Asleep(config'[s]),
                      NEW j, j = config'[s].waiting_object_index
               PROVE  /\ call'[s].index = j
                      /\ call'[s].generation = semaphores'[j].generation
                      /\ call'[s].sops = semop_sops'[s]
    BY DEF SleepersCall
  <2>1. CASE s = t
    <3>1. own.status = "WAIT" /\ j = i BY <1>16, <1>22, <2>1
    <3>2. ~now BY <3>1 DEF now
    <3>3. semop_sops'[s] = sops BY <1>11, <2>1, <3>1
    <3> QED BY <1>28, <1>29, <1>30, <2>1, <3>1, <3>2, <3>3
  <2>2. CASE s # t
    <3>1. s \notin W BY <1>19, <1>23
    <3>2. config'[s] = config[s] /\ call'[s] = call[s] /\ semop_sops'[s] = semop_sops[s]
      BY <1>11, <1>22, <1>29, <2>2, <3>1
    <3>3. j \in 1..Len(semaphores)
      BY <1>1, <3>2 DEF SleepersHaveSet, Valid, IpcInv, WaitStatesAgree
    <3>4. semaphores'[j].generation = semaphores[j].generation
      BY <1>27, <1>28, <3>3
    <3> QED BY <3>2, <3>4 DEF OnceInv, SleepersCall
  <2> QED BY <2>1, <2>2
<1>34. ASSUME NEW j \in 1..Len(semaphores), j # i, semaphores[j].valid
       PROVE  Balance(j)'
  <2>1. semaphores'[j] = semaphores[j] BY <1>28, <1>34
  <2>2. ledger'[j] = ledger[j]
    <3>1. CASE now
      <4>1. ledger' = Settled(ledger, args, status) BY <1>11, <3>1
      <4>2. ledger' = ledger \/ \E row : ledger' = [ledger EXCEPT ![i] = row]
        BY <1>30, <4>1 DEF Settled
      <4> QED BY <1>26, <1>34, <4>2
    <3>2. CASE ~now BY <1>11, <3>2
    <3> QED BY <3>1, <3>2
  <2>3. \A s \in Tracees : s \in OnItsWay(j)' <=> s \in OnItsWay(j)
    <3> SUFFICES ASSUME NEW s \in Tracees PROVE s \in OnItsWay(j)' <=> s \in OnItsWay(j)
      OBVIOUS
    <3>1. CASE s = t
      <4>1. s \notin OnItsWay(j) BY <1>24, <3>1 DEF OnItsWay
      <4>2. s \notin OnItsWay(j)' BY <1>29, <1>30, <1>34, <3>1 DEF OnItsWay
      <4> QED BY <4>1, <4>2
    <3>2. CASE s \in W
      <4>1. call[s].index = i /\ s # t BY <1>17, <1>25, <3>2
      <4> QED BY <1>29, <1>34, <4>1 DEF OnItsWay
    <3>3. CASE s # t /\ s \notin W
      <4>1. config'[s] = config[s] /\ call'[s] = call[s] BY <1>22, <1>29, <3>3
      <4> QED BY <2>1, <4>1 DEF OnItsWay
    <3> QED BY <3>1, <3>2, <3>3
  <2>4. SameWay(j)
    <3>1. OnItsWay(j)' \subseteq Tracees /\ OnItsWay(j) \subseteq Tracees
      BY DEF OnItsWay
    <3>2. OnItsWay(j)' = OnItsWay(j)
      <4>1. PICK R, Q : R = OnItsWay(j)' /\ Q = OnItsWay(j) OBVIOUS
      <4> QED BY ONLY <2>3, <3>1, <4>1
    <3>3. t \notin OnItsWay(j) BY <1>24 DEF OnItsWay
    <3> QED BY <1>29, <3>1, <3>2, <3>3 DEF SameWay
  <2>5. Balance(j) BY <1>34 DEF OnceInv, Balanced
  <2> QED BY <1>1, <2>1, <2>2, <2>4, <2>5, BalanceKept DEF OnceInv
<1>35. A \in SUBSET Tracees /\ IsFiniteSet(A) /\ t \notin A
  <2>1. n \in 0..n BY <1>8
  <2>2. ZeroVec \in SemVec BY ZeroVecType
  <2>3. 0 \in SemNums BY SemAssumption DEF SemNums
  <2>4. IsFiniteSet(A) /\ A \in SUBSET Tracees
    BY <1>7, <1>9, <1>10, <2>1, <2>3, PassSum
  <2>5. t \notin OnItsWay(i) BY <1>24 DEF OnItsWay
  <2>6. \A k \in 1..n : pass[k].status = "OK" => tracees[k] # t
    BY <1>10 DEF PassDecides
  <2> QED BY <2>4, <2>5, <2>6 DEF Woken
<1>36. PICK B \in SUBSET Tracees :
         B = IF own.status = "OK" /\ ~now THEN A \cup {t} ELSE A
  BY <1>35
<1>37. OnItsWay(i)' = B
  <2>1. ASSUME NEW s \in Tracees PROVE s \in OnItsWay(i)' <=> s \in B
    <3>1. CASE s = t
      <4>1. s \in B <=> own.status = "OK" /\ ~now BY <1>35, <1>36, <3>1
      <4>2. CASE now
        <5>1. s \notin OnItsWay(i)' BY <1>29, <3>1, <4>2 DEF OnItsWay
        <5> QED BY <4>1, <4>2, <5>1
      <4>3. CASE ~now
        <5>1. /\ call'[s] # NoCall /\ call'[s].index = i
              /\ call'[s].generation = semaphores'[i].generation
          BY <1>28, <1>29, <1>30, <3>1, <4>3
        <5>2. s \in OnItsWay(i)' <=> ~Asleep(d) /\ d.status_after_wait = "OK"
          BY <1>22, <3>1, <5>1 DEF OnItsWay
        <5>3. CASE own.status = "WAIT" BY <1>16, <4>1, <5>2, <5>3
        <5>4. CASE own.status # "WAIT"
          <6>1. ~sigsys BY <4>3, <5>4 DEF now
          <6>2. d.status_after_wait = own.status BY <1>16, <5>4, <6>1 DEF status
          <6> QED BY <1>16, <4>1, <4>3, <5>2, <5>4, <6>2
        <5> QED BY <5>3, <5>4
      <4> QED BY <4>2, <4>3
    <3>2. CASE s \in W
      <4>1. PICK k \in 1..n : s = tracees[k] /\ pass[k].status # "WAIT"
        BY <1>19, <3>2
      <4>2. s # t /\ s \notin OnItsWay(i) BY <1>17, <1>25, <3>2 DEF OnItsWay
      <4>3. s \in OnItsWay(i)' <=> pass[k].status = "OK"
        BY <1>23, <1>25, <1>27, <1>28, <1>29, <3>2, <4>1, <4>2 DEF OnItsWay
      <4>4. s \in A <=> pass[k].status = "OK"
        <5>1. \A j \in 1..n : tracees[j] = tracees[k] => j = k
          BY DEF OnceInv, ListedOnce
        <5> QED BY <4>1, <4>2, <5>1 DEF Woken
      <4> QED BY <1>36, <4>2, <4>3, <4>4
    <3>3. CASE s # t /\ s \notin W
      <4>1. config'[s] = config[s] /\ call'[s] = call[s] BY <1>22, <1>29, <3>3
      <4>2. s \in OnItsWay(i)' <=> s \in OnItsWay(i)
        BY <1>27, <1>28, <4>1 DEF OnItsWay
      <4>3. s \in A <=> s \in OnItsWay(i)
        <5>1. \A k \in 1..n : pass[k].status = "OK" => tracees[k] # s
          BY <1>17, <3>3
        <5> QED BY <5>1 DEF Woken
      <4> QED BY <1>36, <3>3, <4>2, <4>3
    <3> QED BY <3>1, <3>2, <3>3
  <2>2. OnItsWay(i)' \subseteq Tracees BY DEF OnItsWay
  <2>3. PICK R : R = OnItsWay(i)' OBVIOUS
  <2> QED BY ONLY <1>36, <2>1, <2>2, <2>3
<1>38. ASSUME NEW x \in SemNums
       PROVE  semaphores'[i].sems[x] = ledger'[i][x] + Owed(i, x)'
  <2>1. PICK o \in Int : o = Owed(i, x)
    BY OwedType DEF OnceInv
  <2>2. PICK y \in Int : y = SumOver(Share(x), A)
    <3>1. IntOn(Share(x), A) BY <1>1, <1>35, ShareType
    <3> QED BY <1>35, <3>1, SumType
  <2>3. PICK l \in Int : l = ledger[i][x]
    <3>1. ledger[i] \in [SemNums -> Int] BY <1>26
    <3> QED BY <3>1
  <2>4. PICK e \in Int : e = Delta(sops, x)
    BY <1>3, DeltaType
  <2>5. semaphores[i].sems[x] = l + o
    BY <1>2, <2>1, <2>3 DEF OnceInv, Balanced, Balance, Valid
  <2>6. PICK p \in Int : p = pass[n].sems[x]
    <3>1. n \in 0..n BY <1>8
    <3>2. pass[n].sems \in SemVec BY <1>10, <3>1 DEF PassDecides, Outcome
    <3>3. pass[n].sems[x] \in 0..MAX_SEMVAL BY <3>2 DEF SemVec
    <3> QED BY <3>3, SemAssumption
  <2>7. p + o = own.sems[x] + y
    <3>1. n \in 0..Len(tracees) BY <1>8
    <3>2. pass[n].sems[x] + Owed(i, x) = own.sems[x] + SumOver(Share(x), A)
      <4>1. PICK v \in SemVec : v = own.sems BY <1>9
      <4>2. PICK r : r = pass OBVIOUS
      <4>3. PassDecides(r, t, i) /\ PassRuns(r, v, t, i)
        BY <1>10, <4>1, <4>2
      <4> HIDE DEF own, pass
      <4>4. r[n].sems[x] + Owed(i, x) = v[x] + SumOver(Share(x), Woken(r, i, n))
        BY <1>7, <3>1, <4>3, PassSum, ZenonT(30)
      <4> QED BY <4>1, <4>2, <4>4
    <3> QED BY <2>1, <2>2, <2>6, <3>2
  <2>8. own.sems[x] = (l + o) + IF own.status = "OK" THEN e ELSE 0
    BY <1>6, <2>4, <2>5
  <2>9. p = l + y + IF own.status = "OK" THEN e ELSE 0
    <3>1. CASE own.status = "OK"
      <4>1. own.sems[x] = (l + o) + e BY <2>8, <3>1
      <4>2. PICK z : z = own.sems[x] OBVIOUS
      <4>3. z = (l + o) + e /\ p + o = z + y BY <2>7, <4>1, <4>2
      <4>4. p = l + y + e
        BY ONLY <4>3, p \in Int, o \in Int, y \in Int, l \in Int, e \in Int
      <4> QED BY <3>1, <4>4
    <3>2. CASE own.status # "OK"
      <4>1. own.sems[x] = (l + o) + 0 BY <2>8, <3>2
      <4>2. PICK z : z = own.sems[x] OBVIOUS
      <4>3. z = (l + o) + 0 /\ p + o = z + y BY <2>7, <4>1, <4>2
      <4>4. p = l + y + 0
        BY ONLY <4>3, p \in Int, o \in Int, y \in Int, l \in Int
      <4> QED BY <3>2, <4>4
    <3> QED BY <3>1, <3>2
  <2>10. SumOver(Share(x)', A) = y
    <3>1. \A s \in A : call'[s] = call[s] BY <1>29, <1>35
    <3> QED BY <1>1, <1>35, <2>2, <3>1, SumKept
  <2>11. semaphores'[i].sems[x] = p BY <1>28, <2>6
  <2>12. CASE own.status = "OK" /\ ~now
    <3>1. B = A \cup {t} BY <1>36, <2>12
    <3>2. Owed(i, x)' = y + e
      <4>1. IntOn(Share(x)', A \cup {t})
        <5>1. ASSUME NEW s \in Tracees PROVE Delta(call'[s].sops, x) \in Int
          <6>1. call'[s].sops \in Seq(Sembuf) BY <1>1, SopsTyped DEF SemTypeOK, Calls
          <6> QED BY <6>1, DeltaType
        <5> QED BY <1>35, <5>1 DEF Share, IntOn
      <4>2. SumOver(Share(x)', A \cup {t}) = SumOver(Share(x)', A) + Share(x)'[t]
        BY <1>35, <4>1, SumAdd
      <4>3. Share(x)'[t] = e BY <1>29, <1>30, <2>4, <2>12 DEF Share
      <4> QED BY <1>37, <2>10, <3>1, <4>2, <4>3 DEF Owed
    <3>3. ledger'[i][x] = l BY <1>11, <2>3, <2>12
    <3>4. p = l + y + e BY <2>9, <2>12
    <3>5. p = l + (y + e)
      BY ONLY <3>4, p \in Int, l \in Int, y \in Int, e \in Int
    <3> QED BY <2>11, <3>2, <3>3, <3>5
  <2>13. CASE ~(own.status = "OK" /\ ~now)
    <3>1. Owed(i, x)' = y
      <4>1. B = A BY <1>36, <2>13
      <4> QED BY <1>37, <2>10, <4>1 DEF Owed
    <3>2. CASE own.status = "OK"
      <4>1. now /\ status = "OK" BY <2>13, <3>2 DEF status
      <4>2. ledger' = Settled(ledger, args, "OK") BY <1>11, <4>1
      <4>3. PICK row : row = [z \in SemNums |-> ledger[i][z] + Delta(sops, z)]
        OBVIOUS
      <4>4. ledger' = [ledger EXCEPT ![i] = row]
        BY <1>2, <1>27, <1>30, <4>2, <4>3 DEF Settled
      <4>5. ledger'[i] = row BY <1>26, <4>4
      <4>6. ledger'[i][x] = l + e BY <2>3, <2>4, <4>3, <4>5
      <4>7. p = l + y + e BY <2>9, <3>2
      <4>8. p = (l + e) + y
        BY ONLY <4>7, p \in Int, l \in Int, y \in Int, e \in Int
      <4> QED BY <2>11, <3>1, <4>6, <4>8
    <3>3. CASE own.status # "OK"
      <4>1. ledger' = ledger
        <5>1. now => status # "OK" BY <3>3 DEF now, status
        <5> QED BY <1>11, <5>1 DEF Settled
      <4>2. p = l + y + 0 BY <2>9, <3>3
      <4>3. p = l + y BY <4>2
      <4> QED BY <2>3, <2>11, <3>1, <4>1, <4>3
    <3> QED BY <3>2, <3>3
  <2> QED BY <2>12, <2>13
<1>39. Balance(i)' BY <1>38 DEF Balance
<1>40. Balanced'
  BY <1>28, <1>34, <1>39 DEF Balanced
<1> QED BY <1>31, <1>32, <1>33, <1>40 DEF OnceInv

-----------------------------------------------------------------------------
(* The theorems.                                                           *)

(* PRoot starts with one tracee in guest code and no set.                  *)
LEMMA InitInv == Init => Inv
<1> SUFFICES ASSUME Init PROVE Inv
  OBVIOUS
<1>1. PICK t \in Tracees :
        /\ tracees = <<t>>
        /\ at = [s \in Tracees |-> IF s = t THEN "user" ELSE "none"]
        /\ config = [s \in Tracees |-> ZeroConfig]
        /\ sigstop = [s \in Tracees |-> "SIGSTOP_ALLOWED"]
        /\ kick = [s \in Tracees |-> FALSE]
  BY DEF Init, IpcInit
<1>2. /\ semaphores = <<>> /\ ledger = <<>>
      /\ semop_sops = [s \in Tracees |-> <<>>]
      /\ call = [s \in Tracees |-> NoCall]
  BY DEF Init
<1>3. IpcTypeOK
  <2>1. config \in [Tracees -> Configs] BY <1>1, ZeroConfigFacts
  <2> QED BY <1>1, <2>1 DEF IpcTypeOK, Locations
<1>4. SemTypeOK
  <2>1. NoCall \in Calls BY DEF NoCall, Calls
  <2>2. call \in [Tracees -> Calls] BY <1>2, <2>1
  <2> QED BY <1>2, <2>2, SemAssumption DEF SemTypeOK, Ledgers
<1>5. WaitStatesAgree
  <2>1. \A s \in Tracees : config[s] = ZeroConfig /\ at[s] \in {"user", "none"}
    BY <1>1
  <2> HIDE DEF ZeroConfig
  <2> QED BY <2>1, ZeroConfigFacts DEF WaitStatesAgree
<1>6. SleepersHaveSet
  BY <1>1, ZeroConfigFacts DEF SleepersHaveSet
<1>7. KickIsExpected /\ EveryoneListed
  BY <1>1 DEF KickIsExpected, EveryoneListed
<1> QED BY <1>3, <1>4, <1>5, <1>6, <1>7
        DEF Inv, SemTypeOK, TypeOK, Calls, Ledgers

(* Every step keeps the invariant.                                         *)
LEMMA NextInv == Inv /\ [Next]_vars => Inv'
<1> SUFFICES ASSUME Inv, [Next]_vars PROVE Inv'
  OBVIOUS
<1>1. CASE UNCHANGED vars
  BY <1>1 DEF vars, Inv, TypeOK, IpcTypeOK, WaitStatesAgree, Asleep,
              SleepersHaveSet, Valid, KickIsExpected, EveryoneListed
<1>2. ASSUME NEW t \in Tracees, Step(t) PROVE Inv'
  BY <1>2, StopsInv, SwallowInv, ReapInv, KillInv DEF Step
<1>3. ASSUME NEW t \in Tracees, NEW sigsys \in SigsysModes, Syscall(t, sigsys)
      PROVE  Inv'
  <2>1. sigsys \in BOOLEAN BY SemAssumption
  <2>2. CASE \E key \in Keys, nsems \in 1..MAX_NSEMS :
               SemgetCreate(t, sigsys, key, nsems)
    BY <2>1, <2>2, SemgetCreateInv
  <2>3. CASE \E status \in {"OK", "ERROR"} : Query(t, sigsys, status)
    BY <2>1, <2>3, QueryInv
  <2>4. ASSUME NEW i \in 1..Len(semaphores),
               NEW sops \in SopsArgs, Semop(t, sigsys, i, sops)
        PROVE  Inv'
    BY <2>1, <2>4, SemopInv
  <2>5. ASSUME NEW i \in 1..Len(semaphores), NEW m \in SemNums,
               NEW val \in SetVals, SemctlSetval(t, sigsys, i, m, val)
        PROVE  Inv'
    BY <2>1, <2>5, SemctlSetvalInv
  <2>6. ASSUME NEW i \in 1..Len(semaphores), SemctlRmid(t, sigsys, i)
        PROVE  Inv'
    BY <2>1, <2>6, SemctlRmidInv
  <2> QED BY <1>3, <2>2, <2>3, <2>4, <2>5, <2>6 DEF Syscall
<1>4. ASSUME NEW parent \in Tracees, NEW child \in Tracees, Fork(parent, child)
      PROVE  Inv'
  BY <1>4, ForkInv
<1>5. CASE Terminated
  BY <1>1, <1>5 DEF Terminated
<1> QED BY <1>1, <1>2, <1>3, <1>4, <1>5 DEF Next

(* PRoot starts with nothing on its way and no set.                        *)
LEMMA InitOnce == Init => OnceInv
<1> SUFFICES ASSUME Init PROVE OnceInv
  OBVIOUS
<1>1. PICK t \in Tracees :
        /\ tracees = <<t>>
        /\ at = [s \in Tracees |-> IF s = t THEN "user" ELSE "none"]
        /\ config = [s \in Tracees |-> ZeroConfig]
  BY DEF Init, IpcInit
<1>2. semaphores = <<>> /\ call = [s \in Tracees |-> NoCall]
  BY DEF Init
<1>3. ListedOnce
  <2>1. Len(tracees) = 1 /\ tracees[1] = t /\ at[t] = "user" BY <1>1
  <2>2. \A k \in 1..Len(tracees) : k = 1 BY <2>1
  <2> QED BY <2>1, <2>2 DEF ListedOnce
<1>4. CallsFit
  <2> HIDE DEF NoCall
  <2> QED BY <1>2 DEF CallsFit
<1>5. SleepersCall
  <2>1. \A s \in Tracees : config[s] = ZeroConfig BY <1>1
  <2> HIDE DEF ZeroConfig
  <2> QED BY <2>1, ZeroConfigFacts DEF SleepersCall
<1>6. Balanced BY <1>2 DEF Balanced
<1> QED BY <1>3, <1>4, <1>5, <1>6, InitInv DEF OnceInv

(* Every step keeps the account of the semops.                             *)
LEMMA NextOnce == OnceInv /\ [Next]_vars => OnceInv'
<1> SUFFICES ASSUME OnceInv, [Next]_vars PROVE OnceInv'
  OBVIOUS
<1>1. Inv' BY NextInv DEF OnceInv
<1>2. CASE UNCHANGED vars
  <2>1. /\ tracees' = tracees /\ at' = at /\ config' = config
        /\ semaphores' = semaphores /\ semop_sops' = semop_sops
        /\ call' = call /\ ledger' = ledger
    BY <1>2 DEF vars
  <2>2. ListedOnce' BY <2>1, ListKept DEF OnceInv
  <2>3. Undisturbed BY <2>1 DEF OnceInv, CallsFit, Undisturbed
  <2> QED BY <1>1, <2>1, <2>2, <2>3, QuietStep DEF OnceInv
<1>3. ASSUME NEW t \in Tracees, Step(t) PROVE OnceInv'
  BY <1>1, <1>3, StopsOnce, AnswersOnce, ReapOnce DEF Step
<1>4. ASSUME NEW t \in Tracees, NEW sigsys \in SigsysModes, Syscall(t, sigsys)
      PROVE  OnceInv'
  <2>1. sigsys \in BOOLEAN BY SemAssumption
  <2>2. CASE \E key \in Keys, nsems \in 1..MAX_NSEMS :
               SemgetCreate(t, sigsys, key, nsems)
    BY <1>1, <2>1, <2>2, SemgetCreateOnce
  <2>3. CASE \E status \in {"OK", "ERROR"} : Query(t, sigsys, status)
    BY <1>1, <2>1, <2>3, QueryOnce
  <2>4. ASSUME NEW i \in 1..Len(semaphores),
               NEW sops \in SopsArgs, Semop(t, sigsys, i, sops)
        PROVE  OnceInv'
    BY <1>1, <2>1, <2>4, SemopOnce
  <2>5. ASSUME NEW i \in 1..Len(semaphores), NEW m \in SemNums,
               NEW val \in SetVals, SemctlSetval(t, sigsys, i, m, val)
        PROVE  OnceInv'
    BY <1>1, <2>1, <2>5, SetvalOnce
  <2>6. ASSUME NEW i \in 1..Len(semaphores), SemctlRmid(t, sigsys, i)
        PROVE  OnceInv'
    BY <1>1, <2>1, <2>6, RmidOnce
  <2> QED BY <1>4, <2>2, <2>3, <2>4, <2>5, <2>6 DEF Syscall
<1>5. ASSUME NEW parent \in Tracees, NEW child \in Tracees, Fork(parent, child)
      PROVE  OnceInv'
  BY <1>1, <1>5, ForkOnce
<1>6. CASE Terminated
  BY <1>2, <1>6 DEF Terminated
<1> QED BY <1>2, <1>3, <1>4, <1>5, <1>6 DEF Next

(* Every behaviour of the semaphore emulation keeps the invariant.         *)
THEOREM Invariance == Spec => []Inv
BY InitInv, NextInv, PTL DEF Spec

(* The state of the semaphore emulation is always typed: no semaphore      *)
(* leaves 0..MAX_SEMVAL, whatever the sops that are applied, passed over   *)
(* in the wake-up loop or refused (sysvipc_sem_check).                     *)
THEOREM TypeCorrect == Spec => []TypeOK
<1>1. Inv => TypeOK BY DEF Inv
<1> QED BY <1>1, Invariance, PTL

(* No assertion of the wait mechanism (sysvipc.c 40, 84, 234, 261, 277,    *)
(* 287, 353, 363) can fail in a semaphore call.                            *)
THEOREM AssertionsHold == Spec => []WaitStatesAgree
<1>1. Inv => WaitStatesAgree BY DEF Inv
<1> QED BY <1>1, Invariance, PTL

(* A sleeper's slot always holds the set it waits for, with the semaphores *)
(* its operations name: the wake-up loop of sysvipc_semop never reads or   *)
(* writes outside a set, or in a removed one.                              *)
THEOREM SleepersSafe == Spec => []SleepersHaveSet
<1>1. Inv => SleepersHaveSet BY DEF Inv
<1> QED BY <1>1, Invariance, PTL

(* The event loop expects every SIGSTOP that sysvipc_wake_tracee sends.    *)
THEOREM KicksExpected == Spec => []KickIsExpected
<1>1. Inv => KickIsExpected BY DEF Inv
<1> QED BY <1>1, Invariance, PTL

(* semop is exactly-once, with any number of tracees, sets and operations: *)
(* the values of a set are what the semops reported successful, and those  *)
(* whose success is still on its way back, add up to.  No order of         *)
(* time-outs, guest signals, kills and removals against the wake-up loop   *)
(* of sysvipc_semop makes it lose or repeat an operation, and a semop that *)
(* sysvipc_sem_check refuses half-way has changed nothing.                 *)
THEOREM SemopExactlyOnce == Spec => []ExactlyOnce
<1>1. OnceInv => ExactlyOnce
  BY BalancedIsExactlyOnce DEF OnceInv
<1> QED BY <1>1, InitOnce, NextOnce, PTL DEF Spec
==============================================================================
