------------------------------- MODULE SysVMsg -------------------------------
(***************************************************************************)
(* Message queues of PRoot's System V IPC emulation                        *)
(* (extension/sysvipc/sysvipc_msg.c) on top of the wait mechanism.         *)
(*                                                                         *)
(* msgsnd hands nothing over: it appends the message and wakes the first   *)
(* sleeping receiver that matches, which looks into the queue again when   *)
(* its ppoll is over (CSTATE_MSGRCV_RETRY).  In between the other tracees  *)
(* run: they may take the message, or remove the queue.                    *)
(***************************************************************************)
EXTENDS SysVIpc, Integers

CONSTANTS
  Keys, IPC_PRIVATE,    \* keys of msgget
  Texts,                \* messages guests send: mtype and text length
  RcvArgs,              \* arguments guests pass to msgrcv
  SigsysModes,          \* how calls arrive: FALSE at the entry stop, TRUE by SIGSYS
  Mortal,               \* tracees that may be killed
  MaxQueues,            \* bound: slots (the code has none)
  MaxMsgs,              \* bound: messages sent
  MaxGeneration         \* bound: removals of one slot

VARIABLES
  queues,     \* ipc_namespace->queues
  msgrcv,     \* config->msgrcv_*: the arguments of the last msgrcv
  aborted,    \* PRoot died on an assertion
  asked,      \* history: the queue the tracee's msgrcv named
  sent,       \* history: messages sent; the n-th has id n
  received    \* history: how often each message was received

msgVars == <<queues, msgrcv, aborted, asked, sent, received>>
vars == <<tracees, at, config, sigstop, kick,
          queues, msgrcv, aborted, asked, sent, received>>

Text == [mtype : Nat \ {0}, length : Nat]
Item == [mtype : Nat \ {0}, length : Nat, id : 1..MaxMsgs]

(* msgtyp, msgsz and the flags of msgrcv; fault: msgp is not writable.     *)
RcvArg == [msgtyp : Int, msgsz : Nat, nowait : BOOLEAN, noerror : BOOLEAN,
           copy : BOOLEAN, except : BOOLEAN, fault : BOOLEAN]
NoArgs == [msgtyp |-> 0, msgsz |-> 0, nowait |-> FALSE, noerror |-> FALSE,
           copy |-> FALSE, except |-> FALSE, fault |-> FALSE]
Queue == [key : Keys, generation : 0..MaxGeneration, valid : BOOLEAN,
          items : Seq(Item), msg_qnum : Nat, msg_cbytes : Nat]
Nowhere == [index |-> 0, generation |-> 0]

ASSUME MsgAssumption ==
  /\ IPC_PRIVATE \in Keys
  /\ Texts \subseteq Text /\ RcvArgs \subseteq RcvArg
  /\ SigsysModes \subseteq BOOLEAN /\ Mortal \subseteq Tracees
  /\ MaxQueues \in Nat /\ MaxMsgs \in Nat /\ MaxGeneration \in Nat

Valid(i) == i \in 1..Len(queues) /\ queues[i].valid

-----------------------------------------------------------------------------
(* sysvipc_msg_match.                                                      *)
Match(mtype, a) ==
  LET matched == \/ a.msgtyp = 0
                 \/ mtype = a.msgtyp
                 \/ a.msgtyp < 0 /\ mtype <= -a.msgtyp
  IN  IF a.except THEN ~matched ELSE matched

(* The items sysvipc_do_msgrcv may pick: the message with that index for   *)
(* MSG_COPY, else the matching ones, of which it takes the first.          *)
Candidates(items, a) ==
  {k \in 1..Len(items) : IF a.copy THEN k - 1 = a.msgtyp
                                   ELSE Match(items[k].mtype, a)}
First(S) == CHOOSE k \in S : \A j \in S : k <= j

(* Mutant: forgets to unlink the item.                                     *)
Without_Kept(items, k) == items

(* STAILQ_REMOVE of the k-th item.                                         *)
Without(items, k) == SubSeq(items, 1, k - 1) \o SubSeq(items, k + 1, Len(items))

(* sysvipc_do_msgrcv and sysvipc_msg_deliver: "WAIT" when it sets          *)
(* wait_reason.                                                            *)
DoStatus(items, a) ==
  IF a.copy /\ (~a.nowait \/ a.except) THEN "ERROR"
  ELSE IF Candidates(items, a) = {} THEN IF a.nowait THEN "ERROR" ELSE "WAIT"
  ELSE IF items[First(Candidates(items, a))].length > a.msgsz /\ ~a.noerror THEN "E2BIG"
  ELSE IF a.fault THEN "ERROR"
  ELSE "OK"

(* Mutant: the count is not kept.                                          *)
Taken_Uncounted(q, k) ==
  [q EXCEPT !.items = Without(@, k), !.msg_cbytes = @ - q.items[k].length]

(* Queue q after the k-th item is received.                                *)
Taken(q, k) ==
  [q EXCEPT !.items = Without(@, k), !.msg_qnum = @ - 1,
            !.msg_cbytes = @ - q.items[k].length]

(* Mutant: an item that could not be delivered is dropped.                 *)
Deliver_DropsFailed(i, a) ==
  IF Candidates(queues[i].items, a) = {} \/ a.copy THEN UNCHANGED <<queues, received>>
  ELSE LET k == First(Candidates(queues[i].items, a))
       IN  /\ queues' = [queues EXCEPT ![i] = Taken(@, k)]
           /\ received' = IF DoStatus(queues[i].items, a) # "OK" THEN received
                          ELSE [received EXCEPT ![queues[i].items[k].id] = @ + 1]

(* ... and what it does to queue i when it returns "OK".                   *)
Deliver(i, a) ==
  IF DoStatus(queues[i].items, a) # "OK" \/ a.copy
  THEN UNCHANGED <<queues, received>>
  ELSE LET k == First(Candidates(queues[i].items, a))
       IN  /\ queues' = [queues EXCEPT ![i] = Taken(@, k)]
           /\ received' = [received EXCEPT ![queues[i].items[k].id] = @ + 1]

-----------------------------------------------------------------------------
FreeSlots == {i \in 1..Len(queues) : ~queues[i].valid}

(* msgget of a key that is not there: the first free slot, else grow.      *)
MsggetCreate(t, sigsys, key) ==
  /\ CanCall(t)
  /\ key = IPC_PRIVATE \/ ~\E i \in 1..Len(queues) : Valid(i) /\ queues[i].key = key
  /\ IF FreeSlots # {}
       THEN queues' = [queues EXCEPT ![First(FreeSlots)] =
                         [@ EXCEPT !.key = key, !.valid = TRUE, !.items = <<>>,
                                   !.msg_qnum = 0, !.msg_cbytes = 0]]
       ELSE /\ Len(queues) < MaxQueues
            /\ queues' = Append(queues,
                 [key |-> key, generation |-> 0, valid |-> TRUE, items |-> <<>>,
                  msg_qnum |-> 0, msg_cbytes |-> 0])
  /\ SyscallCommon(t, config[t], "OK", sigsys)
  /\ UNCHANGED <<msgrcv, aborted, asked, sent, received>>

(* Every call that only reports: a found key, IPC_STAT, or an error before *)
(* anything changes.                                                       *)
Query(t, sigsys, status) ==
  /\ CanCall(t)
  /\ SyscallCommon(t, config[t], status, sigsys)
  /\ UNCHANGED msgVars

(* The tracees asleep in msgrcv on slot i, by position in the list.        *)
Waiting(i) ==
  {k \in 1..Len(tracees) :
     /\ config[tracees[k]].wait_reason = "WR_WAIT_QUEUE_RECV"
     /\ config[tracees[k]].waiting_object_index = i}

(* Mutant: wakes whoever sleeps first.                                     *)
Receivers_AnyType(i, mtype) == Waiting(i)

Receivers(i, mtype) == {k \in Waiting(i) : Match(mtype, msgrcv[tracees[k]])}

ToRetry(c) == [c EXCEPT !.chain_state = "CSTATE_MSGRCV_RETRY"]

(* CommonAndWake for a receiver that has to retry.                         *)
WakeToRetry(t, sigsys, w) ==
  LET kicked == config[w].wait_state = "WSTATE_ENTERED_PPOLL"
  IN  /\ config' = [config EXCEPT ![w] = WakeConfig(ToRetry(config[w]), "EAGAIN"),
                                  ![t] = CommonConfig(config[t], "OK", sigsys)]
      /\ at' = [at EXCEPT ![t] = CommonAt(config[t], sigsys)]
      /\ kick' = [kick EXCEPT ![w] = @ \/ (kicked /\ at[w] # "dead")]
      /\ sigstop' = [sigstop EXCEPT ![w] = IF kicked THEN "SIGSTOP_IGNORED" ELSE @]
      /\ UNCHANGED tracees

(* msgsnd: wakes the first sleeper that matches, then appends.             *)
Msgsnd(t, sigsys, i, text) ==
  /\ CanCall(t)
  /\ Valid(i)
  /\ sent < MaxMsgs
  /\ LET R == Receivers(i, text.mtype)
     IN  IF R = {} THEN SyscallCommon(t, config[t], "OK", sigsys)
         ELSE WakeToRetry(t, sigsys, tracees[First(R)])
  /\ queues' = [queues EXCEPT
       ![i].items = Append(@, [mtype |-> text.mtype, length |-> text.length,
                               id |-> sent + 1]),
       ![i].msg_qnum = @ + 1,
       ![i].msg_cbytes = @ + text.length]
  /\ sent' = sent + 1
  /\ UNCHANGED <<msgrcv, aborted, asked, received>>

(* msgrcv on a queue that exists.                                          *)
Msgrcv(t, sigsys, i, a) ==
  /\ CanCall(t)
  /\ Valid(i)
  /\ LET status == DoStatus(queues[i].items, a)
         c == IF status = "WAIT"
                THEN [config[t] EXCEPT !.wait_reason = "WR_WAIT_QUEUE_RECV",
                                       !.waiting_object_index = i]
                ELSE config[t]
     IN  SyscallCommon(t, c, IF status = "WAIT" THEN "OK" ELSE status, sigsys)
  /\ Deliver(i, a)
  /\ msgrcv' = [msgrcv EXCEPT ![t] = a]
  /\ asked' = [asked EXCEPT ![t] = [index |-> i, generation |-> queues[i].generation]]
  /\ UNCHANGED <<aborted, sent>>

(* msgctl(IPC_RMID): wakes the sleepers on the queue with EIDRM.  A        *)
(* receiver that was woken to retry no longer has a wait_reason.           *)
MsgctlRmid(t, sigsys, i) ==
  /\ CanCall(t)
  /\ Valid(i)
  /\ queues[i].generation < MaxGeneration
  /\ LET W == {tracees[k] : k \in Waiting(i)}
     IN  CommonAndWake(t, config[t], "OK", sigsys, W, [w \in W |-> "EIDRM"])
  /\ queues' = [queues EXCEPT ![i].valid = FALSE, ![i].generation = @ + 1,
                              ![i].items = <<>>]
  /\ UNCHANGED <<msgrcv, aborted, asked, sent, received>>

-----------------------------------------------------------------------------
(* Stops of the wait mechanism that do not retry.                          *)
StartPpoll(t) == EnterPpoll(t) /\ UNCHANGED msgVars
StartCanceled(t) == EnterCanceled(t) /\ UNCHANGED msgVars
EndVoid(t) == ExitVoid(t) /\ UNCHANGED msgVars
EndPpoll(t) == ExitPpoll(t) /\ UNCHANGED msgVars
EndStatus(t) == ExitStatus(t) /\ UNCHANGED msgVars
Swallow(t) == SigstopStop(t) /\ UNCHANGED msgVars
Fork(parent, child) == Clone(parent, child) /\ UNCHANGED msgVars
Kill(t) == t \in Mortal /\ Die(t) /\ UNCHANGED msgVars

(* The freed config loses its arguments.                                   *)
ReapTracee(t) ==
  /\ Reap(t)
  /\ msgrcv' = [msgrcv EXCEPT ![t] = NoArgs]
  /\ asked' = [asked EXCEPT ![t] = Nowhere]
  /\ UNCHANGED <<queues, aborted, sent, received>>

(* The tracee is at the stop where sysvipc_msgrcv_retry runs: entering a   *)
(* ppoll that was cancelled, or leaving one that was interrupted.          *)
AtRetry(t) ==
  /\ config[t].chain_state = "CSTATE_MSGRCV_RETRY"
  /\ \/ at[t] = "rewound"
          /\ config[t].wait_state = "WSTATE_RESTARTED_INTO_PPOLL_CANCELED"
     \/ at[t] = "kernel" /\ config[t].wait_state = "WSTATE_SIGNALED_PPOLL"

(* Mutant: the chain state survives the retry.                             *)
RetryConfig_Chained(c) == [c EXCEPT !.wait_state = "WSTATE_NOT_WAITING"]

RetryConfig(c) == [c EXCEPT !.wait_state = "WSTATE_NOT_WAITING",
                            !.chain_state = "CSTATE_NOT_CHAINED"]

(* Mutant: the interrupted ppoll is resumed instead.                       *)
MsgrcvRetry_Resumes(t) ==
  AtRetry(t) /\ Valid(config[t].waiting_object_index) /\ UNCHANGED vars

(* The retry: would it wait again, the caller gets EINTR.                  *)
MsgrcvRetry(t) ==
  /\ AtRetry(t)
  /\ Valid(config[t].waiting_object_index)
  /\ Deliver(config[t].waiting_object_index, msgrcv[t])
  /\ config' = [config EXCEPT ![t] = RetryConfig(@)]
  /\ at' = [at EXCEPT ![t] = IF @ = "rewound" THEN "kernel" ELSE "user"]
  /\ UNCHANGED <<tracees, sigstop, kick, msgrcv, aborted, asked, sent>>

(* ... its assertion on the queue fails.                                   *)
MsgrcvRetryAborts(t) ==
  /\ AtRetry(t)
  /\ ~Valid(config[t].waiting_object_index)
  /\ aborted' = TRUE
  /\ UNCHANGED <<ipcVars, queues, msgrcv, asked, sent, received>>

(* The event loop ended with its last tracee, or PRoot aborted.            *)
Terminated == (tracees = <<>> \/ aborted) /\ UNCHANGED vars

Init ==
  /\ IpcInit
  /\ queues = <<>>
  /\ msgrcv = [t \in Tracees |-> NoArgs]
  /\ aborted = FALSE
  /\ asked = [t \in Tracees |-> Nowhere]
  /\ sent = 0
  /\ received = [n \in 1..MaxMsgs |-> 0]

Step(t) ==
  \/ StartPpoll(t) \/ StartCanceled(t)
  \/ EndVoid(t) \/ EndPpoll(t) \/ EndStatus(t)
  \/ MsgrcvRetry(t) \/ MsgrcvRetryAborts(t)
  \/ Swallow(t) \/ ReapTracee(t) \/ Kill(t)

Syscall(t, sigsys) ==
  \/ \E key \in Keys : MsggetCreate(t, sigsys, key)
  \/ \E status \in {"OK", "ERROR"} : Query(t, sigsys, status)
  \/ \E i \in 1..Len(queues) :
       \/ \E text \in Texts : Msgsnd(t, sigsys, i, text)
       \/ \E a \in RcvArgs : Msgrcv(t, sigsys, i, a)
       \/ MsgctlRmid(t, sigsys, i)

Next ==
  \/ /\ ~aborted
     /\ \/ \E t \in Tracees : Step(t)
        \/ \E t \in Tracees, sigsys \in SigsysModes : Syscall(t, sigsys)
        \/ \E parent, child \in Tracees : Fork(parent, child)
  \/ Terminated

Spec == Init /\ [][Next]_vars

(* Fairness: PRoot handles every stop, and a call that cannot block or was *)
(* interrupted by SIGSTOP returns.                                         *)
Fairness ==
  \A t \in Tracees : WF_vars(~aborted /\ (\/ StartPpoll(t) \/ StartCanceled(t)
                              \/ EndVoid(t) \/ EndStatus(t) \/ MsgrcvRetry(t)
                              \/ MsgrcvRetryAborts(t) \/ Swallow(t)))

FairSpec == Spec /\ Fairness

-----------------------------------------------------------------------------
(* Type invariant of the message queue emulation.                          *)
TypeOK ==
  /\ IpcTypeOK
  /\ queues \in Seq(Queue) /\ Len(queues) <= MaxQueues
  /\ msgrcv \in [Tracees -> RcvArgs \cup {NoArgs}]
  /\ aborted \in BOOLEAN
  /\ asked \in [Tracees -> [index : 0..MaxQueues, generation : 0..MaxGeneration]]
  /\ sent \in 0..MaxMsgs
  /\ received \in [1..MaxMsgs -> Nat]

(* The assertions of sysvipc.c cannot fail: the wait state fits where the  *)
(* tracee is and its reason, and a retry is pending (chain_state) exactly  *)
(* from the wake-up to the end of the ppoll, never when a call is issued   *)
(* (84) or a stop of another kind is handled.                              *)
WaitStatesAgree ==
  \A t \in Tracees :
    LET c == config[t]
    IN  /\ at[t] \in {"none", "user"} =>
             /\ c.wait_state = "WSTATE_NOT_WAITING"
             /\ c.chain_state = "CSTATE_NOT_CHAINED"
        /\ at[t] = "rewound" =>
             c.wait_state \in {"WSTATE_RESTARTED_INTO_PPOLL",
                               "WSTATE_RESTARTED_INTO_PPOLL_CANCELED"}
        /\ at[t] = "kernel" =>
             c.wait_state \notin {"WSTATE_RESTARTED_INTO_PPOLL",
                                  "WSTATE_RESTARTED_INTO_PPOLL_CANCELED"}
        /\ Asleep(c) <=> c.wait_reason = "WR_WAIT_QUEUE_RECV"
        /\ ~Asleep(c) <=> c.wait_reason = "WR_NOT_WAITING"
        /\ c.chain_state = "CSTATE_MSGRCV_RETRY" =>
             /\ c.wait_state \in {"WSTATE_SIGNALED_PPOLL",
                                  "WSTATE_RESTARTED_INTO_PPOLL_CANCELED"}
             /\ c.status_after_wait = "EAGAIN"

(* A sleeper's slot holds the very queue its msgrcv named, although queues *)
(* are removed and slots reused while it sleeps: msgsnd wakes nobody for a *)
(* message of another queue.                                               *)
SleepersHaveQueue ==
  \A t \in Tracees : config[t].wait_reason = "WR_WAIT_QUEUE_RECV" =>
    LET i == config[t].waiting_object_index
    IN  /\ Valid(i)
        /\ asked[t] = [index |-> i, generation |-> queues[i].generation]

Ids(items) == {items[k].id : k \in 1..Len(items)}

(* No message is received twice, or is received and still queued, however  *)
(* receivers, retries and MSG_COPY interleave; and a queue holds a message *)
(* once, in the order they were sent.                                      *)
ReceivedOnce ==
  /\ \A n \in 1..MaxMsgs : received[n] <= 1
  /\ \A i \in 1..Len(queues) : \A k \in 1..Len(queues[i].items) :
       /\ received[queues[i].items[k].id] = 0
       /\ \A j \in 1..(k - 1) : queues[i].items[j].id < queues[i].items[k].id

(* While no queue was removed no message is lost: each one sent is queued  *)
(* or was received.                                                        *)
NoMessageLost ==
  (\A i \in 1..Len(queues) : queues[i].generation = 0) =>
    \A n \in 1..sent : \/ received[n] = 1
                       \/ \E i \in 1..Len(queues) : n \in Ids(queues[i].items)

(* The lengths of the items added up, one after the other.                 *)
LengthsUpTo(items) ==
  LET sum[k \in 0..Len(items)] ==
        IF k = 0 THEN 0 ELSE sum[k - 1] + items[k].length
  IN  sum
TotalLength(items) == LengthsUpTo(items)[Len(items)]

(* What IPC_STAT reports is what the queue holds, also after the slot of a *)
(* removed queue was reused.                                               *)
StatsAgree ==
  \A i \in 1..Len(queues) : Valid(i) =>
    /\ queues[i].msg_qnum = Len(queues[i].items)
    /\ queues[i].msg_cbytes = TotalLength(queues[i].items)

(* The bookkeeping of a queue and of who sleeps on it, together.           *)
QueuesAgree == TypeOK /\ SleepersHaveQueue /\ StatsAgree

(* t sleeps although a message it could take is queued.                    *)
Stranded(t) ==
  /\ config[t].wait_reason = "WR_WAIT_QUEUE_RECV"
  /\ LET items == queues[config[t].waiting_object_index].items
     IN  Candidates(items, msgrcv[t]) # {}

Woken(r) == at[r] # "none" /\ config[r].chain_state = "CSTATE_MSGRCV_RETRY"

(* Nobody is on its way to the queue t sleeps on.                          *)
Abandoned(t) ==
  /\ Stranded(t)
  /\ ~\E r \in Tracees :
        /\ Woken(r) /\ at[r] # "dead"
        /\ config[r].waiting_object_index = config[t].waiting_object_index

(* The wake-up went to a receiver that was killed before its retry.        *)
Wasted(r) == Woken(r) /\ at[r] = "dead"

(* A receiver is left asleep next to a message it could take, and nobody   *)
(* is on its way to look for one, only because the receiver that was woken *)
(* is killed, before or after the wake-up: no other order of sends,        *)
(* retries, time-outs and guest signals loses a wake-up, although msgsnd   *)
(* wakes a single receiver and lets it race with every other tracee.       *)
(* (sysvipc_msg.c 143: "Deliver to waiting msgrcv".)  It needs that a      *)
(* woken receiver which finds its message gone was the only one: with      *)
(* three receivers asleep, two of them woken for messages of different     *)
(* types, one may take the other's and leave its own behind.               *)
StrandedByDeath ==
  [][\A t \in Tracees : Abandoned(t)' /\ ~Abandoned(t) =>
       \E r \in Tracees : Wasted(r)' /\ ~Wasted(r)]_vars

(* sysvipc_msgrcv_retry finds the queue it slept on: assert(queue->valid)  *)
(* in line 259.                                                            *)
RetryFindsQueue == ~aborted

(* Nobody sleeps on next to a message it could take: whoever is on its way *)
(* to the queue gets there, unless it is killed, and then nobody is.       *)
StrandedIsServed ==
  LET Unserved == \E t \in Tracees : Stranded(t) /\ ~Abandoned(t)
  IN  Unserved ~> ~Unserved

=============================================================================
