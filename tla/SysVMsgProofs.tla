---------------------------- MODULE SysVMsgProofs ----------------------------
(***************************************************************************)
(* Proofs about the message queues, for any number of tracees, queues,     *)
(* messages, removals and kinds of msgrcv.                                 *)
(***************************************************************************)
EXTENDS SysVMsg, LoopLemmas

(* Where a tracee is and its config fit together: WaitStatesAgree of one   *)
(* tracee, and which chain states a message queue call uses.               *)
Fits(a, c) ==
  /\ a \in {"none", "user"} =>
       /\ c.wait_state = "WSTATE_NOT_WAITING"
       /\ c.chain_state = "CSTATE_NOT_CHAINED"
  /\ a = "rewound" =>
       c.wait_state \in {"WSTATE_RESTARTED_INTO_PPOLL",
                         "WSTATE_RESTARTED_INTO_PPOLL_CANCELED"}
  /\ a = "kernel" =>
       c.wait_state \notin {"WSTATE_RESTARTED_INTO_PPOLL",
                            "WSTATE_RESTARTED_INTO_PPOLL_CANCELED"}
  /\ Asleep(c) => c.wait_reason = "WR_WAIT_QUEUE_RECV"
  /\ ~Asleep(c) => c.wait_reason = "WR_NOT_WAITING"
  /\ c.chain_state \in {"CSTATE_NOT_CHAINED", "CSTATE_MSGRCV_RETRY"}
  /\ c.chain_state = "CSTATE_MSGRCV_RETRY" =>
       /\ c.wait_state \in {"WSTATE_SIGNALED_PPOLL",
                            "WSTATE_RESTARTED_INTO_PPOLL_CANCELED"}
       /\ c.status_after_wait = "EAGAIN"

(* The walk over the tracees reaches everyone who has a config.            *)
EveryoneListed ==
  \A t \in Tracees : at[t] # "none" =>
    \E k \in 1..Len(tracees) : tracees[k] = t

IpcInv ==
  /\ IpcTypeOK
  /\ \A t \in Tracees : Fits(at[t], config[t])
  /\ EveryoneListed

(* A queue on its own: what it counts, that its messages were sent and not *)
(* yet received, and their order.                                          *)
QueueOK(q, n, r) ==
  /\ q \in Queue
  /\ q.valid => /\ q.msg_qnum = Len(q.items)
                /\ q.msg_cbytes = TotalLength(q.items)
  /\ ~q.valid => q.generation > 0
  /\ \A k \in 1..Len(q.items) : q.items[k].id <= n /\ r[q.items[k].id] = 0
  /\ \A k \in 1..Len(q.items) : \A j \in 1..(k - 1) :
       q.items[j].id < q.items[k].id

(* No message is in two queues.                                            *)
IdsApart ==
  \A i, j \in 1..Len(queues) :
    i # j => Ids(queues[i].items) \cap Ids(queues[j].items) = {}

DataInv ==
  /\ queues \in Seq(Queue) /\ Len(queues) <= MaxQueues
  /\ sent \in 0..MaxMsgs
  /\ received \in [1..MaxMsgs -> Nat]
  /\ \A n \in 1..MaxMsgs : received[n] <= 1 /\ (n > sent => received[n] = 0)
  /\ \A i \in 1..Len(queues) : QueueOK(queues[i], sent, received)
  /\ IdsApart
  /\ NoMessageLost

ArgsInv ==
  /\ msgrcv \in [Tracees -> RcvArgs \cup {NoArgs}]
  /\ aborted \in BOOLEAN
  /\ asked \in [Tracees -> [index : 0..MaxQueues, generation : 0..MaxGeneration]]

(* The inductive invariant.  What the runs check is not inductive by       *)
(* itself: a message must be in one queue only for its receipt to leave    *)
(* the others alone, and msgctl(IPC_RMID) reaches only who is listed.      *)
Inv == IpcInv /\ DataInv /\ ArgsInv /\ SleepersHaveQueue

-----------------------------------------------------------------------------
(* Items.                                                                  *)

(* The running sum of the lengths is well defined.                         *)
LEMMA LengthsFacts ==
  ASSUME NEW items \in Seq(Item)
  PROVE  /\ LengthsUpTo(items)[0] = 0
         /\ \A k \in 1..Len(items) :
              LengthsUpTo(items)[k] = LengthsUpTo(items)[k - 1] + items[k].length
         /\ \A k \in 0..Len(items) : LengthsUpTo(items)[k] \in Nat
<1> DEFINE n == Len(items)
           F == [k \in 1..n |-> [z \in Nat |-> z + items[k].length]]
           Eq(f) == f = [k \in 0..n |->
                           IF k = 0 THEN 0 ELSE f[k - 1] + items[k].length]
<1>1. n \in Nat /\ 0 \in Nat
  OBVIOUS
<1>2. ASSUME NEW k \in 1..n PROVE items[k].length \in Nat
  <2>1. items[k] \in Item OBVIOUS
  <2> QED BY <2>1 DEF Item
<1>3. F \in [1..n -> [Nat -> Nat]]
  BY <1>2
<1>4. PICK f : IsLoop(f, n, Nat, 0, F)
  <2> HIDE DEF n, F
  <2> QED BY <1>1, <1>3, Iterate, Zenon
<1>5. Eq(f)
  <2>1. ASSUME NEW k \in 0..n
        PROVE  f[k] = IF k = 0 THEN 0 ELSE f[k - 1] + items[k].length
    <3>1. CASE k = 0 BY <1>4, <3>1 DEF IsLoop
    <3>2. CASE k # 0
      <4>1. k \in 1..n /\ k - 1 \in 0..n BY <1>1, <3>2
      <4>2. f \in [0..n -> Nat] /\ f[k] = F[k][f[k - 1]]
        <5> HIDE DEF F
        <5> QED BY <1>4, <4>1 DEF IsLoop
      <4>3. f[k - 1] \in Nat BY <4>1, <4>2
      <4> QED BY <3>2, <4>1, <4>2, <4>3
    <3> QED BY <3>1, <3>2
  <2> QED BY <1>4, <2>1 DEF IsLoop
<1> DEFINE r == LengthsUpTo(items)
<1>6. Eq(r)
  <2>1. r = CHOOSE g : Eq(g)
    BY DEF LengthsUpTo
  <2> HIDE DEF r, Eq
  <2> QED BY <2>1, <1>5, Zenon
<1>7. r[0] = 0 /\ \A k \in 1..n : r[k] = r[k - 1] + items[k].length
  <2> HIDE DEF r
  <2> QED BY <1>1, <1>6
<1> HIDE DEF r
<1>8. \A k \in 0..n : r[k] \in Nat
  <2> DEFINE S == {k \in 0..n : r[k] \in Nat}
  <2>1. 0 \in S BY <1>1, <1>7
  <2>2. ASSUME NEW k \in 1..n, k - 1 \in S PROVE k \in S
    BY <2>2, <1>7, <1>2
  <2> HIDE DEF S
  <2>3. \A k \in 0..n : k \in S
    BY <1>1, <2>1, <2>2, UpTo
  <2> QED BY <2>3 DEF S
<1> QED BY <1>7, <1>8 DEF r

(* A new item adds its length.                                             *)
LEMMA TotalOfAppend ==
  ASSUME NEW items \in Seq(Item), NEW x \in Item
  PROVE  /\ TotalLength(Append(items, x)) = TotalLength(items) + x.length
         /\ TotalLength(items) \in Nat
<1> DEFINE r == Append(items, x)
           n == Len(items)
<1>1. /\ r \in Seq(Item) /\ Len(r) = n + 1 /\ r[n + 1] = x /\ n \in Nat
      /\ \A k \in 1..n : r[k] = items[k]
  OBVIOUS
<1>2. /\ LengthsUpTo(items)[0] = 0
      /\ \A k \in 1..n :
           LengthsUpTo(items)[k] = LengthsUpTo(items)[k - 1] + items[k].length
      /\ \A k \in 0..n : LengthsUpTo(items)[k] \in Nat
  BY LengthsFacts
<1> HIDE DEF r
<1>3. /\ LengthsUpTo(r)[0] = 0
      /\ \A k \in 1..(n + 1) :
           LengthsUpTo(r)[k] = LengthsUpTo(r)[k - 1] + r[k].length
  BY <1>1, LengthsFacts
<1>4. LengthsUpTo(r)[n] = LengthsUpTo(items)[n]
  <2> DEFINE S == {k \in 0..n : LengthsUpTo(r)[k] = LengthsUpTo(items)[k]}
  <2>1. 0 \in S BY <1>1, <1>2, <1>3
  <2>2. ASSUME NEW k \in 1..n, k - 1 \in S PROVE k \in S
    <3>1. k \in 1..(n + 1) /\ r[k] = items[k] BY <1>1
    <3> QED BY <2>2, <3>1, <1>2, <1>3
  <2> HIDE DEF S
  <2>3. \A k \in 0..n : k \in S
    BY <1>1, <2>1, <2>2, UpTo
  <2> QED BY <1>1, <2>3 DEF S
<1>5. n + 1 \in 1..(n + 1) /\ (n + 1) - 1 = n
  BY <1>1
<1>6. LengthsUpTo(r)[n + 1] = LengthsUpTo(r)[n] + x.length
  BY <1>1, <1>3, <1>5
<1> QED BY <1>1, <1>2, <1>4, <1>6 DEF TotalLength, r

(* Unlinking an item takes its length off the total.                       *)
LEMMA TotalOfWithout ==
  ASSUME NEW items \in Seq(Item), NEW k \in 1..Len(items)
  PROVE  /\ TotalLength(Without(items, k)) = TotalLength(items) - items[k].length
         /\ TotalLength(Without(items, k)) \in Nat
<1> DEFINE r == Without(items, k)
           n == Len(items)
           sum(j) == LengthsUpTo(items)[j]
           rest(j) == LengthsUpTo(r)[j]
<1>1. /\ r \in Seq(Item) /\ Len(r) = n - 1 /\ n \in Nat
      /\ \A j \in 1..(k - 1) : r[j] = items[j]
      /\ \A j \in k..(n - 1) : r[j] = items[j + 1]
  <2> DEFINE u == SubSeq(items, 1, k - 1) \o SubSeq(items, k + 1, Len(items))
  <2>1. /\ u \in Seq(Item) /\ Len(u) = Len(items) - 1
        /\ \A j \in 1..(k - 1) : u[j] = items[j]
        /\ \A j \in k..(Len(items) - 1) : u[j] = items[j + 1]
    BY UnlinkedList
  <2>2. u = r BY DEF Without
  <2> HIDE DEF u, r
  <2> QED BY <2>1, <2>2
<1>2. /\ sum(0) = 0
      /\ \A j \in 1..n : sum(j) = sum(j - 1) + items[j].length
      /\ \A j \in 0..n : sum(j) \in Nat
  BY LengthsFacts
<1> HIDE DEF r
<1>3. /\ rest(0) = 0
      /\ \A j \in 1..(n - 1) : rest(j) = rest(j - 1) + r[j].length
      /\ \A j \in 0..(n - 1) : rest(j) \in Nat
  BY <1>1, LengthsFacts
<1>4. \A j \in 1..n : items[j].length \in Nat
  <2>1. \A j \in 1..n : items[j] \in Item OBVIOUS
  <2> QED BY <2>1 DEF Item
<1> HIDE DEF sum, rest
<1>5. ASSUME NEW j \in 0..(n - 1)
      PROVE  rest(j) = IF j < k THEN sum(j) ELSE sum(j + 1) - items[k].length
  <2> DEFINE S == {m \in 0..(n - 1) :
                     rest(m) = IF m < k THEN sum(m)
                               ELSE sum(m + 1) - items[k].length}
  <2>1. 0 \in S BY <1>1, <1>2, <1>3
  <2>2. ASSUME NEW m \in 1..(n - 1), m - 1 \in S PROVE m \in S
    <3>1. rest(m) = rest(m - 1) + r[m].length BY <1>3
    <3>2. rest(m - 1) = IF m - 1 < k THEN sum(m - 1)
                        ELSE sum((m - 1) + 1) - items[k].length
      BY <2>2
    <3>3. /\ m \in 1..n /\ m + 1 \in 1..n /\ (m - 1) + 1 = m /\ (m + 1) - 1 = m
          /\ m - 1 \in 0..n /\ m \in 0..n /\ m + 1 \in 0..n
      BY <1>1
    <3>4. sum(m) = sum(m - 1) + items[m].length BY <1>2, <3>3
    <3>5. sum(m + 1) = sum(m) + items[m + 1].length
      <4>1. sum(m + 1) = sum((m + 1) - 1) + items[m + 1].length BY <1>2, <3>3
      <4> QED BY <3>3, <4>1
    <3>6. sum(m - 1) \in Nat /\ sum(m) \in Nat /\ sum(m + 1) \in Nat
      BY <1>2, <3>3
    <3>7. items[m].length \in Nat /\ items[m + 1].length \in Nat
          /\ items[k].length \in Nat
      BY <1>4, <3>3
    <3>8. CASE m < k
      <4>1. r[m] = items[m] BY <1>1, <3>8
      <4>2. rest(m) = sum(m) BY <3>1, <3>2, <3>4, <3>8, <4>1, <3>3
      <4> QED BY <3>8, <4>2
    <3>9. CASE m = k
      <4>1. r[m] = items[m + 1] BY <1>1, <3>9
      <4>2. rest(m) = sum(m - 1) + items[m + 1].length BY <3>1, <3>2, <3>9, <4>1
      <4>3. rest(m) = sum(m + 1) - items[k].length
        BY <3>4, <3>5, <3>6, <3>7, <3>9, <4>2
      <4> QED BY <3>9, <4>3
    <3>10. CASE m > k
      <4>1. r[m] = items[m + 1] BY <1>1, <3>10
      <4>2. rest(m - 1) = sum(m) - items[k].length BY <3>2, <3>3, <3>10
      <4>3. rest(m) = sum(m + 1) - items[k].length
        BY <3>1, <3>5, <3>6, <3>7, <4>1, <4>2
      <4> QED BY <3>10, <4>3
    <3> QED BY <3>8, <3>9, <3>10
  <2> HIDE DEF S
  <2>3. n - 1 \in Nat BY <1>1
  <2>4. \A m \in 0..(n - 1) : m \in S
    BY <2>1, <2>2, <2>3, UpTo
  <2> QED BY <2>4 DEF S
<1>6. /\ n - 1 \in 0..(n - 1) /\ n \in 0..n /\ (n - 1) + 1 = n
      /\ n - 1 < k => n = k /\ k \in 1..n
  BY <1>1
<1>7. rest(n - 1) = sum(n) - items[k].length /\ rest(n - 1) \in Nat
  <2>1. rest(n - 1) = IF n - 1 < k THEN sum(n - 1) ELSE sum(n) - items[k].length
    BY <1>5, <1>6
  <2>2. sum(n) = sum(n - 1) + items[n].length BY <1>1, <1>2
  <2>3. sum(n - 1) \in Nat /\ items[n].length \in Nat
    <3>1. n - 1 \in 0..n /\ n \in 1..n BY <1>1
    <3> QED BY <1>2, <1>4, <3>1
  <2>4. rest(n - 1) \in Nat BY <1>3, <1>6
  <2>5. CASE n = k
    <3>1. n - 1 < k BY <1>1, <2>5
    <3>2. rest(n - 1) = sum(n - 1) BY <2>1, <3>1
    <3>3. sum(n) \in Int BY <2>2, <2>3
    <3> QED BY <2>2, <2>3, <2>4, <2>5, <3>2, <3>3
  <2>6. CASE n # k BY <1>6, <2>1, <2>4, <2>6
  <2> QED BY <2>5, <2>6
<1> QED BY <1>1, <1>7 DEF TotalLength, sum, rest, r

-----------------------------------------------------------------------------
(* The queues.                                                             *)

(* The first of a set of positions is in it.                               *)
LEMMA FirstOf ==
  ASSUME NEW S, S \subseteq Nat, S # {}
  PROVE  First(S) \in S
<1>1. \E k \in S : \A j \in S : k <= j
  BY LeastElement
<1> QED BY <1>1 DEF First

(* An empty queue that was never used, or is used again.                   *)
LEMMA EmptyTotal == TotalLength(<<>>) = 0
<1>1. <<>> \in Seq(Item) /\ Len(<<>>) = 0 OBVIOUS
<1>2. LengthsUpTo(<<>>)[0] = 0 BY <1>1, LengthsFacts
<1> QED BY <1>1, <1>2 DEF TotalLength

(* An empty queue satisfies the invariant of queues.                       *)
LEMMA EmptyQueueOK ==
  ASSUME NEW q \in Queue, NEW n, NEW r, q.items = <<>>,
         q.valid => q.msg_qnum = 0 /\ q.msg_cbytes = 0,
         ~q.valid => q.generation > 0
  PROVE  QueueOK(q, n, r)
<1>1. Len(q.items) = 0 /\ TotalLength(q.items) = 0
  BY EmptyTotal
<1>2. 1..Len(q.items) = {}
  BY <1>1
<1> QED BY <1>1, <1>2 DEF QueueOK

(* Emptying a slot (msgget in a free slot, msgctl(IPC_RMID)) keeps the     *)
(* invariant of the data, when the slot has been removed before or is now. *)
LEMMA ClearedSlot ==
  ASSUME DataInv, NEW i \in 1..Len(queues), NEW q \in Queue,
         queues' = [queues EXCEPT ![i] = q], UNCHANGED <<sent, received>>,
         q.items = <<>>, q.generation > 0,
         q.valid => q.msg_qnum = 0 /\ q.msg_cbytes = 0
  PROVE  DataInv'
<1>1. /\ queues \in Seq(Queue) /\ Len(queues) <= MaxQueues
      /\ \A j \in 1..Len(queues) : QueueOK(queues[j], sent, received)
  BY DEF DataInv
<1>2. /\ queues' \in Seq(Queue) /\ Len(queues') = Len(queues)
      /\ queues'[i] = q
      /\ \A j \in 1..Len(queues) : j # i => queues'[j] = queues[j]
  BY <1>1
<1>3. QueueOK(q, sent, received)
  BY EmptyQueueOK
<1>4. \A j \in 1..Len(queues') : QueueOK(queues'[j], sent', received')
  BY <1>1, <1>2, <1>3
<1>5. IdsApart'
  <2>1. Ids(q.items) = {} BY DEF Ids
  <2> QED BY <1>2, <2>1 DEF DataInv, IdsApart
<1>6. NoMessageLost'
  BY <1>2 DEF NoMessageLost, Queue
<1> QED BY <1>1, <1>2, <1>4, <1>5, <1>6 DEF DataInv

(* A new slot keeps the invariant of the data.                             *)
LEMMA NewSlot ==
  ASSUME DataInv, NEW q \in Queue, Len(queues) < MaxQueues,
         queues' = Append(queues, q), UNCHANGED <<sent, received>>,
         q.items = <<>>, q.valid, q.msg_qnum = 0, q.msg_cbytes = 0,
         q.generation = 0
  PROVE  DataInv'
<1>1. /\ queues \in Seq(Queue)
      /\ \A j \in 1..Len(queues) : QueueOK(queues[j], sent, received)
  BY DEF DataInv
<1>2. /\ queues' \in Seq(Queue) /\ Len(queues') = Len(queues) + 1
      /\ queues'[Len(queues) + 1] = q /\ Len(queues) \in Nat
      /\ \A j \in 1..Len(queues) : queues'[j] = queues[j]
  BY <1>1
<1>3. QueueOK(q, sent, received)
  BY EmptyQueueOK
<1>4. \A j \in 1..Len(queues') : QueueOK(queues'[j], sent', received')
  BY <1>1, <1>2, <1>3
<1>5. \A j \in 1..Len(queues') : j \in 1..Len(queues) \/ queues'[j].items = <<>>
  BY <1>2
<1>6. IdsApart'
  <2>1. \A j \in 1..Len(queues') :
          j \in 1..Len(queues) \/ Ids(queues'[j].items) = {}
    BY <1>5 DEF Ids
  <2>2. ASSUME NEW j \in 1..Len(queues'), NEW m \in 1..Len(queues'), j # m
        PROVE  Ids(queues'[j].items) \cap Ids(queues'[m].items) = {}
    <3>1. CASE j \in 1..Len(queues) /\ m \in 1..Len(queues)
      <4>1. Ids(queues[j].items) \cap Ids(queues[m].items) = {}
        BY <2>2, <3>1, Zenon DEF DataInv, IdsApart
      <4> QED BY <1>2, <3>1, <4>1, Zenon
    <3> QED BY <2>1, <3>1
  <2> QED BY <2>2, Zenon DEF IdsApart
<1>7. NoMessageLost'
  <2> SUFFICES ASSUME \A j \in 1..Len(queues') : queues'[j].generation = 0,
                      NEW n \in 1..sent
               PROVE  \/ received[n] = 1
                      \/ \E j \in 1..Len(queues') : n \in Ids(queues'[j].items)
    BY DEF NoMessageLost
  <2>1. \A j \in 1..Len(queues) : queues[j].generation = 0
    BY <1>2
  <2>2. \/ received[n] = 1
        \/ \E j \in 1..Len(queues) : n \in Ids(queues[j].items)
    BY <2>1 DEF DataInv, NoMessageLost
  <2> QED BY <1>2, <2>2
<1>8. Len(queues') <= MaxQueues
  BY <1>2, MsgAssumption
<1> QED BY <1>2, <1>4, <1>6, <1>7, <1>8 DEF DataInv

(* The items of a queue have numbers for ids.                              *)
LEMMA ItemsTyped ==
  ASSUME NEW q \in Queue
  PROVE  /\ q.items \in Seq(Item) /\ Len(q.items) \in Nat
         /\ \A k \in 1..Len(q.items) :
              q.items[k] \in Item /\ q.items[k].id \in 1..MaxMsgs
                /\ q.items[k].id \in Nat
<1>1. q.items \in Seq(Item)
  BY DEF Queue
<1>2. \A k \in 1..Len(q.items) : q.items[k] \in Item
  BY <1>1
<1> QED BY <1>1, <1>2, MsgAssumption DEF Item

(* A step that changes one queue keeps the invariant of the data, when     *)
(* every message now in that queue is in no other.                         *)
LEMMA ChangedQueue ==
  ASSUME DataInv, NEW i \in 1..Len(queues), NEW q,
         queues' = [queues EXCEPT ![i] = q],
         sent' \in 0..MaxMsgs, received' \in [1..MaxMsgs -> Nat],
         \A n \in 1..MaxMsgs :
           received'[n] <= 1 /\ (n > sent' => received'[n] = 0),
         QueueOK(q, sent', received'),
         \A j \in 1..Len(queues) : j # i => QueueOK(queues[j], sent', received'),
         \A j \in 1..Len(queues) :
           j # i => Ids(q.items) \cap Ids(queues[j].items) = {},
         NoMessageLost'
  PROVE  /\ DataInv'
         /\ Len(queues') = Len(queues) /\ queues'[i] = q
         /\ \A j \in 1..Len(queues) : j # i => queues'[j] = queues[j]
<1>1. queues \in Seq(Queue) /\ q \in Queue /\ Len(queues) <= MaxQueues
  BY DEF DataInv, QueueOK
<1>2. /\ queues' \in Seq(Queue) /\ Len(queues') = Len(queues) /\ queues'[i] = q
      /\ \A j \in 1..Len(queues) : j # i => queues'[j] = queues[j]
  BY <1>1
<1>3. \A j \in 1..Len(queues') : QueueOK(queues'[j], sent', received')
  BY <1>2
<1>4. IdsApart'
  <2> SUFFICES ASSUME NEW j \in 1..Len(queues), NEW m \in 1..Len(queues), j # m
               PROVE  Ids(queues'[j].items) \cap Ids(queues'[m].items) = {}
    <3>1. 1..Len(queues') = 1..Len(queues) BY <1>2
    <3> QED BY <3>1, Zenon DEF IdsApart
  <2>1. Ids(queues[j].items) \cap Ids(queues[m].items) = {}
    BY Zenon DEF DataInv, IdsApart
  <2>2. CASE j # i /\ m # i BY <1>2, <2>1, <2>2, Zenon
  <2>3. CASE j = i BY <1>2, <2>3
  <2>4. CASE m = i BY <1>2, <2>4
  <2> QED BY <2>2, <2>3, <2>4
<1> QED BY <1>1, <1>2, <1>3, <1>4 DEF DataInv

(* Queue q after the n+1-st message is appended.                           *)
SentTo(q, n, text) ==
  [q EXCEPT !.items = Append(@, [mtype |-> text.mtype, length |-> text.length,
                                 id |-> n + 1]),
            !.msg_qnum = @ + 1, !.msg_cbytes = @ + text.length]

(* The queue stays in order, and its counters right.                       *)
LEMMA SentToOK ==
  ASSUME NEW n \in 0..MaxMsgs, n < MaxMsgs, NEW r, NEW q, QueueOK(q, n, r),
         q.valid, NEW text \in Text, r[n + 1] = 0,
         NEW p, p = SentTo(q, n, text)
  PROVE  /\ QueueOK(p, n + 1, r) /\ p.valid /\ p.generation = q.generation
         /\ Len(p.items) = Len(q.items) + 1
         /\ p.items[Len(q.items) + 1].id = n + 1
         /\ \A k \in 1..Len(q.items) : p.items[k] = q.items[k]
<1> DEFINE x == [mtype |-> text.mtype, length |-> text.length, id |-> n + 1]
           old == q.items
           new == Append(old, x)
<1>1. /\ q \in Queue /\ old \in Seq(Item) /\ Len(old) \in Nat /\ MaxMsgs \in Nat
      /\ \A k \in 1..Len(old) : old[k].id \in Nat /\ old[k].id <= n
  BY ItemsTyped, MsgAssumption DEF QueueOK
<1>2. x \in Item /\ x.id = n + 1 /\ x.length = text.length /\ text.length \in Nat
  BY <1>1 DEF Item, Text
<1>3. /\ new \in Seq(Item) /\ Len(new) = Len(old) + 1
      /\ new[Len(old) + 1] = x /\ \A k \in 1..Len(old) : new[k] = old[k]
  <2> HIDE DEF x, old
  <2> QED BY <1>1, <1>2
<1>4. TotalLength(new) = TotalLength(old) + text.length
  BY <1>1, <1>2, TotalOfAppend
<1>5. p = [q EXCEPT !.items = new, !.msg_qnum = @ + 1, !.msg_cbytes = @ + text.length]
  BY DEF SentTo
<1> HIDE DEF new, x
<1>6. /\ p \in Queue /\ p.items = new /\ p.valid
      /\ p.generation = q.generation
      /\ p.msg_qnum = q.msg_qnum + 1
      /\ p.msg_cbytes = q.msg_cbytes + text.length
  <2>1. /\ q.msg_qnum + 1 \in Nat /\ q.msg_cbytes + text.length \in Nat
    <3>1. q.msg_qnum \in Nat /\ q.msg_cbytes \in Nat BY <1>1 DEF Queue
    <3> QED BY <1>2, <3>1
  <2>2. PICK S : S = Seq(Item) OBVIOUS
  <2>3. q \in [key : Keys, generation : 0..MaxGeneration, valid : BOOLEAN,
               items : S, msg_qnum : Nat, msg_cbytes : Nat] /\ new \in S
    BY <1>1, <1>3, <2>2 DEF Queue
  <2>4. p \in [key : Keys, generation : 0..MaxGeneration, valid : BOOLEAN,
               items : S, msg_qnum : Nat, msg_cbytes : Nat]
    BY <1>5, <2>1, <2>3
  <2> QED BY <1>5, <2>2, <2>3, <2>4 DEF Queue
<1>7. p.msg_qnum = Len(p.items) /\ p.msg_cbytes = TotalLength(p.items)
  BY <1>3, <1>4, <1>6 DEF QueueOK
<1>8. ASSUME NEW k \in 1..Len(new)
      PROVE  /\ new[k].id <= n + 1 /\ r[new[k].id] = 0
             /\ \A j \in 1..(k - 1) : new[j].id < new[k].id
  <2>1. CASE k = Len(old) + 1
    <3>1. new[k].id = n + 1 BY <1>2, <1>3, <2>1
    <3>2. ASSUME NEW j \in 1..(k - 1) PROVE new[j].id < n + 1
      <4>1. j \in 1..Len(old) BY <1>1, <2>1
      <4>2. new[j] = old[j] /\ old[j].id \in Nat /\ old[j].id <= n
        BY <1>1, <1>3, <4>1
      <4> QED BY <4>2
    <3> QED BY <3>1, <3>2
  <2>2. CASE k # Len(old) + 1
    <3>1. k \in 1..Len(old) BY <1>1, <1>3, <2>2
    <3>2. new[k] = old[k] BY <1>3, <3>1
    <3>3. ASSUME NEW j \in 1..(k - 1) PROVE new[j].id < old[k].id
      <4>1. j \in 1..Len(old) BY <1>1, <3>1
      <4>2. new[j] = old[j] BY <1>3, <4>1
      <4>3. old[j].id < old[k].id BY <3>1 DEF QueueOK
      <4> QED BY <4>2, <4>3
    <3>4. old[k].id <= n + 1 BY <1>1, <3>1
    <3>5. r[old[k].id] = 0 BY <3>1 DEF QueueOK
    <3> QED BY <3>2, <3>3, <3>4, <3>5
  <2> QED BY <2>1, <2>2
<1>9. QueueOK(p, n + 1, r)
  BY <1>6, <1>7, <1>8 DEF QueueOK
<1> QED BY <1>2, <1>3, <1>6, <1>9

(* Appending a message nobody has seen keeps the invariant of the data.    *)
LEMMA SentMessage ==
  ASSUME DataInv, NEW i \in 1..Len(queues), queues[i].valid, sent < MaxMsgs,
         NEW text \in Text, queues' = [queues EXCEPT ![i] = SentTo(@, sent, text)],
         sent' = sent + 1, received' = received
  PROVE  /\ DataInv'
         /\ \A j \in Nat : Valid(j) =>
              Valid(j)' /\ queues'[j].generation = queues[j].generation
<1>1. PICK q : q = SentTo(queues[i], sent, text)
  OBVIOUS
<1>2. /\ sent \in 0..MaxMsgs /\ MaxMsgs \in Nat /\ received \in [1..MaxMsgs -> Nat]
      /\ \A n \in 1..MaxMsgs : received[n] <= 1 /\ (n > sent => received[n] = 0)
      /\ \A j \in 1..Len(queues) : QueueOK(queues[j], sent, received)
      /\ \A j \in 1..Len(queues) : queues[j] \in Queue
  BY MsgAssumption DEF DataInv, QueueOK
<1>3. received[sent + 1] = 0
  BY <1>2
<1>4. /\ QueueOK(q, sent + 1, received) /\ q.valid
      /\ q.generation = queues[i].generation
      /\ Len(q.items) = Len(queues[i].items) + 1
      /\ q.items[Len(queues[i].items) + 1].id = sent + 1
      /\ \A k \in 1..Len(queues[i].items) : q.items[k] = queues[i].items[k]
  <2>1. sent < MaxMsgs /\ queues[i].valid /\ QueueOK(queues[i], sent, received)
    BY <1>2
  <2>2. sent \in 0..MaxMsgs BY <1>2
  <2> HIDE DEF DataInv
  <2> QED BY ONLY <1>1, <1>3, <2>1, <2>2, text \in Text, SentToOK
<1>5. queues' = [queues EXCEPT ![i] = q]
  BY <1>1
<1>6. ASSUME NEW j \in 1..Len(queues)
      PROVE  /\ Len(queues[j].items) \in Nat
             /\ \A l \in 1..Len(queues[j].items) :
                  queues[j].items[l].id \in Nat /\ queues[j].items[l].id <= sent
  BY <1>2, ItemsTyped DEF QueueOK
<1>7. \A j \in 1..Len(queues) : QueueOK(queues[j], sent + 1, received)
  <2> SUFFICES ASSUME NEW j \in 1..Len(queues)
               PROVE  QueueOK(queues[j], sent + 1, received)
    OBVIOUS
  <2>1. QueueOK(queues[j], sent, received) BY <1>2
  <2>2. \A l \in 1..Len(queues[j].items) : queues[j].items[l].id <= sent + 1
    BY <1>2, <1>6
  <2> QED BY <2>1, <2>2 DEF QueueOK
<1>8. /\ Ids(queues[i].items) \subseteq Ids(q.items)
      /\ sent + 1 \in Ids(q.items)
      /\ Ids(q.items) \subseteq Ids(queues[i].items) \cup {sent + 1}
      /\ \A j \in 1..Len(queues) : sent + 1 \notin Ids(queues[j].items)
  <2>1. /\ 1..Len(q.items) = 1..Len(queues[i].items) \cup {Len(queues[i].items) + 1}
        /\ Len(queues[i].items) + 1 \in 1..Len(q.items)
    BY <1>4, <1>6
  <2>2. \A j \in 1..Len(queues) : sent + 1 \notin Ids(queues[j].items)
    BY <1>2, <1>6 DEF Ids
  <2>3. ASSUME NEW k \in 1..Len(queues[i].items)
        PROVE  queues[i].items[k].id \in Ids(q.items)
    BY <1>4, <2>1 DEF Ids
  <2>4. ASSUME NEW k \in 1..Len(q.items)
        PROVE  q.items[k].id \in Ids(queues[i].items) \cup {sent + 1}
    BY <1>4, <2>1 DEF Ids
  <2> QED BY <1>4, <2>1, <2>2, <2>3, <2>4, Zenon DEF Ids
<1>9. /\ queues \in Seq(Queue) /\ q \in Queue /\ Len(queues') = Len(queues)
      /\ queues'[i] = q
      /\ \A j \in 1..Len(queues) : j # i => queues'[j] = queues[j]
  <2>1. queues \in Seq(Queue) /\ q \in Queue BY <1>4 DEF DataInv, QueueOK
  <2> QED BY <1>5, <2>1
<1>10. NoMessageLost'
  <2> SUFFICES ASSUME \A j \in 1..Len(queues') : queues'[j].generation = 0,
                      NEW n \in 1..sent'
               PROVE  \/ received'[n] = 1
                      \/ \E j \in 1..Len(queues') : n \in Ids(queues'[j].items)
    BY DEF NoMessageLost
  <2>1. CASE n = sent + 1 BY <1>8, <1>9, <2>1
  <2>2. CASE n # sent + 1
    <3>1. n \in 1..sent BY <1>2, <2>2
    <3>2. \A j \in 1..Len(queues) : queues[j].generation = 0 BY <1>4, <1>9
    <3>3. \/ received[n] = 1
          \/ \E j \in 1..Len(queues) : n \in Ids(queues[j].items)
      BY <3>1, <3>2 DEF DataInv, NoMessageLost
    <3>4. ASSUME NEW j \in 1..Len(queues), n \in Ids(queues[j].items)
          PROVE  n \in Ids(queues'[j].items)
      BY <1>8, <1>9, <3>4
    <3> QED BY <1>9, <3>3, <3>4
  <2> QED BY <2>1, <2>2
<1>11. /\ sent' \in 0..MaxMsgs /\ received' \in [1..MaxMsgs -> Nat]
       /\ \A n \in 1..MaxMsgs :
            received'[n] <= 1 /\ (n > sent' => received'[n] = 0)
  BY <1>2
<1>12. DataInv'
  <2>1. /\ QueueOK(q, sent', received')
        /\ \A j \in 1..Len(queues) : j # i => QueueOK(queues[j], sent', received')
    BY <1>4, <1>7, Zenon
  <2>2. \A j \in 1..Len(queues) :
          j # i => Ids(q.items) \cap Ids(queues[j].items) = {}
    BY <1>8 DEF DataInv, IdsApart
  <2> QED BY <1>5, <1>10, <1>11, <2>1, <2>2, ChangedQueue, Zenon
<1> QED BY <1>4, <1>9, <1>12 DEF Valid

(* The rest of a queue whose k-th message is taken.                        *)
LEMMA TakenOK ==
  ASSUME NEW n \in Nat, NEW r, NEW q, QueueOK(q, n, r), q.valid,
         NEW k \in 1..Len(q.items), NEW p, p = Taken(q, k)
  PROVE  /\ QueueOK(p, n, r) /\ p.valid /\ p.generation = q.generation
         /\ q.items[k].id \notin Ids(p.items)
         /\ Ids(p.items) \subseteq Ids(q.items)
         /\ Ids(q.items) \subseteq Ids(p.items) \cup {q.items[k].id}
<1> DEFINE old == q.items
           new == Without(old, k)
           up(j) == IF j < k THEN j ELSE j + 1
<1>1. /\ q \in Queue /\ old \in Seq(Item) /\ Len(old) \in Nat
      /\ \A j \in 1..Len(old) : old[j].id \in Nat /\ old[j].id \in 1..MaxMsgs
      /\ \A j \in 1..Len(old) : old[j].id <= n /\ r[old[j].id] = 0
      /\ \A j \in 1..Len(old) : \A i \in 1..(j - 1) : old[i].id < old[j].id
  BY ItemsTyped DEF QueueOK
<1>2. /\ new \in Seq(Item) /\ Len(new) = Len(old) - 1
      /\ \A j \in 1..(k - 1) : new[j] = old[j]
      /\ \A j \in k..(Len(old) - 1) : new[j] = old[j + 1]
  <2> DEFINE u == SubSeq(old, 1, k - 1) \o SubSeq(old, k + 1, Len(old))
  <2>1. /\ u \in Seq(Item) /\ Len(u) = Len(old) - 1
        /\ \A j \in 1..(k - 1) : u[j] = old[j]
        /\ \A j \in k..(Len(old) - 1) : u[j] = old[j + 1]
    <3>1. old \in Seq(Item) /\ k \in 1..Len(old) BY <1>1
    <3> HIDE DEF old
    <3> QED BY ONLY <3>1, UnlinkedList
  <2>2. u = new BY DEF Without
  <2> HIDE DEF u, new
  <2> QED BY <2>1, <2>2
<1>3. /\ TotalLength(new) = TotalLength(old) - old[k].length
      /\ TotalLength(new) \in Nat
  BY <1>1, TotalOfWithout
<1>4. p = [q EXCEPT !.items = new, !.msg_qnum = @ - 1,
                    !.msg_cbytes = @ - old[k].length]
  BY DEF Taken
<1> HIDE DEF new
<1>5. q.msg_qnum = Len(old) /\ q.msg_cbytes = TotalLength(old)
  BY DEF QueueOK
<1>6. /\ p \in Queue /\ p.items = new /\ p.valid
      /\ p.generation = q.generation
      /\ p.msg_qnum = Len(new) /\ p.msg_cbytes = TotalLength(new)
  <2>1. q.msg_qnum - 1 = Len(new) /\ q.msg_cbytes - old[k].length = TotalLength(new)
    BY <1>2, <1>3, <1>5
  <2>2. Len(new) \in Nat BY <1>1, <1>2
  <2>3. PICK S : S = Seq(Item) OBVIOUS
  <2>4. q \in [key : Keys, generation : 0..MaxGeneration, valid : BOOLEAN,
               items : S, msg_qnum : Nat, msg_cbytes : Nat] /\ new \in S
    BY <1>1, <1>2, <2>3 DEF Queue
  <2>5. p = [q EXCEPT !.items = new, !.msg_qnum = Len(new),
                      !.msg_cbytes = TotalLength(new)]
    BY <1>4, <2>1
  <2>6. p \in [key : Keys, generation : 0..MaxGeneration, valid : BOOLEAN,
               items : S, msg_qnum : Nat, msg_cbytes : Nat]
    BY <1>3, <2>2, <2>4, <2>5
  <2> QED BY <2>3, <2>4, <2>5, <2>6 DEF Queue
<1>7. ASSUME NEW j \in 1..Len(new)
      PROVE  up(j) \in 1..Len(old) /\ up(j) # k /\ new[j] = old[up(j)]
  BY <1>1, <1>2
<1>8. ASSUME NEW j \in 1..Len(old), j # k
      PROVE  old[j].id # old[k].id
  <2>1. CASE j < k
    <3>1. j \in 1..(k - 1) BY <2>1
    <3>2. old[j].id < old[k].id BY <1>1, <3>1
    <3> QED BY <1>1, <3>2
  <2>2. CASE k < j
    <3>1. k \in 1..(j - 1) BY <2>2
    <3>2. old[k].id < old[j].id BY <1>1, <3>1
    <3> QED BY <1>1, <3>2
  <2> QED BY <1>8, <2>1, <2>2
<1>9. ASSUME NEW j \in 1..Len(new)
      PROVE  /\ new[j].id <= n /\ r[new[j].id] = 0 /\ new[j].id # old[k].id
             /\ \A i \in 1..(j - 1) : new[i].id < new[j].id
  <2>1. new[j].id <= n /\ r[new[j].id] = 0 /\ new[j].id # old[k].id
    <3>1. PICK m : m = up(j) OBVIOUS
    <3>2. m \in 1..Len(old) /\ m # k /\ new[j] = old[m] BY <1>7, <3>1
    <3> HIDE DEF old, up
    <3> QED BY <1>1, <1>8, <3>2
  <2>2. ASSUME NEW i \in 1..(j - 1) PROVE new[i].id < new[j].id
    <3>1. i \in 1..Len(new) BY <1>1, <1>2
    <3>2. PICK m, l : m = up(j) /\ l = up(i) OBVIOUS
    <3>3. /\ m \in 1..Len(old) /\ new[j] = old[m]
          /\ l \in 1..(m - 1) /\ new[i] = old[l]
      BY <1>7, <3>1, <3>2
    <3> HIDE DEF old, up
    <3> QED BY <1>1, <3>3
  <2> QED BY <2>1, <2>2
<1>10. QueueOK(p, n, r) /\ old[k].id \notin Ids(p.items)
  BY <1>6, <1>9 DEF QueueOK, Ids
<1>11. Ids(p.items) \subseteq Ids(q.items)
  <2>1. \A j \in 1..Len(new) : new[j].id \in Ids(old) BY <1>7 DEF Ids
  <2> QED BY <1>6, <2>1, Zenon DEF Ids
<1>12. Ids(q.items) \subseteq Ids(p.items) \cup {q.items[k].id}
  <2>1. ASSUME NEW j \in 1..Len(old), j # k
        PROVE  \E i \in 1..Len(new) : new[i].id = old[j].id
    <3>1. CASE j < k
      <4>1. j \in 1..Len(new) /\ j \in 1..(k - 1) BY <1>1, <1>2, <3>1
      <4> QED BY <1>2, <4>1
    <3>2. CASE ~(j < k)
      <4>1. /\ j - 1 \in 1..Len(new) /\ j - 1 \in k..(Len(old) - 1)
            /\ (j - 1) + 1 = j
        BY <1>1, <1>2, <2>1, <3>2
      <4>2. new[j - 1] = old[(j - 1) + 1] BY <1>2, <4>1
      <4> QED BY <4>1, <4>2
    <3> QED BY <3>1, <3>2
  <2>2. ASSUME NEW j \in 1..Len(old)
        PROVE  old[j].id \in Ids(new) \cup {old[k].id}
    <3>1. CASE j = k BY <3>1
    <3>2. CASE j # k
      <4>1. PICK i \in 1..Len(new) : new[i].id = old[j].id BY <2>1, <3>2
      <4> QED BY <4>1, Zenon DEF Ids
    <3> QED BY <3>1, <3>2
  <2>3. Ids(old) \subseteq Ids(new) \cup {old[k].id}
    <3>1. \A x \in Ids(old) : \E j \in 1..Len(old) : x = old[j].id
      BY Zenon DEF Ids
    <3> QED BY <2>2, <3>1, Zenon
  <2> QED BY <1>6, <2>3
<1> QED BY <1>6, <1>10, <1>11, <1>12

(* Receiving a message leaves alone every queue that does not hold it.     *)
LEMMA Unaffected ==
  ASSUME NEW q, NEW n, NEW r, QueueOK(q, n, r), NEW id, id \notin Ids(q.items),
         NEW s, \A m \in 1..MaxMsgs : m # id => s[m] = r[m]
  PROVE  QueueOK(q, n, s)
<1>1. ASSUME NEW l \in 1..Len(q.items) PROVE s[q.items[l].id] = 0
  <2>1. q.items[l].id \in 1..MaxMsgs BY ItemsTyped DEF QueueOK
  <2>2. q.items[l].id # id BY DEF Ids
  <2> QED BY <2>1, <2>2 DEF QueueOK
<1> QED BY <1>1 DEF QueueOK

(* Receiving the k-th message of a queue keeps the invariant of the data.  *)
LEMMA TakenMessage ==
  ASSUME DataInv, NEW i \in 1..Len(queues), queues[i].valid,
         NEW k \in 1..Len(queues[i].items),
         queues' = [queues EXCEPT ![i] = Taken(@, k)],
         received' = [received EXCEPT ![queues[i].items[k].id] = @ + 1],
         sent' = sent
  PROVE  /\ DataInv'
         /\ \A j \in Nat : Valid(j) =>
              Valid(j)' /\ queues'[j].generation = queues[j].generation
<1>1. PICK q : q = Taken(queues[i], k)
  OBVIOUS
<1>2. PICK id : id = queues[i].items[k].id
  OBVIOUS
<1>3. /\ sent \in 0..MaxMsgs /\ MaxMsgs \in Nat /\ received \in [1..MaxMsgs -> Nat]
      /\ \A n \in 1..MaxMsgs : received[n] <= 1 /\ (n > sent => received[n] = 0)
      /\ \A j \in 1..Len(queues) : QueueOK(queues[j], sent, received)
      /\ queues \in Seq(Queue)
  BY MsgAssumption DEF DataInv
<1>4. /\ id \in 1..MaxMsgs /\ id <= sent /\ received[id] = 0
      /\ id \in Ids(queues[i].items)
  <2>1. QueueOK(queues[i], sent, received) BY <1>3
  <2>2. queues[i].items[k].id \in 1..MaxMsgs BY <2>1, ItemsTyped DEF QueueOK
  <2> QED BY <1>2, <2>1, <2>2 DEF QueueOK, Ids
<1>5. /\ received' \in [1..MaxMsgs -> Nat] /\ received'[id] = 1
      /\ \A n \in 1..MaxMsgs : n # id => received'[n] = received[n]
  BY <1>2, <1>3, <1>4
<1>6. /\ QueueOK(q, sent, received') /\ q.valid
      /\ q.generation = queues[i].generation
      /\ Ids(q.items) \subseteq Ids(queues[i].items)
      /\ Ids(queues[i].items) \subseteq Ids(q.items) \cup {id}
  <2>1. sent \in Nat /\ QueueOK(queues[i], sent, received) BY <1>3
  <2>2. queues[i].valid /\ k \in 1..Len(queues[i].items) OBVIOUS
  <2>3. /\ QueueOK(q, sent, received) /\ q.valid
        /\ q.generation = queues[i].generation
        /\ queues[i].items[k].id \notin Ids(q.items)
        /\ Ids(q.items) \subseteq Ids(queues[i].items)
        /\ Ids(queues[i].items) \subseteq Ids(q.items) \cup {queues[i].items[k].id}
    BY ONLY <1>1, <2>1, <2>2, TakenOK
  <2>4. QueueOK(q, sent, received')
    <3>1. QueueOK(q, sent, received) /\ id \notin Ids(q.items)
      BY <1>2, <2>3, Zenon
    <3> QED BY ONLY <1>5, <3>1, Unaffected
  <2> QED BY <1>2, <2>3, <2>4, Zenon
<1>7. queues' = [queues EXCEPT ![i] = q]
  BY <1>1
<1>8. /\ q \in Queue /\ Len(queues') = Len(queues) /\ queues'[i] = q
      /\ \A j \in 1..Len(queues) : j # i => queues'[j] = queues[j]
  <2>1. q \in Queue BY <1>6 DEF QueueOK
  <2> QED BY <1>3, <1>7, <2>1
<1>9. ASSUME NEW j \in 1..Len(queues), j # i
      PROVE  /\ QueueOK(queues[j], sent, received')
             /\ Ids(q.items) \cap Ids(queues[j].items) = {}
  <2>1. Ids(queues[i].items) \cap Ids(queues[j].items) = {}
    BY <1>9, Zenon DEF DataInv, IdsApart
  <2>2. id \notin Ids(queues[j].items) BY <1>4, <2>1
  <2>3. QueueOK(queues[j], sent, received) BY <1>3
  <2>4. QueueOK(queues[j], sent, received')
    BY <1>5, <2>2, <2>3, Unaffected
  <2> QED BY <1>6, <2>1, <2>4
<1>10. NoMessageLost'
  <2> SUFFICES ASSUME \A j \in 1..Len(queues') : queues'[j].generation = 0,
                      NEW n \in 1..sent
               PROVE  \/ received'[n] = 1
                      \/ \E j \in 1..Len(queues') : n \in Ids(queues'[j].items)
    BY DEF NoMessageLost
  <2>1. n \in 1..MaxMsgs BY <1>3
  <2>2. CASE n = id BY <1>5, <2>2
  <2>3. CASE n # id
    <3>1. \A j \in 1..Len(queues) : queues[j].generation = 0 BY <1>6, <1>8
    <3>2. \/ received[n] = 1
          \/ \E j \in 1..Len(queues) : n \in Ids(queues[j].items)
      BY <3>1 DEF DataInv, NoMessageLost
    <3>3. CASE received[n] = 1 BY <1>5, <2>1, <2>3, <3>3
    <3>4. ASSUME NEW j \in 1..Len(queues), n \in Ids(queues[j].items)
          PROVE  n \in Ids(queues'[j].items)
      BY <1>6, <1>8, <2>3, <3>4
    <3> QED BY <1>8, <3>2, <3>3, <3>4
  <2> QED BY <2>2, <2>3
<1>11. \A n \in 1..MaxMsgs :
         received'[n] <= 1 /\ (n > sent => received'[n] = 0)
  BY <1>3, <1>4, <1>5
<1>12. DataInv'
  <2>1. /\ sent' \in 0..MaxMsgs
        /\ \A n \in 1..MaxMsgs :
             received'[n] <= 1 /\ (n > sent' => received'[n] = 0)
        /\ QueueOK(q, sent', received')
        /\ \A j \in 1..Len(queues) : j # i => QueueOK(queues[j], sent', received')
        /\ \A j \in 1..Len(queues) :
             j # i => Ids(q.items) \cap Ids(queues[j].items) = {}
    BY <1>3, <1>6, <1>9, <1>11, Zenon
  <2> QED BY <1>5, <1>7, <1>10, <2>1, ChangedQueue, Zenon
<1> QED BY <1>6, <1>8, <1>12 DEF Valid

-----------------------------------------------------------------------------
(* The wait mechanism.                                                     *)

(* What a handler of sysvipc_msg.c hands to sysvipc_syscall_common.        *)
HandlerConfig(c) ==
  /\ c \in Configs
  /\ c.wait_reason \in {"WR_NOT_WAITING", "WR_WAIT_QUEUE_RECV"}
  /\ c.wait_state = "WSTATE_NOT_WAITING"
  /\ c.chain_state = "CSTATE_NOT_CHAINED"

(* A caller has no wait left over: its config is fit for a handler.        *)
LEMMA CallerConfig ==
  ASSUME IpcInv, NEW t \in Tracees, CanCall(t)
  PROVE  HandlerConfig(config[t]) /\ config[t].wait_reason = "WR_NOT_WAITING"
BY DEF IpcInv, IpcTypeOK, Fits, CanCall, HandlerConfig, Asleep

(* sysvipc_syscall_common leaves the caller in a state that fits where it  *)
(* resumes, and keeps what the handler set.                                *)
LEMMA CommonFacts ==
  ASSUME NEW c, HandlerConfig(c), NEW status \in Statuses,
         NEW sigsys \in BOOLEAN
  PROVE  LET d == CommonConfig(c, status, sigsys)
             a == CommonAt(c, sigsys)
         IN  /\ d \in Configs /\ a \in Locations /\ a # "none" /\ Fits(a, d)
             /\ d.wait_reason = c.wait_reason
             /\ d.waiting_object_index = c.waiting_object_index
             /\ d.chain_state = "CSTATE_NOT_CHAINED"
BY DEF HandlerConfig, CommonConfig, CommonAt, Resume, Configs, Locations,
       Asleep, WaitStates, WaitReasons, Fits

(* sysvipc_wake_tracee on a sleeper ends its wait, with a verdict or with  *)
(* a retry to come.                                                        *)
LEMMA WakeFacts ==
  ASSUME NEW c \in Configs, NEW a \in Locations, Fits(a, c), Asleep(c),
         NEW status \in Statuses
  PROVE  LET d == WakeConfig(c, status)
         IN  /\ d \in Configs /\ Fits(a, d)
             /\ d.wait_reason = "WR_NOT_WAITING"
             /\ d.waiting_object_index = c.waiting_object_index
BY DEF WakeConfig, Configs, Asleep, WaitStates, WaitReasons, Fits, Locations

(* A receiver woken by a message keeps a configuration that fits its place *)
(* in the system call, and is chained to try msgrcv again.                 *)
LEMMA RetryFacts ==
  ASSUME NEW c \in Configs, NEW a \in Locations, Fits(a, c), Asleep(c)
  PROVE  LET d == WakeConfig(ToRetry(c), "EAGAIN")
         IN  /\ d \in Configs /\ Fits(a, d)
             /\ d.wait_reason = "WR_NOT_WAITING"
             /\ d.waiting_object_index = c.waiting_object_index
             /\ d.chain_state = "CSTATE_MSGRCV_RETRY"
BY DEF WakeConfig, ToRetry, Configs, Asleep, WaitStates, WaitReasons, Fits,
       Locations, ChainStates, Statuses

(* A step that lists and unlists nobody, and leaves everyone in a state    *)
(* that fits, keeps the wait mechanism sound.                              *)
LEMMA Moved ==
  ASSUME IpcInv, tracees' = tracees,
         at' \in [Tracees -> Locations], config' \in [Tracees -> Configs],
         sigstop' \in [Tracees -> {"SIGSTOP_IGNORED", "SIGSTOP_ALLOWED"}],
         kick' \in [Tracees -> BOOLEAN],
         \A s \in Tracees : /\ Fits(at'[s], config'[s])
                            /\ at'[s] # "none" => at[s] # "none"
  PROVE  IpcInv'
<1>1. IpcTypeOK' BY DEF IpcInv, IpcTypeOK
<1>2. EveryoneListed' BY DEF IpcInv, EveryoneListed
<1> QED BY <1>1, <1>2 DEF IpcInv

(* A handler of t that leaves config c, and leaves the others, awake or    *)
(* asleep, with configs that fit where they are.                           *)
LEMMA HandlerStep ==
  ASSUME IpcInv,
         NEW t \in Tracees, CanCall(t), NEW c, HandlerConfig(c),
         NEW status \in Statuses, NEW sigsys \in BOOLEAN,
         config' \in [Tracees -> Configs],
         config'[t] = CommonConfig(c, status, sigsys),
         \A s \in Tracees : s # t => Fits(at[s], config'[s]),
         at' = [at EXCEPT ![t] = CommonAt(c, sigsys)], tracees' = tracees,
         sigstop' \in [Tracees -> {"SIGSTOP_IGNORED", "SIGSTOP_ALLOWED"}],
         kick' \in [Tracees -> BOOLEAN]
  PROVE  /\ IpcInv'
         /\ config'[t].wait_reason = c.wait_reason
         /\ config'[t].waiting_object_index = c.waiting_object_index
<1> DEFINE d == CommonConfig(c, status, sigsys)
           a == CommonAt(c, sigsys)
<1>1. /\ d \in Configs /\ a \in Locations /\ a # "none" /\ Fits(a, d)
      /\ d.wait_reason = c.wait_reason
      /\ d.waiting_object_index = c.waiting_object_index
  BY CommonFacts
<1>2. config'[t] = d /\ at' = [at EXCEPT ![t] = a]
  OBVIOUS
<1> HIDE DEF d, a
<1>3. at \in [Tracees -> Locations] BY DEF IpcInv, IpcTypeOK
<1>4. /\ at' \in [Tracees -> Locations] /\ at'[t] = a
      /\ \A s \in Tracees : s # t => at'[s] = at[s]
  BY <1>1, <1>2, <1>3
<1>5. ASSUME NEW s \in Tracees
      PROVE  Fits(at'[s], config'[s]) /\ (at'[s] # "none" => at[s] # "none")
  <2>1. CASE s = t BY <1>1, <1>2, <1>4, <2>1 DEF CanCall
  <2>2. CASE s # t BY <1>4, <2>2
  <2> QED BY <2>1, <2>2
<1>6. IpcInv'
  BY <1>4, <1>5, Moved
<1> QED BY <1>1, <1>2, <1>6

(* ... that wakes nobody.                                                  *)
LEMMA CommonStep ==
  ASSUME IpcInv, NEW t \in Tracees, CanCall(t), NEW c, HandlerConfig(c),
         NEW status \in Statuses, NEW sigsys \in BOOLEAN,
         SyscallCommon(t, c, status, sigsys)
  PROVE  /\ IpcInv'
         /\ config'[t].wait_reason = c.wait_reason
         /\ config'[t].waiting_object_index = c.waiting_object_index
         /\ \A s \in Tracees : s # t => config'[s] = config[s]
<1>1. /\ config' = [config EXCEPT ![t] = CommonConfig(c, status, sigsys)]
      /\ at' = [at EXCEPT ![t] = CommonAt(c, sigsys)]
      /\ UNCHANGED <<tracees, sigstop, kick>>
  BY DEF SyscallCommon
<1>2. CommonConfig(c, status, sigsys) \in Configs
  BY CommonFacts
<1>3. /\ config \in [Tracees -> Configs]
      /\ \A s \in Tracees : Fits(at[s], config[s])
      /\ sigstop' \in [Tracees -> {"SIGSTOP_IGNORED", "SIGSTOP_ALLOWED"}]
      /\ kick' \in [Tracees -> BOOLEAN]
  BY <1>1 DEF IpcInv, IpcTypeOK
<1>4. /\ config' \in [Tracees -> Configs]
      /\ config'[t] = CommonConfig(c, status, sigsys)
      /\ \A s \in Tracees : s # t => config'[s] = config[s]
  BY <1>1, <1>2, <1>3
<1>5. \A s \in Tracees : s # t => Fits(at[s], config'[s])
  BY <1>3, <1>4
<1> QED BY <1>1, <1>3, <1>4, <1>5, HandlerStep

(* No step but msgrcv puts a tracee to sleep, and one that removes a queue *)
(* leaves nobody asleep on it.                                             *)
LEMMA SleepersKept ==
  ASSUME SleepersHaveQueue,
         \A s \in Tracees : config'[s].wait_reason = "WR_WAIT_QUEUE_RECV" =>
           /\ config[s].wait_reason = "WR_WAIT_QUEUE_RECV"
           /\ config'[s].waiting_object_index = config[s].waiting_object_index
           /\ asked'[s] = asked[s]
           /\ \A i \in Nat : i = config[s].waiting_object_index /\ Valid(i) =>
                Valid(i)' /\ queues'[i].generation = queues[i].generation,
         config \in [Tracees -> Configs]
  PROVE  SleepersHaveQueue'
<1> SUFFICES ASSUME NEW s \in Tracees,
                    config'[s].wait_reason = "WR_WAIT_QUEUE_RECV"
             PROVE  LET j == config'[s].waiting_object_index
                    IN  /\ j \in 1..Len(queues') /\ queues'[j].valid
                        /\ asked'[s] = [index |-> j,
                                       generation |-> queues'[j].generation]
  BY DEF SleepersHaveQueue, Valid
<1>1. PICK i : i = config[s].waiting_object_index
  OBVIOUS
<1>2. i \in Nat BY <1>1 DEF Configs
<1>3. /\ Valid(i)
      /\ asked[s] = [index |-> i, generation |-> queues[i].generation]
  BY <1>1 DEF SleepersHaveQueue
<1>4. Valid(i)' /\ queues'[i].generation = queues[i].generation
  BY <1>1, <1>2, <1>3
<1>5. config'[s].waiting_object_index = i /\ asked'[s] = asked[s]
  BY <1>1
<1> QED BY <1>3, <1>4, <1>5 DEF Valid

-----------------------------------------------------------------------------
(* The calls.                                                              *)

(* sysvipc_do_msgrcv takes one message or none.                            *)
LEMMA DeliverStep ==
  ASSUME DataInv, NEW i \in Nat, Valid(i), NEW a, Deliver(i, a), sent' = sent
  PROVE  /\ DataInv'
         /\ \A j \in Nat : Valid(j) =>
              Valid(j)' /\ queues'[j].generation = queues[j].generation
<1>1. i \in 1..Len(queues) /\ queues[i].valid
  BY DEF Valid
<1>2. CASE UNCHANGED <<queues, received>>
  BY <1>2 DEF DataInv, IdsApart, NoMessageLost, Valid
<1>3. CASE ~ UNCHANGED <<queues, received>>
  <2> DEFINE C == Candidates(queues[i].items, a)
  <2>1. PICK k : k = First(C)
    OBVIOUS
  <2>2. /\ DoStatus(queues[i].items, a) = "OK" /\ ~a.copy
        /\ queues' = [queues EXCEPT ![i] = Taken(@, k)]
        /\ received' = [received EXCEPT ![queues[i].items[k].id] = @ + 1]
    BY <1>3, <2>1 DEF Deliver
  <2>3. C # {}
    BY <2>2 DEF DoStatus
  <2>4. C \subseteq 1..Len(queues[i].items) /\ C \subseteq Nat
    BY DEF Candidates
  <2>5. k \in 1..Len(queues[i].items)
    BY <2>1, <2>3, <2>4, FirstOf
  <2> HIDE DEF C
  <2> QED BY <1>1, <2>2, <2>5, TakenMessage
<1> QED BY <1>2, <1>3

(* msgget keeps the invariant.                                             *)
LEMMA MsggetCreateInv ==
  ASSUME Inv, NEW t \in Tracees, NEW sigsys \in BOOLEAN, NEW key \in Keys,
         MsggetCreate(t, sigsys, key)
  PROVE  Inv'
<1>1. IpcInv /\ DataInv /\ ArgsInv /\ SleepersHaveQueue /\ CanCall(t)
  BY DEF Inv, MsggetCreate
<1>2. HandlerConfig(config[t])
  BY <1>1, CallerConfig
<1>3. PICK c : c = config[t]
  OBVIOUS
<1>4. SyscallCommon(t, c, "OK", sigsys) /\ "OK" \in Statuses
  BY <1>3 DEF MsggetCreate, Statuses
<1>5. /\ IpcInv'
      /\ config'[t].wait_reason = c.wait_reason
      /\ config'[t].waiting_object_index = c.waiting_object_index
      /\ \A s \in Tracees : s # t => config'[s] = config[s]
  BY <1>1, <1>2, <1>3, <1>4, CommonStep
<1>6. UNCHANGED <<msgrcv, aborted, asked, sent, received>>
  BY DEF MsggetCreate
<1>7. /\ queues \in Seq(Queue) /\ Len(queues) <= MaxQueues
      /\ \A i \in 1..Len(queues) : QueueOK(queues[i], sent, received)
  BY <1>1 DEF DataInv
<1>8. /\ DataInv'
      /\ \A j \in Nat : Valid(j) =>
           Valid(j)' /\ queues'[j].generation = queues[j].generation
  <2>1. CASE FreeSlots # {}
    <3>1. PICK i : i = First(FreeSlots) OBVIOUS
    <3>2. FreeSlots \subseteq Nat BY DEF FreeSlots
    <3>3. i \in 1..Len(queues) /\ ~queues[i].valid
      BY <2>1, <3>1, <3>2, FirstOf DEF FreeSlots
    <3>4. PICK q : q = [queues[i] EXCEPT !.key = key, !.valid = TRUE, !.items = <<>>,
                                         !.msg_qnum = 0, !.msg_cbytes = 0]
      OBVIOUS
    <3>5. queues' = [queues EXCEPT ![i] = q]
      BY <2>1, <3>1, <3>4 DEF MsggetCreate
    <3>6. queues[i] \in Queue /\ queues[i].generation > 0
      BY <1>7, <3>3 DEF QueueOK
    <3>7. /\ q \in Queue /\ q.items = <<>> /\ q.generation > 0
          /\ q.msg_qnum = 0 /\ q.msg_cbytes = 0
      <4>1. PICK S : S = Seq(Item) OBVIOUS
      <4>2. <<>> \in S BY <4>1
      <4>3. queues[i] \in [key : Keys, generation : 0..MaxGeneration, valid : BOOLEAN,
                           items : S, msg_qnum : Nat, msg_cbytes : Nat]
        BY <3>6, <4>1 DEF Queue
      <4>4. q \in [key : Keys, generation : 0..MaxGeneration, valid : BOOLEAN,
                   items : S, msg_qnum : Nat, msg_cbytes : Nat]
        BY <3>4, <4>2, <4>3
      <4> QED BY <3>4, <3>6, <4>1, <4>3, <4>4 DEF Queue
    <3>8. DataInv' BY <1>1, <1>6, <3>3, <3>5, <3>7, ClearedSlot
    <3>9. ASSUME NEW j \in Nat, Valid(j)
          PROVE  Valid(j)' /\ queues'[j].generation = queues[j].generation
      <4>1. j \in 1..Len(queues) /\ queues[j].valid /\ j # i
        BY <3>3, <3>9 DEF Valid
      <4>2. j \in 1..Len(queues') /\ queues'[j] = queues[j]
        BY <1>7, <3>5, <3>7, <4>1
      <4> QED BY <4>1, <4>2 DEF Valid
    <3> QED BY <3>8, <3>9
  <2>2. CASE FreeSlots = {}
    <3>1. PICK q : q = [key |-> key, generation |-> 0, valid |-> TRUE, items |-> <<>>,
                        msg_qnum |-> 0, msg_cbytes |-> 0]
      OBVIOUS
    <3>2. Len(queues) < MaxQueues /\ queues' = Append(queues, q)
      BY <2>2, <3>1 DEF MsggetCreate
    <3>3. q \in Queue BY <3>1, MsgAssumption DEF Queue
    <3>4. DataInv' BY <1>1, <1>6, <3>1, <3>2, <3>3, NewSlot
    <3>5. ASSUME NEW j \in Nat, Valid(j)
          PROVE  Valid(j)' /\ queues'[j].generation = queues[j].generation
      <4>1. j \in 1..Len(queues) /\ queues[j].valid BY <3>5 DEF Valid
      <4>2. j \in 1..Len(queues') /\ queues'[j] = queues[j]
        BY <1>7, <3>2, <3>3, <4>1
      <4> QED BY <4>1, <4>2 DEF Valid
    <3> QED BY <3>4, <3>5
  <2> QED BY <2>1, <2>2
<1>9. SleepersHaveQueue'
  <2>1. \A s \in Tracees :
          /\ config'[s].wait_reason = config[s].wait_reason
          /\ config'[s].waiting_object_index = config[s].waiting_object_index
    BY <1>3, <1>5
  <2>2. config \in [Tracees -> Configs] BY <1>1 DEF IpcInv, IpcTypeOK
  <2> QED BY <1>1, <1>6, <1>8, <2>1, <2>2, SleepersKept
<1> QED BY <1>1, <1>5, <1>6, <1>8, <1>9 DEF Inv, ArgsInv

(* Calls that only report keep the invariant.                              *)
LEMMA QueryInv ==
  ASSUME Inv, NEW t \in Tracees, NEW sigsys \in BOOLEAN,
         NEW status \in {"OK", "ERROR"}, Query(t, sigsys, status)
  PROVE  Inv'
<1>1. IpcInv /\ DataInv /\ ArgsInv /\ SleepersHaveQueue /\ CanCall(t)
  BY DEF Inv, Query
<1>2. PICK c : c = config[t]
  OBVIOUS
<1>3. SyscallCommon(t, c, status, sigsys) /\ status \in Statuses
  BY <1>2 DEF Query, Statuses
<1>4. HandlerConfig(c)
  BY <1>1, <1>2, CallerConfig
<1>5. /\ IpcInv'
      /\ config'[t].wait_reason = c.wait_reason
      /\ config'[t].waiting_object_index = c.waiting_object_index
      /\ \A s \in Tracees : s # t => config'[s] = config[s]
  BY <1>1, <1>3, <1>4, CommonStep
<1>6. UNCHANGED msgVars
  BY DEF Query
<1>7. SleepersHaveQueue'
  <2>1. \A s \in Tracees :
          /\ config'[s].wait_reason = config[s].wait_reason
          /\ config'[s].waiting_object_index = config[s].waiting_object_index
    BY <1>2, <1>5
  <2> QED BY <1>1, <1>6, <2>1 DEF SleepersHaveQueue, Valid, msgVars
<1>8. DataInv' /\ ArgsInv'
  BY <1>1, <1>6 DEF DataInv, IdsApart, NoMessageLost, ArgsInv, msgVars
<1> QED BY <1>5, <1>7, <1>8 DEF Inv

(* msgsnd keeps the invariant: whom it wakes sleeps no more.               *)
LEMMA MsgsndInv ==
  ASSUME Inv, NEW t \in Tracees, NEW sigsys \in BOOLEAN,
         NEW i \in 1..Len(queues), NEW text \in Texts, Msgsnd(t, sigsys, i, text)
  PROVE  Inv'
<1>1. /\ IpcInv /\ DataInv /\ ArgsInv /\ SleepersHaveQueue /\ CanCall(t)
      /\ "OK" \in Statuses
  BY DEF Inv, Msgsnd, Statuses
<1>2. /\ UNCHANGED <<msgrcv, aborted, asked, received>>
      /\ queues[i].valid /\ sent < MaxMsgs /\ sent' = sent + 1 /\ text \in Text
      /\ queues' = [queues EXCEPT ![i] = SentTo(@, sent, text)]
  <2>1. queues \in Seq(Queue) BY <1>1 DEF DataInv
  <2> QED BY <2>1, MsgAssumption DEF Msgsnd, Valid, SentTo
<1>3. /\ DataInv'
      /\ \A j \in Nat : Valid(j) =>
           Valid(j)' /\ queues'[j].generation = queues[j].generation
  BY <1>1, <1>2, SentMessage
<1>4. PICK c : c = config[t]
  OBVIOUS
<1>5. HandlerConfig(c) /\ c.wait_reason = "WR_NOT_WAITING"
  BY <1>1, <1>4, CallerConfig
<1>6. /\ config \in [Tracees -> Configs] /\ at \in [Tracees -> Locations]
      /\ sigstop \in [Tracees -> {"SIGSTOP_IGNORED", "SIGSTOP_ALLOWED"}]
      /\ kick \in [Tracees -> BOOLEAN] /\ tracees \in Seq(Tracees)
      /\ \A s \in Tracees : Fits(at[s], config[s])
  BY <1>1 DEF IpcInv, IpcTypeOK
<1>7. /\ IpcInv'
      /\ \A s \in Tracees : config'[s].wait_reason = "WR_WAIT_QUEUE_RECV" =>
           /\ config[s].wait_reason = "WR_WAIT_QUEUE_RECV"
           /\ config'[s].waiting_object_index = config[s].waiting_object_index
  <2> DEFINE R == Receivers(i, text.mtype)
  <2>1. CASE R = {}
    <3>1. SyscallCommon(t, c, "OK", sigsys)
      BY <1>4, <2>1 DEF Msgsnd
    <3>2. /\ IpcInv'
          /\ config'[t].wait_reason = c.wait_reason
          /\ config'[t].waiting_object_index = c.waiting_object_index
          /\ \A s \in Tracees : s # t => config'[s] = config[s]
      BY <1>1, <1>5, <3>1, CommonStep
    <3> QED BY <1>4, <3>2
  <2>2. CASE R # {}
    <3>1. R \subseteq Nat BY DEF Receivers, Waiting
    <3>2. PICK w : w = tracees[First(R)] OBVIOUS
    <3>3. /\ w \in Tracees /\ config[w].wait_reason = "WR_WAIT_QUEUE_RECV"
      <4>1. PICK k : k = First(R) OBVIOUS
      <4>2. k \in R BY <2>2, <3>1, <4>1, FirstOf
      <4>3. /\ k \in 1..Len(tracees)
            /\ config[tracees[k]].wait_reason = "WR_WAIT_QUEUE_RECV"
        BY <4>2 DEF Receivers, Waiting
      <4> QED BY <1>6, <3>2, <4>1, <4>3
    <3>4. w # t /\ Asleep(config[w])
      BY <1>4, <1>5, <1>6, <3>3 DEF Fits
    <3>5. PICK d : d = WakeConfig(ToRetry(config[w]), "EAGAIN") OBVIOUS
    <3>6. d \in Configs /\ Fits(at[w], d) /\ d.wait_reason = "WR_NOT_WAITING"
      BY <1>6, <3>3, <3>4, <3>5, RetryFacts
    <3>7. WakeToRetry(t, sigsys, w)
      BY <2>2, <3>2 DEF Msgsnd
    <3>8. PICK e : e = CommonConfig(c, "OK", sigsys) OBVIOUS
    <3>9. e \in Configs BY <1>1, <1>5, <3>8, CommonFacts
    <3>10. config' = [config EXCEPT ![w] = d, ![t] = e]
      BY <1>4, <3>5, <3>7, <3>8 DEF WakeToRetry
    <3>11. /\ config' \in [Tracees -> Configs] /\ config'[t] = e /\ config'[w] = d
           /\ \A s \in Tracees : s # t /\ s # w => config'[s] = config[s]
      BY <1>6, <3>3, <3>4, <3>6, <3>9, <3>10
    <3>12. /\ at' = [at EXCEPT ![t] = CommonAt(c, sigsys)] /\ tracees' = tracees
           /\ sigstop' \in [Tracees -> {"SIGSTOP_IGNORED", "SIGSTOP_ALLOWED"}]
           /\ kick' \in [Tracees -> BOOLEAN]
      BY <1>4, <1>6, <3>7 DEF WakeToRetry
    <3>13. \A s \in Tracees : s # t => Fits(at[s], config'[s])
      BY <1>6, <3>6, <3>11
    <3>14. IpcInv' /\ config'[t].wait_reason = "WR_NOT_WAITING"
      <4>1. config'[t] = CommonConfig(c, "OK", sigsys) BY <3>8, <3>11
      <4> QED BY <1>1, <1>5, <3>11, <3>12, <3>13, <4>1, HandlerStep
    <3> QED BY <3>6, <3>11, <3>14
  <2> QED BY <2>1, <2>2
<1>8. SleepersHaveQueue'
  BY <1>1, <1>2, <1>3, <1>6, <1>7, SleepersKept
<1> QED BY <1>1, <1>2, <1>3, <1>7, <1>8 DEF Inv, ArgsInv

(* msgrcv keeps the invariant: it goes to sleep on the queue it named.     *)
LEMMA MsgrcvInv ==
  ASSUME Inv, NEW t \in Tracees, NEW sigsys \in BOOLEAN,
         NEW i \in 1..Len(queues), NEW a \in RcvArgs, Msgrcv(t, sigsys, i, a)
  PROVE  Inv'
<1>1. IpcInv /\ DataInv /\ ArgsInv /\ SleepersHaveQueue /\ CanCall(t) /\ Valid(i)
  BY DEF Inv, Msgrcv
<1>2. PICK status : status = DoStatus(queues[i].items, a)
  OBVIOUS
<1>3. PICK c : c = IF status = "WAIT"
                   THEN [config[t] EXCEPT !.wait_reason = "WR_WAIT_QUEUE_RECV",
                                          !.waiting_object_index = i]
                   ELSE config[t]
  OBVIOUS
<1>4. PICK res : res = IF status = "WAIT" THEN "OK" ELSE status
  OBVIOUS
<1>5. /\ SyscallCommon(t, c, res, sigsys) /\ Deliver(i, a)
      /\ msgrcv' = [msgrcv EXCEPT ![t] = a]
      /\ asked' = [asked EXCEPT ![t] =
                     [index |-> i, generation |-> queues[i].generation]]
      /\ UNCHANGED <<aborted, sent>>
  BY <1>2, <1>3, <1>4 DEF Msgrcv
<1>6. res \in Statuses
  BY <1>2, <1>4 DEF DoStatus, Statuses
<1>7. /\ config \in [Tracees -> Configs] /\ queues \in Seq(Queue)
      /\ Len(queues) <= MaxQueues
      /\ msgrcv \in [Tracees -> RcvArgs \cup {NoArgs}] /\ aborted \in BOOLEAN
      /\ asked \in [Tracees -> [index : 0..MaxQueues, generation : 0..MaxGeneration]]
  BY <1>1 DEF IpcInv, IpcTypeOK, DataInv, ArgsInv
<1>8. HandlerConfig(config[t]) /\ config[t].wait_reason = "WR_NOT_WAITING"
  BY <1>1, CallerConfig
<1>9. /\ HandlerConfig(c)
      /\ c.wait_reason = "WR_WAIT_QUEUE_RECV" =>
           c.waiting_object_index = i
  <2>1. CASE status = "WAIT"
    <3>1. i \in Nat OBVIOUS
    <3>2. c = [config[t] EXCEPT !.wait_reason = "WR_WAIT_QUEUE_RECV",
                                !.waiting_object_index = i]
      BY <1>3, <2>1
    <3> QED BY <1>8, <3>1, <3>2 DEF HandlerConfig, Configs, WaitReasons
  <2>2. CASE status # "WAIT" BY <1>3, <1>8, <2>2
  <2> QED BY <2>1, <2>2
<1>10. /\ IpcInv'
       /\ config'[t].wait_reason = c.wait_reason
       /\ config'[t].waiting_object_index = c.waiting_object_index
       /\ \A s \in Tracees : s # t => config'[s] = config[s]
  BY <1>1, <1>5, <1>6, <1>9, CommonStep
<1>11. /\ DataInv'
       /\ \A j \in Nat : Valid(j) =>
            Valid(j)' /\ queues'[j].generation = queues[j].generation
  BY <1>1, <1>5, DeliverStep
<1>12. PICK place : place = [index |-> i, generation |-> queues[i].generation]
  OBVIOUS
<1>13. /\ asked' = [asked EXCEPT ![t] = place]
       /\ place \in [index : 0..MaxQueues, generation : 0..MaxGeneration]
  <2>1. i \in 0..MaxQueues BY <1>7, MsgAssumption
  <2>2. queues[i] \in Queue BY <1>7
  <2> QED BY <1>5, <1>12, <2>1, <2>2 DEF Queue
<1>14. ArgsInv'
  BY <1>5, <1>7, <1>13 DEF ArgsInv
<1>15. SleepersHaveQueue'
  <2> SUFFICES ASSUME NEW s \in Tracees,
                      config'[s].wait_reason = "WR_WAIT_QUEUE_RECV"
               PROVE  LET j == config'[s].waiting_object_index
                      IN  /\ j \in 1..Len(queues') /\ queues'[j].valid
                          /\ asked'[s] = [index |-> j,
                                         generation |-> queues'[j].generation]
    BY DEF SleepersHaveQueue, Valid
  <2>1. CASE s = t
    <3>1. config'[s].waiting_object_index = i BY <1>9, <1>10, <2>1
    <3>2. Valid(i)' /\ queues'[i].generation = queues[i].generation BY <1>1, <1>11
    <3>3. asked'[s] = [index |-> i, generation |-> queues'[i].generation]
      BY <1>7, <1>12, <1>13, <2>1, <3>2
    <3> QED BY <3>1, <3>2, <3>3 DEF Valid
  <2>2. CASE s # t
    <3>1. PICK j : j = config[s].waiting_object_index OBVIOUS
    <3>2. config'[s] = config[s] /\ asked'[s] = asked[s] BY <1>7, <1>10, <1>13, <2>2
    <3>3. /\ Valid(j) /\ j \in Nat
          /\ asked[s] = [index |-> j, generation |-> queues[j].generation]
      BY <1>1, <1>7, <3>1, <3>2 DEF SleepersHaveQueue, Configs
    <3>4. Valid(j)' /\ queues'[j].generation = queues[j].generation
      BY <1>11, <3>3
    <3> QED BY <3>1, <3>2, <3>3, <3>4 DEF Valid
  <2> QED BY <2>1, <2>2
<1> QED BY <1>10, <1>11, <1>14, <1>15 DEF Inv

(* msgctl(IPC_RMID) keeps the invariant: it wakes whoever sleeps on the    *)
(* slot it clears.                                                         *)
LEMMA MsgctlRmidInv ==
  ASSUME Inv, NEW t \in Tracees, NEW sigsys \in BOOLEAN,
         NEW i \in 1..Len(queues), MsgctlRmid(t, sigsys, i)
  PROVE  Inv'
<1>1. /\ IpcInv /\ DataInv /\ ArgsInv /\ SleepersHaveQueue /\ CanCall(t)
      /\ "OK" \in Statuses /\ "EIDRM" \in Statuses
  BY DEF Inv, MsgctlRmid, Statuses
<1>2. PICK c : c = config[t]
  OBVIOUS
<1>3. HandlerConfig(c) /\ c.wait_reason = "WR_NOT_WAITING"
  BY <1>1, <1>2, CallerConfig
<1>4. PICK W : W = {tracees[k] : k \in Waiting(i)}
  OBVIOUS
<1>5. PICK verdict : verdict = [w \in W |-> "EIDRM"]
  OBVIOUS
<1>6. /\ CommonAndWake(t, c, "OK", sigsys, W, verdict)
      /\ UNCHANGED <<msgrcv, aborted, asked, sent, received>>
      /\ queues[i].valid /\ queues[i].generation < MaxGeneration
  BY <1>2, <1>4, <1>5 DEF MsgctlRmid, Valid
<1>7. /\ config \in [Tracees -> Configs] /\ at \in [Tracees -> Locations]
      /\ sigstop \in [Tracees -> {"SIGSTOP_IGNORED", "SIGSTOP_ALLOWED"}]
      /\ kick \in [Tracees -> BOOLEAN] /\ tracees \in Seq(Tracees)
      /\ \A s \in Tracees : Fits(at[s], config[s])
  BY <1>1 DEF IpcInv, IpcTypeOK
<1>8. \A w \in W : /\ w \in Tracees /\ config[w].wait_reason = "WR_WAIT_QUEUE_RECV"
                   /\ Asleep(config[w])
  BY <1>4, <1>7 DEF Waiting, Fits
<1>9. \A s \in Tracees : /\ config[s].wait_reason = "WR_WAIT_QUEUE_RECV"
                         /\ config[s].waiting_object_index = i
                         => s \in W
  <2> SUFFICES ASSUME NEW s \in Tracees,
                      config[s].wait_reason = "WR_WAIT_QUEUE_RECV",
                      config[s].waiting_object_index = i
               PROVE  s \in W
    OBVIOUS
  <2>1. at[s] # "none" BY <1>7 DEF Fits, Asleep
  <2>2. PICK k \in 1..Len(tracees) : tracees[k] = s
    BY <1>1, <2>1 DEF IpcInv, EveryoneListed
  <2> QED BY <1>4, <2>2 DEF Waiting
<1>10. PICK d : d = [s \in Tracees |-> WakeConfig(config[s], "EIDRM")]
  OBVIOUS
<1>11. \A s \in Tracees : Asleep(config[s]) =>
         /\ d[s] \in Configs /\ Fits(at[s], d[s])
         /\ d[s].wait_reason = "WR_NOT_WAITING"
  BY <1>1, <1>7, <1>10, WakeFacts
<1>12. PICK e : e = CommonConfig(c, "OK", sigsys)
  OBVIOUS
<1>13. e \in Configs
  BY <1>1, <1>3, <1>12, CommonFacts
<1>14. \A w \in W : WakeConfig(config[w], verdict[w]) = d[w]
  BY <1>5, <1>8, <1>10
<1>15. config' = [s \in Tracees |-> IF s = t THEN e
                                    ELSE IF s \in W THEN d[s] ELSE config[s]]
  BY <1>6, <1>12, <1>14 DEF CommonAndWake
<1>16. /\ config' \in [Tracees -> Configs] /\ config'[t] = e
       /\ \A s \in Tracees : s # t /\ s \in W => config'[s] = d[s]
       /\ \A s \in Tracees : s # t /\ s \notin W => config'[s] = config[s]
  BY <1>7, <1>8, <1>11, <1>13, <1>15
<1>17. /\ at' = [at EXCEPT ![t] = CommonAt(c, sigsys)] /\ tracees' = tracees
       /\ sigstop' \in [Tracees -> {"SIGSTOP_IGNORED", "SIGSTOP_ALLOWED"}]
       /\ kick' \in [Tracees -> BOOLEAN]
  BY <1>6, <1>7 DEF CommonAndWake, SigstopAfter
<1>18. \A s \in Tracees : s # t => Fits(at[s], config'[s])
  BY <1>7, <1>8, <1>11, <1>16
<1>19. IpcInv' /\ config'[t].wait_reason = "WR_NOT_WAITING"
  <2>1. config'[t] = CommonConfig(c, "OK", sigsys) BY <1>12, <1>16
  <2> QED BY <1>1, <1>3, <1>16, <1>17, <1>18, <2>1, HandlerStep
<1>20. PICK q : q = [queues[i] EXCEPT !.valid = FALSE, !.generation = @ + 1,
                                      !.items = <<>>]
  OBVIOUS
<1>21. queues \in Seq(Queue) /\ queues' = [queues EXCEPT ![i] = q]
  BY <1>1, <1>20 DEF MsgctlRmid, DataInv
<1>22. q \in Queue /\ q.items = <<>> /\ q.generation > 0 /\ ~q.valid
  <2>1. PICK S : S = Seq(Item) OBVIOUS
  <2>2. <<>> \in S BY <2>1
  <2>3. queues[i] \in [key : Keys, generation : 0..MaxGeneration, valid : BOOLEAN,
                       items : S, msg_qnum : Nat, msg_cbytes : Nat]
    <3>1. queues[i] \in Queue BY <1>21
    <3> QED BY <2>1, <3>1 DEF Queue
  <2>4. queues[i].generation + 1 \in 0..MaxGeneration
    BY <1>6, <2>3, MsgAssumption
  <2>5. q \in [key : Keys, generation : 0..MaxGeneration, valid : BOOLEAN,
               items : S, msg_qnum : Nat, msg_cbytes : Nat]
    BY <1>20, <2>2, <2>3, <2>4
  <2> QED BY <1>20, <2>1, <2>3, <2>5 DEF Queue
<1>23. DataInv'
  BY <1>1, <1>6, <1>21, <1>22, ClearedSlot
<1>24. ASSUME NEW j \in Nat, Valid(j), j # i
       PROVE  Valid(j)' /\ queues'[j].generation = queues[j].generation
  BY <1>21, <1>22, <1>24 DEF Valid
<1>25. ASSUME NEW s \in Tracees, config'[s].wait_reason = "WR_WAIT_QUEUE_RECV"
       PROVE  config'[s] = config[s] /\ s \notin W
  BY <1>8, <1>11, <1>16, <1>19, <1>25
<1>26. SleepersHaveQueue'
  BY <1>1, <1>6, <1>7, <1>9, <1>24, <1>25, SleepersKept
<1> QED BY <1>1, <1>6, <1>19, <1>23, <1>26 DEF Inv, ArgsInv

-----------------------------------------------------------------------------
(* The stops and the life of a tracee.                                     *)

(* A stop of t that leaves the queues alone and puts nobody to sleep keeps *)
(* the invariant.                                                          *)
LEMMA LocalStep ==
  ASSUME Inv, NEW t \in Tracees, NEW a \in Locations, NEW d \in Configs,
         Fits(a, d), at[t] # "none",
         d.wait_reason = "WR_WAIT_QUEUE_RECV" =>
           /\ config[t].wait_reason = "WR_WAIT_QUEUE_RECV"
           /\ d.waiting_object_index = config[t].waiting_object_index,
         at' = [at EXCEPT ![t] = a], config' = [config EXCEPT ![t] = d],
         UNCHANGED <<tracees, sigstop, kick>>, UNCHANGED msgVars
  PROVE  Inv'
<1>1. IpcInv /\ DataInv /\ ArgsInv /\ SleepersHaveQueue
  BY DEF Inv
<1>2. /\ config \in [Tracees -> Configs] /\ at \in [Tracees -> Locations]
      /\ sigstop' \in [Tracees -> {"SIGSTOP_IGNORED", "SIGSTOP_ALLOWED"}]
      /\ kick' \in [Tracees -> BOOLEAN]
      /\ \A s \in Tracees : Fits(at[s], config[s])
  BY <1>1 DEF IpcInv, IpcTypeOK
<1>3. /\ config' \in [Tracees -> Configs] /\ at' \in [Tracees -> Locations]
      /\ config'[t] = d /\ at'[t] = a
      /\ \A s \in Tracees : s # t => config'[s] = config[s] /\ at'[s] = at[s]
  BY <1>2
<1>4. \A s \in Tracees : /\ Fits(at'[s], config'[s])
                         /\ at'[s] # "none" => at[s] # "none"
  BY <1>2, <1>3
<1>5. IpcInv'
  BY <1>1, <1>2, <1>3, <1>4, Moved
<1>6. DataInv' /\ ArgsInv'
  BY <1>1 DEF DataInv, IdsApart, NoMessageLost, ArgsInv, msgVars
<1>7. SleepersHaveQueue'
  <2>1. \A s \in Tracees : config'[s].wait_reason = "WR_WAIT_QUEUE_RECV" =>
          /\ config[s].wait_reason = "WR_WAIT_QUEUE_RECV"
          /\ config'[s].waiting_object_index = config[s].waiting_object_index
    BY <1>3
  <2> QED BY <1>1, <2>1 DEF SleepersHaveQueue, Valid, msgVars
<1> QED BY <1>5, <1>6, <1>7 DEF Inv

(* Entering and leaving the substituted call keeps the invariant.          *)
LEMMA StopsInv ==
  ASSUME Inv, NEW t \in Tracees,
         \/ StartPpoll(t) \/ StartCanceled(t)
         \/ EndVoid(t) \/ EndPpoll(t) \/ EndStatus(t)
  PROVE  Inv'
<1>1. /\ config \in [Tracees -> Configs] /\ at \in [Tracees -> Locations]
      /\ Fits(at[t], config[t])
  BY DEF Inv, IpcInv, IpcTypeOK
<1>2. PICK c : c = config[t]
  OBVIOUS
<1>3. c \in Configs /\ Fits(at[t], c) /\ "user" \in Locations /\ "kernel" \in Locations
  BY <1>1, <1>2 DEF Locations
<1>4. CASE StartPpoll(t)
  <2>1. PICK d : d = [c EXCEPT !.wait_state = "WSTATE_ENTERED_PPOLL"]
    OBVIOUS
  <2>2. /\ d \in Configs /\ Fits("kernel", d)
        /\ d.wait_reason = c.wait_reason
        /\ d.waiting_object_index = c.waiting_object_index
    BY <1>2, <1>3, <1>4, <2>1
       DEF StartPpoll, EnterPpoll, Configs, WaitStates, Fits, Asleep
  <2>3. /\ at' = [at EXCEPT ![t] = "kernel"] /\ config' = [config EXCEPT ![t] = d]
        /\ UNCHANGED <<tracees, sigstop, kick>> /\ UNCHANGED msgVars
        /\ at[t] # "none"
    BY <1>1, <1>2, <1>4, <2>1 DEF StartPpoll, EnterPpoll
  <2> QED BY <1>2, <1>3, <2>2, <2>3, LocalStep
<1>5. CASE StartCanceled(t) \/ EndStatus(t)
  <2>1. PICK d : d = [c EXCEPT !.wait_state = "WSTATE_NOT_WAITING"]
    OBVIOUS
  <2>2. /\ c.wait_state \in {"WSTATE_RESTARTED_INTO_PPOLL_CANCELED",
                             "WSTATE_SIGNALED_PPOLL", "WSTATE_ENTERED_GETPID"}
        /\ c.chain_state # "CSTATE_MSGRCV_RETRY"
        /\ config' = [config EXCEPT ![t] = d]
        /\ UNCHANGED <<tracees, sigstop, kick>> /\ UNCHANGED msgVars
        /\ at[t] # "none"
    BY <1>1, <1>2, <1>5, <2>1
       DEF StartCanceled, EnterCanceled, EndStatus, ExitStatus
  <2>3. /\ d \in Configs /\ Fits("kernel", d) /\ Fits("user", d)
        /\ d.wait_reason = c.wait_reason
        /\ d.waiting_object_index = c.waiting_object_index
    BY <1>3, <2>1, <2>2 DEF Configs, WaitStates, Fits, Asleep
  <2>4. at' = [at EXCEPT ![t] = "kernel"] \/ at' = [at EXCEPT ![t] = "user"]
    BY <1>5 DEF StartCanceled, EnterCanceled, EndStatus, ExitStatus
  <2> QED BY <1>2, <1>3, <2>2, <2>3, <2>4, LocalStep
<1>6. CASE EndVoid(t)
  <2>1. /\ c.wait_state = "WSTATE_NOT_WAITING" /\ at[t] = "kernel"
        /\ at' = [at EXCEPT ![t] = "user"] /\ config' = [config EXCEPT ![t] = c]
        /\ UNCHANGED <<tracees, sigstop, kick>> /\ UNCHANGED msgVars
    BY <1>1, <1>2, <1>6 DEF EndVoid, ExitVoid
  <2>2. Fits("user", c)
    BY <1>3, <2>1 DEF Configs, Fits, Asleep
  <2> QED BY <1>2, <1>3, <2>1, <2>2, LocalStep
<1>7. CASE EndPpoll(t)
  <2>1. PICK d : d = [c EXCEPT !.wait_state = "WSTATE_NOT_WAITING",
                               !.wait_reason = "WR_NOT_WAITING"]
    OBVIOUS
  <2>2. /\ d \in Configs /\ Fits("user", d) /\ d.wait_reason = "WR_NOT_WAITING"
    BY <1>2, <1>3, <1>7, <2>1
       DEF EndPpoll, ExitPpoll, Configs, WaitStates, WaitReasons, Fits, Asleep
  <2>3. /\ at' = [at EXCEPT ![t] = "user"] /\ config' = [config EXCEPT ![t] = d]
        /\ UNCHANGED <<tracees, sigstop, kick>> /\ UNCHANGED msgVars
        /\ at[t] # "none"
    BY <1>1, <1>2, <1>7, <2>1 DEF EndPpoll, ExitPpoll
  <2> QED BY <1>3, <2>2, <2>3, LocalStep
<1> QED BY <1>4, <1>5, <1>6, <1>7

(* Swallowing PRoot's SIGSTOP keeps the invariant.                         *)
LEMMA SwallowInv ==
  ASSUME Inv, NEW t \in Tracees, Swallow(t)
  PROVE  Inv'
<1>1. /\ sigstop' = [sigstop EXCEPT ![t] = "SIGSTOP_ALLOWED"]
      /\ kick' = [kick EXCEPT ![t] = FALSE]
      /\ UNCHANGED <<tracees, at, config>> /\ UNCHANGED msgVars
  BY DEF Swallow, SigstopStop
<1>2. IpcInv'
  BY <1>1 DEF Inv, IpcInv, IpcTypeOK, EveryoneListed
<1>3. DataInv' /\ ArgsInv' /\ SleepersHaveQueue'
  BY <1>1 DEF Inv, DataInv, IdsApart, NoMessageLost, ArgsInv,
              SleepersHaveQueue, Valid, msgVars
<1> QED BY <1>2, <1>3 DEF Inv

(* A kill keeps the invariant: the dead keep their config until reaped.    *)
LEMMA KillInv ==
  ASSUME Inv, NEW t \in Tracees, Kill(t)
  PROVE  Inv'
<1>1. /\ at' = [at EXCEPT ![t] = "dead"]
      /\ kick' = [kick EXCEPT ![t] = FALSE]
      /\ at[t] # "none"
      /\ UNCHANGED <<tracees, config, sigstop>> /\ UNCHANGED msgVars
  BY DEF Kill, Die
<1>2. IpcTypeOK'
  BY <1>1 DEF Inv, IpcInv, IpcTypeOK, Locations
<1>3. /\ at \in [Tracees -> Locations]
      /\ \A s \in Tracees : Fits(at[s], config[s])
  BY DEF Inv, IpcInv, IpcTypeOK
<1>4. \A s \in Tracees : Fits(at'[s], config'[s])
  <2> SUFFICES ASSUME NEW s \in Tracees PROVE Fits(at'[s], config[s])
    BY <1>1
  <2>1. Fits(at[s], config[s]) BY <1>3
  <2>2. at'[s] = at[s] \/ at'[s] = "dead" BY <1>1, <1>3
  <2> QED BY <2>1, <2>2 DEF Fits
<1>5. EveryoneListed'
  BY <1>1, <1>3 DEF Inv, IpcInv, EveryoneListed
<1>6. DataInv' /\ ArgsInv' /\ SleepersHaveQueue'
  BY <1>1 DEF Inv, DataInv, IdsApart, NoMessageLost, ArgsInv,
              SleepersHaveQueue, Valid, msgVars
<1> QED BY <1>2, <1>4, <1>5, <1>6 DEF Inv, IpcInv

(* A new config fits a tracee in guest code and one that is gone.          *)
LEMMA ZeroConfigFacts ==
  /\ ZeroConfig \in Configs
  /\ ZeroConfig.wait_reason = "WR_NOT_WAITING"
  /\ Fits("user", ZeroConfig) /\ Fits("none", ZeroConfig)
BY DEF ZeroConfig, Configs, WaitReasons, WaitStates, ChainStates, Statuses,
       Asleep, Fits

(* fork keeps the invariant: the child has no wait and is listed.          *)
LEMMA ForkInv ==
  ASSUME Inv, NEW parent \in Tracees, NEW child \in Tracees, Fork(parent, child)
  PROVE  Inv'
<1>1. /\ tracees' = <<child>> \o tracees
      /\ at' = [at EXCEPT ![child] = "user"]
      /\ config' = [config EXCEPT ![child] = ZeroConfig]
      /\ sigstop' = [sigstop EXCEPT ![child] = "SIGSTOP_ALLOWED"]
      /\ kick' = [kick EXCEPT ![child] = FALSE]
      /\ UNCHANGED msgVars
  BY DEF Fork, Clone, Listed
<1>2. /\ tracees \in Seq(Tracees) /\ at \in [Tracees -> Locations]
      /\ config \in [Tracees -> Configs]
      /\ \A s \in Tracees : Fits(at[s], config[s])
  BY DEF Inv, IpcInv, IpcTypeOK
<1> HIDE DEF ZeroConfig
<1>3. IpcTypeOK'
  <2>1. tracees' \in Seq(Tracees) BY <1>1, <1>2
  <2>2. at' \in [Tracees -> Locations] BY <1>1, <1>2 DEF Locations
  <2>3. config' \in [Tracees -> Configs] BY <1>1, <1>2, ZeroConfigFacts
  <2> QED BY <1>1, <2>1, <2>2, <2>3 DEF Inv, IpcInv, IpcTypeOK
<1>4. \A s \in Tracees : Fits(at'[s], config'[s])
  <2> SUFFICES ASSUME NEW s \in Tracees PROVE Fits(at'[s], config'[s])
    OBVIOUS
  <2>1. CASE s = child
    <3>1. config'[s] = ZeroConfig /\ at'[s] = "user" BY <1>1, <1>2, <2>1
    <3> QED BY <3>1, ZeroConfigFacts
  <2>2. CASE s # child
    <3>1. config'[s] = config[s] /\ at'[s] = at[s] BY <1>1, <1>2, <2>2
    <3> QED BY <1>2, <3>1
  <2> QED BY <2>1, <2>2
<1>5. SleepersHaveQueue'
  <2>1. \A s \in Tracees : config'[s].wait_reason = "WR_WAIT_QUEUE_RECV" =>
          config'[s] = config[s]
    BY <1>1, <1>2, ZeroConfigFacts
  <2> QED BY <1>1, <2>1 DEF Inv, SleepersHaveQueue, Valid, msgVars
<1>6. EveryoneListed'
  <2> SUFFICES ASSUME NEW s \in Tracees, at'[s] # "none"
               PROVE  \E k \in 1..Len(tracees') : tracees'[k] = s
    BY DEF EveryoneListed
  <2>1. Len(tracees') = Len(tracees) + 1 /\ tracees'[1] = child
    BY <1>1, <1>2
  <2>2. CASE s = child
    BY <1>2, <2>1, <2>2
  <2>3. CASE s # child
    <3>1. PICK k \in 1..Len(tracees) : tracees[k] = s
      BY <1>1, <1>2, <2>3 DEF Inv, IpcInv, EveryoneListed
    <3>2. k + 1 \in 1..Len(tracees') /\ tracees'[k + 1] = s
      BY <1>1, <1>2, <2>1, <3>1
    <3> QED BY <3>2
  <2> QED BY <2>2, <2>3
<1>7. DataInv' /\ ArgsInv'
  BY <1>1 DEF Inv, DataInv, IdsApart, NoMessageLost, ArgsInv, msgVars
<1> QED BY <1>3, <1>4, <1>5, <1>6, <1>7 DEF Inv, IpcInv

(* Reaping keeps the invariant: whoever is gone has no wait left.          *)
LEMMA ReapInv ==
  ASSUME Inv, NEW t \in Tracees, ReapTracee(t)
  PROVE  Inv'
<1>1. PICK k \in 1..Len(tracees) :
        /\ tracees[k] = t
        /\ tracees' = SubSeq(tracees, 1, k - 1)
                        \o SubSeq(tracees, k + 1, Len(tracees))
  BY DEF ReapTracee, Reap
<1>2. /\ at' = [at EXCEPT ![t] = "none"]
      /\ config' = [config EXCEPT ![t] = ZeroConfig]
      /\ sigstop' = sigstop /\ kick' = kick
      /\ msgrcv' = [msgrcv EXCEPT ![t] = NoArgs]
      /\ asked' = [asked EXCEPT ![t] = Nowhere]
      /\ UNCHANGED <<queues, aborted, sent, received>>
  BY DEF ReapTracee, Reap
<1>3. /\ tracees \in Seq(Tracees) /\ at \in [Tracees -> Locations]
      /\ config \in [Tracees -> Configs]
      /\ \A s \in Tracees : Fits(at[s], config[s])
      /\ ArgsInv /\ SleepersHaveQueue /\ EveryoneListed /\ IpcTypeOK
  BY DEF Inv, IpcInv, IpcTypeOK
<1>4. /\ tracees' \in Seq(Tracees) /\ Len(tracees') = Len(tracees) - 1
      /\ \A j \in 1..(k - 1) : tracees'[j] = tracees[j]
      /\ \A j \in k..(Len(tracees) - 1) : tracees'[j] = tracees[j + 1]
  BY <1>1, <1>3, UnlinkedList
<1>5. \A s \in Tracees : s # t => config'[s] = config[s] /\ at'[s] = at[s]
  BY <1>2, <1>3
<1>6. config'[t] = ZeroConfig /\ at'[t] = "none"
  BY <1>2, <1>3
<1> HIDE DEF ZeroConfig
<1>7. IpcTypeOK'
  <2>1. at' \in [Tracees -> Locations] BY <1>2, <1>3 DEF Locations
  <2>2. config' \in [Tracees -> Configs] BY <1>2, <1>3, ZeroConfigFacts
  <2> QED BY <1>2, <1>3, <1>4, <2>1, <2>2 DEF IpcTypeOK
<1>8. \A s \in Tracees : Fits(at'[s], config'[s])
  <2> SUFFICES ASSUME NEW s \in Tracees PROVE Fits(at'[s], config'[s])
    OBVIOUS
  <2>1. CASE s = t BY <1>6, <2>1, ZeroConfigFacts
  <2>2. CASE s # t BY <1>3, <1>5, <2>2
  <2> QED BY <2>1, <2>2
<1>9. EveryoneListed'
  <2> SUFFICES ASSUME NEW s \in Tracees, at'[s] # "none"
               PROVE  \E j \in 1..Len(tracees') : tracees'[j] = s
    BY DEF EveryoneListed
  <2>1. s # t /\ at[s] # "none" BY <1>5, <1>6
  <2>2. PICK j \in 1..Len(tracees) : tracees[j] = s
    BY <1>3, <2>1 DEF EveryoneListed
  <2>3. CASE j < k
    <3>1. j \in 1..(k - 1) /\ j \in 1..Len(tracees') BY <1>4, <2>3
    <3> QED BY <1>4, <2>2, <3>1
  <2>4. CASE j > k
    <3>1. /\ j - 1 \in k..(Len(tracees) - 1) /\ j - 1 \in 1..Len(tracees')
          /\ (j - 1) + 1 = j
      BY <1>4, <2>4
    <3> QED BY <1>4, <2>2, <3>1
  <2>5. j # k BY <1>1, <2>1, <2>2
  <2>6. j \in Int /\ k \in Int OBVIOUS
  <2> QED BY <2>3, <2>4, <2>5, <2>6
<1>10. ArgsInv'
  <2>1. Nowhere \in [index : 0..MaxQueues, generation : 0..MaxGeneration]
    BY MsgAssumption DEF Nowhere
  <2> HIDE DEF Nowhere, NoArgs
  <2> QED BY <1>2, <1>3, <2>1 DEF ArgsInv
<1>11. SleepersHaveQueue'
  <2>1. \A s \in Tracees : config'[s].wait_reason = "WR_WAIT_QUEUE_RECV" => s # t
    BY <1>6, ZeroConfigFacts
  <2>2. \A s \in Tracees : s # t => asked'[s] = asked[s]
    BY <1>2, <1>3 DEF ArgsInv
  <2> QED BY <1>2, <1>3, <1>5, <2>1, <2>2 DEF SleepersHaveQueue, Valid
<1>12. DataInv'
  BY <1>2 DEF Inv, DataInv, IdsApart, NoMessageLost
<1> QED BY <1>7, <1>8, <1>9, <1>10, <1>11, <1>12 DEF Inv, IpcInv

(* The retry of msgrcv keeps the invariant: it never sleeps again.         *)
LEMMA MsgrcvRetryInv ==
  ASSUME Inv, NEW t \in Tracees, MsgrcvRetry(t)
  PROVE  Inv'
<1>1. /\ config \in [Tracees -> Configs] /\ at \in [Tracees -> Locations]
      /\ \A s \in Tracees : Fits(at[s], config[s])
      /\ IpcInv /\ DataInv /\ ArgsInv /\ SleepersHaveQueue /\ IpcTypeOK
  BY DEF Inv, IpcInv, IpcTypeOK
<1>2. PICK i : i = config[t].waiting_object_index
  OBVIOUS
<1>3. PICK d : d = RetryConfig(config[t])
  OBVIOUS
<1>4. PICK a : a = IF at[t] = "rewound" THEN "kernel" ELSE "user"
  OBVIOUS
<1>5. /\ AtRetry(t) /\ Valid(i) /\ Deliver(i, msgrcv[t])
      /\ config' = [config EXCEPT ![t] = d]
      /\ UNCHANGED <<tracees, sigstop, kick, msgrcv, aborted, asked, sent>>
  BY <1>1, <1>2, <1>3 DEF MsgrcvRetry
<1>6. at' = [at EXCEPT ![t] = a]
  BY <1>1, <1>4 DEF MsgrcvRetry
<1>7. /\ d \in Configs /\ a \in Locations /\ Fits(a, d)
      /\ d.wait_reason = "WR_NOT_WAITING" /\ at[t] # "none"
  <2>1. PICK c : c = config[t] OBVIOUS
  <2>2. /\ c \in Configs /\ Fits(at[t], c) /\ at[t] # "none"
        /\ c.wait_state \in {"WSTATE_RESTARTED_INTO_PPOLL_CANCELED",
                             "WSTATE_SIGNALED_PPOLL"}
    BY <1>1, <1>5, <2>1 DEF AtRetry
  <2>3. d = [c EXCEPT !.wait_state = "WSTATE_NOT_WAITING",
                      !.chain_state = "CSTATE_NOT_CHAINED"]
    BY <1>3, <2>1 DEF RetryConfig
  <2>4. d \in Configs /\ d.wait_reason = "WR_NOT_WAITING"
    BY <2>2, <2>3 DEF Configs, WaitStates, ChainStates, Fits, Asleep
  <2>5. /\ d.wait_state = "WSTATE_NOT_WAITING" /\ d.chain_state = "CSTATE_NOT_CHAINED"
    BY <2>2, <2>3 DEF Configs
  <2>6. Fits(a, d)
    BY <1>4, <2>4, <2>5 DEF Fits, Asleep
  <2> QED BY <1>4, <2>2, <2>4, <2>6 DEF Locations
<1>8. /\ config' \in [Tracees -> Configs] /\ at' \in [Tracees -> Locations]
      /\ config'[t] = d /\ at'[t] = a
      /\ \A s \in Tracees : s # t => config'[s] = config[s] /\ at'[s] = at[s]
  BY <1>1, <1>5, <1>6, <1>7
<1>9. IpcInv'
  <2>1. \A s \in Tracees : /\ Fits(at'[s], config'[s])
                           /\ at'[s] # "none" => at[s] # "none"
    BY <1>1, <1>7, <1>8
  <2>2. /\ sigstop' \in [Tracees -> {"SIGSTOP_IGNORED", "SIGSTOP_ALLOWED"}]
        /\ kick' \in [Tracees -> BOOLEAN]
    BY <1>1, <1>5 DEF IpcTypeOK
  <2> QED BY <1>1, <1>5, <1>8, <2>1, <2>2, Moved
<1>10. i \in Nat
  BY <1>1, <1>2 DEF Configs
<1>11. /\ DataInv'
       /\ \A j \in Nat : Valid(j) =>
            Valid(j)' /\ queues'[j].generation = queues[j].generation
  BY <1>1, <1>5, <1>10, DeliverStep
<1>12. SleepersHaveQueue'
  <2>1. \A s \in Tracees : config'[s].wait_reason = "WR_WAIT_QUEUE_RECV" =>
          config'[s] = config[s]
    BY <1>7, <1>8
  <2> QED BY <1>1, <1>5, <1>11, <2>1, SleepersKept
<1> QED BY <1>1, <1>5, <1>9, <1>11, <1>12 DEF Inv, ArgsInv

(* The failed assertion of the retry changes nothing else.                 *)
LEMMA MsgrcvRetryAbortsInv ==
  ASSUME Inv, NEW t \in Tracees, MsgrcvRetryAborts(t)
  PROVE  Inv'
BY DEF MsgrcvRetryAborts, ipcVars, Inv, IpcInv, IpcTypeOK, EveryoneListed,
       DataInv, IdsApart, NoMessageLost, ArgsInv, SleepersHaveQueue, Valid

-----------------------------------------------------------------------------
(* The theorems.                                                           *)

(* PRoot starts with one tracee in guest code and no queue.                *)
LEMMA InitInv == Init => Inv
<1> SUFFICES ASSUME Init PROVE Inv
  OBVIOUS
<1>1. PICK t \in Tracees :
        /\ tracees = <<t>>
        /\ at = [s \in Tracees |-> IF s = t THEN "user" ELSE "none"]
        /\ config = [s \in Tracees |-> ZeroConfig]
        /\ sigstop = [s \in Tracees |-> "SIGSTOP_ALLOWED"]
        /\ kick = [s \in Tracees |-> FALSE]
  BY DEF Init, IpcInit
<1>2. /\ queues = <<>> /\ msgrcv = [s \in Tracees |-> NoArgs]
      /\ aborted = FALSE /\ asked = [s \in Tracees |-> Nowhere]
      /\ sent = 0 /\ received = [n \in 1..MaxMsgs |-> 0]
  BY DEF Init
<1> HIDE DEF ZeroConfig
<1>3. IpcTypeOK
  <2>1. config \in [Tracees -> Configs] BY <1>1, ZeroConfigFacts
  <2> QED BY <1>1, <2>1 DEF IpcTypeOK, Locations
<1>4. \A s \in Tracees : Fits(at[s], config[s])
  <2>1. \A s \in Tracees : config[s] = ZeroConfig /\ at[s] \in {"user", "none"}
    BY <1>1
  <2> QED BY <2>1, ZeroConfigFacts
<1>5. EveryoneListed
  BY <1>1 DEF EveryoneListed
<1>6. DataInv
  <2>1. queues \in Seq(Queue) /\ Len(queues) = 0 BY <1>2
  <2>2. 1..Len(queues) = {} BY <2>1
  <2>3. MaxMsgs \in Nat /\ MaxQueues \in Nat BY MsgAssumption
  <2>4. sent \in 0..MaxMsgs /\ received \in [1..MaxMsgs -> Nat] BY <1>2, <2>3
  <2>5. \A n \in 1..MaxMsgs : received[n] <= 1 /\ (n > sent => received[n] = 0)
    BY <1>2, <2>3
  <2>6. IdsApart BY <2>2 DEF IdsApart
  <2>7. NoMessageLost BY <1>2 DEF NoMessageLost
  <2> QED BY <2>1, <2>2, <2>3, <2>4, <2>5, <2>6, <2>7 DEF DataInv
<1>7. ArgsInv
  <2>1. Nowhere \in [index : 0..MaxQueues, generation : 0..MaxGeneration]
    BY MsgAssumption DEF Nowhere
  <2> HIDE DEF Nowhere, NoArgs
  <2> QED BY <1>2, <2>1 DEF ArgsInv
<1>8. SleepersHaveQueue
  BY <1>1, ZeroConfigFacts DEF SleepersHaveQueue
<1> QED BY <1>3, <1>4, <1>5, <1>6, <1>7, <1>8 DEF Inv, IpcInv

(* Every step keeps the invariant.                                         *)
LEMMA NextInv == Inv /\ [Next]_vars => Inv'
<1> SUFFICES ASSUME Inv, [Next]_vars PROVE Inv'
  OBVIOUS
<1>1. CASE UNCHANGED vars
  BY <1>1 DEF vars, Inv, IpcInv, IpcTypeOK, EveryoneListed, DataInv, IdsApart,
              NoMessageLost, ArgsInv, SleepersHaveQueue, Valid
<1>2. ASSUME NEW t \in Tracees, Step(t) PROVE Inv'
  BY <1>2, StopsInv, SwallowInv, ReapInv, KillInv, MsgrcvRetryInv,
     MsgrcvRetryAbortsInv DEF Step
<1>3. ASSUME NEW t \in Tracees, NEW sigsys \in SigsysModes, Syscall(t, sigsys)
      PROVE  Inv'
  <2>1. sigsys \in BOOLEAN BY MsgAssumption
  <2>2. CASE \E key \in Keys : MsggetCreate(t, sigsys, key)
    BY <2>1, <2>2, MsggetCreateInv
  <2>3. CASE \E status \in {"OK", "ERROR"} : Query(t, sigsys, status)
    BY <2>1, <2>3, QueryInv
  <2>4. ASSUME NEW i \in 1..Len(queues), NEW text \in Texts,
               Msgsnd(t, sigsys, i, text)
        PROVE  Inv'
    BY <2>1, <2>4, MsgsndInv
  <2>5. ASSUME NEW i \in 1..Len(queues), NEW a \in RcvArgs,
               Msgrcv(t, sigsys, i, a)
        PROVE  Inv'
    BY <2>1, <2>5, MsgrcvInv
  <2>6. ASSUME NEW i \in 1..Len(queues), MsgctlRmid(t, sigsys, i)
        PROVE  Inv'
    BY <2>1, <2>6, MsgctlRmidInv
  <2> QED BY <1>3, <2>2, <2>3, <2>4, <2>5, <2>6 DEF Syscall
<1>4. ASSUME NEW parent \in Tracees, NEW child \in Tracees, Fork(parent, child)
      PROVE  Inv'
  BY <1>4, ForkInv
<1>5. CASE Terminated
  BY <1>1, <1>5 DEF Terminated
<1> QED BY <1>1, <1>2, <1>3, <1>4, <1>5 DEF Next

(* Every behaviour of the message queue emulation keeps the invariant.     *)
THEOREM Invariance == Spec => []Inv
BY InitInv, NextInv, PTL DEF Spec

(* No assertion of the wait mechanism (sysvipc.c 40, 84, 234, 261, 277,    *)
(* 287, 353, 363) can fail in a message queue call, and a retry is pending *)
(* exactly from the wake-up of a receiver to the end of its ppoll.         *)
THEOREM AssertionsHold == Spec => []WaitStatesAgree
<1>1. Inv => WaitStatesAgree
  BY DEF Inv, IpcInv, Fits, WaitStatesAgree
<1> QED BY <1>1, Invariance, PTL

(* A sleeper's slot always holds the queue its msgrcv named: msgsnd        *)
(* (sysvipc_msg.c 143) never wakes a receiver of a queue that is gone, and *)
(* msgctl(IPC_RMID) leaves nobody asleep.                                  *)
THEOREM SleepersSafe == Spec => []SleepersHaveQueue
<1>1. Inv => SleepersHaveQueue BY DEF Inv
<1> QED BY <1>1, Invariance, PTL

(* The state is always typed, and the counters that IPC_STAT reports       *)
(* (msg_qnum, msg_cbytes) are the items of the queue, whatever receivers,  *)
(* retries, removals and reuses of a slot interleave.                      *)
THEOREM BookkeepingRight == Spec => []QueuesAgree
<1>1. Inv => QueuesAgree
  <2> SUFFICES ASSUME Inv PROVE TypeOK /\ SleepersHaveQueue /\ StatsAgree
    BY DEF QueuesAgree
  <2>1. TypeOK BY DEF Inv, IpcInv, DataInv, ArgsInv, TypeOK
  <2>2. StatsAgree BY DEF Inv, DataInv, QueueOK, StatsAgree, Valid
  <2> QED BY <2>1, <2>2 DEF Inv
<1> QED BY <1>1, Invariance, PTL

(* sysvipc_do_msgrcv hands a message to one receiver at most, in the order *)
(* of the queue, in the call itself or in the retry after a wake-up.       *)
THEOREM DeliveredOnce == Spec => []ReceivedOnce
<1>1. Inv => ReceivedOnce
  BY DEF Inv, DataInv, QueueOK, ReceivedOnce
<1> QED BY <1>1, Invariance, PTL

(* Until a queue is removed every message sent is queued or was received:  *)
(* a receiver that is killed or interrupted, and one whose buffer is too   *)
(* small (E2BIG), leaves it where it is.                                   *)
THEOREM NothingLost == Spec => []NoMessageLost
<1>1. Inv => NoMessageLost BY DEF Inv, DataInv
<1> QED BY <1>1, Invariance, PTL
==============================================================================
