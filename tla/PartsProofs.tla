------------------------------ MODULE PartsProofs ------------------------------
(***************************************************************************)
(* Proofs about four of the smaller parts, each with the inductive         *)
(* invariant it takes: the sessions of the app (SessInv), the sockets that *)
(* stand for netlink (NetInv), the fake root identity (RootInv) and the    *)
(* service that runs the VMs (VmInv; EveryVmWasAskedFor is not inductive:  *)
(* what is asked for is first an intent that Android has yet to deliver,   *)
(* AskedOrOnItsWay).                                                       *)
(***************************************************************************)
EXTENDS Sessions, Netlink, FakeRoot, VmService, LoopLemmas, SequenceTheorems
-------------------------------------------------------------------------------
(* The sessions of the app.                                                *)

Fields == {"sessions", "list", "order", "current", "shell", "view", "started"}
ShellStates == {"new", "running", "ended"}

\* A list of the members of a set, each once.
Places(q, S) == /\ q \in Seq(S)
                /\ \A i, j \in 1..Len(q) : q[i] = q[j] => i = j
                /\ \A x \in S : \E i \in 1..Len(q) : q[i] = x

\* Each id has a terminal of its own, and one place in the order.
Listed(list, map, order, n) ==
    /\ map \in [list -> 1..n]
    /\ \A x, y \in list : map[x] = map[y] => x = y
    /\ Places(order, list)

\* Who runs is the terminal of an id.
Owned(list, map, shells) ==
    /\ shells \in Seq(ShellStates)
    /\ \A t \in 1..Len(shells) : shells[t] = "running" => \E x \in list : map[x] = t

Whole(s) == /\ DOMAIN s = Fields
            /\ Listed(s.list, s.sessions, s.order, Len(s.shell))
            /\ Owned(s.list, s.sessions, s.shell)

\* An id that is put at the end of the order.
LEMMA PutLast ==
  ASSUME NEW S, NEW q, Places(q, S), NEW id, id \notin S
  PROVE  Places(Append(q, id), S \cup {id})
<1>1. /\ q \in Seq(S) /\ \A i, j \in 1..Len(q) : q[i] = q[j] => i = j
      /\ \A x \in S : \E i \in 1..Len(q) : q[i] = x
  BY DEF Places
<1>2. PICK m \in Nat : m = Len(q) BY <1>1
<1>3. PICK r : r = Append(q, id) OBVIOUS
<1>4. PICK T : T = S \cup {id} OBVIOUS
<1>5. q \in Seq(T) /\ id \in T BY ONLY <1>1, <1>4, SeqMonotonic
<1>6. /\ r \in Seq(T) /\ Len(r) = m + 1
      /\ r[m + 1] = id /\ \A i \in 1..m : r[i] = q[i] /\ q[i] \in S
  BY ONLY <1>1, <1>2, <1>3, <1>5
<1>7. 1..Len(r) = (1..m) \cup {m + 1} BY ONLY <1>6, m \in Nat
<1>8. \A i, j \in 1..Len(r) : r[i] = r[j] => i = j
  <2>1. \A i, j \in 1..m : r[i] = r[j] => i = j BY ONLY <1>1, <1>2, <1>6
  <2>2. \A i \in 1..m : r[i] # id BY ONLY <1>6, id \notin S
  <2> QED BY ONLY <2>1, <2>2, <1>6, <1>7
<1>9. \A x \in T : \E i \in 1..Len(r) : r[i] = x
  <2>1. \A x \in S : \E i \in 1..m : r[i] = x BY ONLY <1>1, <1>2, <1>6
  <2> QED BY ONLY <2>1, <1>4, <1>6, <1>7
<1> QED BY ONLY <1>3, <1>4, <1>6, <1>8, <1>9 DEF Places

\* An id that is taken out of the order.
LEMMA TakenOut ==
  ASSUME NEW S, NEW q, Places(q, S), NEW id \in S, NEW r, r = RemoveFirst(q, id)
  PROVE  Places(r, S \ {id})
<1> q \in Seq(S) /\ \A i, j \in 1..Len(q) : q[i] = q[j] => i = j
  BY DEF Places
<1> \A x \in S : \E i \in 1..Len(q) : q[i] = x
  BY DEF Places
<1>1. PICK k \in 1..Len(q) : q[k] = id OBVIOUS
<1>0. Len(q) \in Nat OBVIOUS
<1>2. PICK n \in Nat : n = Len(q) BY <1>0
<1>3. {i \in 1..Len(q) : q[i] = id} = {k} BY <1>1
<1>4. Min({k}) = k BY <1>1 DEF Min
<1>5. SelectInSeq(q, LAMBDA v : v = id) = k BY ONLY <1>3, <1>4 DEF SelectInSeq
<1>6. RemoveFirst(q, id) = SubSeq(q, 1, k - 1) \o SubSeq(q, k + 1, Len(q))
  BY ONLY <1>1, <1>5 DEF RemoveFirst, RemoveAt
<1>7. r = RemoveFirst(q, id) OBVIOUS
<1>8. /\ r \in Seq(S) /\ Len(r) = n - 1
      /\ \A j \in 1..(k - 1) : r[j] = q[j]
      /\ \A j \in k..(n - 1) : r[j] = q[j + 1]
  BY ONLY <1>1, <1>2, <1>6, <1>7, q \in Seq(S), UnlinkedList
<1>9. k \in 1..n BY <1>1, <1>2
<1>10. \A j \in 1..(n - 1) : r[j] = q[IF j < k THEN j ELSE j + 1]
  BY ONLY <1>8, <1>9, <1>2
<1>11. ASSUME NEW j \in 1..(n - 1) PROVE r[j] \in S \ {id}
  <2>1. (IF j < k THEN j ELSE j + 1) \in 1..n /\ (IF j < k THEN j ELSE j + 1) # k
    BY ONLY <1>2, <1>9, j \in 1..(n - 1)
  <2>2. q[IF j < k THEN j ELSE j + 1] # id
    BY <1>1, <1>2, <2>1
  <2>3. r[j] \in S BY <1>8, <1>2
  <2> QED BY <2>2, <2>3, <1>10
<1>12. r \in Seq(S \ {id})
  <2>1. r = [j \in 1..(n - 1) |-> r[j]] BY <1>8, <1>2
  <2>2. r \in [1..(n - 1) -> S \ {id}] BY ONLY <2>1, <1>11
  <2>3. n - 1 \in Nat BY <1>2, <1>9
  <2> QED BY ONLY <2>2, <2>3, SeqDef
<1>13. ASSUME NEW i \in 1..Len(r), NEW j \in 1..Len(r), r[i] = r[j] PROVE i = j
  <2>1. i \in 1..(n - 1) /\ j \in 1..(n - 1) BY <1>8
  <2>2. PICK a \in 1..n : a = IF i < k THEN i ELSE i + 1 BY ONLY <2>1, <1>9, n \in Nat
  <2>3. PICK b \in 1..n : b = IF j < k THEN j ELSE j + 1 BY ONLY <2>1, <1>9, n \in Nat
  <2>4. q[a] = q[b] BY <1>10, <1>13, <2>1, <2>2, <2>3
  <2>5. a = b BY <2>4, <1>2
  <2> QED BY ONLY <2>1, <2>2, <2>3, <2>5, <1>9, <1>2
<1>14. ASSUME NEW x \in S \ {id} PROVE \E i \in 1..Len(r) : r[i] = x
  <2>1. PICK m \in 1..n : q[m] = x BY <1>2
  <2>2. m # k BY <2>1, <1>1
  <2>3. PICK j : j = IF m < k THEN m ELSE m - 1 OBVIOUS
  <2>4. j \in 1..(n - 1) /\ (IF j < k THEN j ELSE j + 1) = m
    BY ONLY <2>1, <2>2, <2>3, <1>9, <1>2
  <2>5. r[j] = x BY <2>4, <2>1, <1>10
  <2> QED BY <2>4, <2>5, <1>8
<1> QED BY ONLY <1>12, <1>13, <1>14 DEF Places

\* createSession() with an id that is free.
LEMMA CreateIsWhole ==
  ASSUME NEW s, Whole(s), NEW id, id \notin s.list
  PROVE  LET r == CreateSession(s, id)
         IN  /\ Whole(r) /\ r.list = s.list \cup {id}
             /\ r.shell = Append(s.shell, "new")
             /\ r.sessions[id] = Len(s.shell) + 1
             /\ \A x \in s.list : r.sessions[x] = s.sessions[x]
             /\ r.current = s.current /\ r.view = s.view /\ r.started = s.started
<1>1. PICK r : r = CreateSession(s, id) OBVIOUS
<1>2. /\ DOMAIN r = Fields /\ r.shell = Append(s.shell, "new")
      /\ r.sessions = PutSession(s.sessions, id, Len(s.shell) + 1)
      /\ r.list = s.list \cup {id}
      /\ r.order = (IF id \in ToSet(s.order) THEN s.order ELSE Append(s.order, id))
      /\ r.current = s.current /\ r.view = s.view /\ r.started = s.started
  BY <1>1 DEF CreateSession, Whole, Fields
<1>3. PICK list : list = s.list OBVIOUS
<1>4. PICK map : map = s.sessions OBVIOUS
<1>5. PICK order : order = s.order OBVIOUS
<1>6. PICK shells : shells = s.shell OBVIOUS
<1>7. Listed(list, map, order, Len(shells)) /\ Owned(list, map, shells)
  BY <1>3, <1>4, <1>5, <1>6 DEF Whole
<1>8. PICK n : n = Len(shells) OBVIOUS
<1>9. n \in Nat /\ shells \in Seq(ShellStates) BY <1>7, <1>8 DEF Owned
<1>10. /\ map \in [list -> 1..n] /\ \A x, y \in list : map[x] = map[y] => x = y
       /\ order \in Seq(list) /\ \A i, j \in 1..Len(order) : order[i] = order[j] => i = j
       /\ \A x \in list : \E i \in 1..Len(order) : order[i] = x
  BY <1>7, <1>8 DEF Listed, Places
<1>11. PICK more : more = list \cup {id} OBVIOUS
<1>12. id \notin list BY <1>3
<1>13. PICK map2 : map2 = [x \in more |-> IF x \in list THEN map[x] ELSE n + 1] OBVIOUS
<1>14. r.sessions = map2
  <2>1. DOMAIN map = list BY <1>10
  <2>2. r.sessions = PutSession(map, id, n + 1) BY <1>2, <1>4, <1>6, <1>8
  <2> QED BY ONLY <2>1, <2>2, <1>11, <1>12, <1>13 DEF PutSession
<1>15. PICK order2 : order2 = Append(order, id) OBVIOUS
<1>16. r.order = order2
  <2>1. id \notin ToSet(order) BY <1>10, <1>12 DEF ToSet
  <2> QED BY <1>2, <1>5, <1>15, <2>1
<1>17. PICK shells2 : shells2 = Append(shells, "new") OBVIOUS
<1>18. /\ shells2 \in Seq(ShellStates) /\ Len(shells2) = n + 1
       /\ shells2[n + 1] = "new" /\ \A t \in 1..n : shells2[t] = shells[t]
  <2>1. "new" \in ShellStates BY DEF ShellStates
  <2> QED BY ONLY <2>1, <1>8, <1>9, <1>17
<1>19. Listed(more, map2, order2, n + 1)
  <2>1. map2 \in [more -> 1..(n + 1)] BY ONLY <1>9, <1>10, <1>11, <1>12, <1>13
  <2>2. ASSUME NEW x \in more, NEW y \in more, map2[x] = map2[y] PROVE x = y
    <3>1. \A z \in list : map2[z] = map[z] /\ map[z] # n + 1 BY ONLY <1>9, <1>10, <1>11, <1>13
    <3>2. map2[id] = n + 1 BY ONLY <1>11, <1>12, <1>13
    <3> QED BY ONLY <2>2, <3>1, <3>2, <1>10, <1>11
  <2>3. Places(order, list) BY <1>7 DEF Listed
  <2>4. Places(order2, more) BY ONLY <2>3, <1>11, <1>12, <1>15, PutLast
  <2> QED BY <2>1, <2>2, <2>4 DEF Listed
<1>20. Owned(more, map2, shells2)
  <2>1. ASSUME NEW t \in 1..(n + 1), shells2[t] = "running" PROVE \E x \in more : map2[x] = t
    <3>1. t \in 1..n BY ONLY <2>1, <1>9, <1>18
    <3>2. shells[t] = "running" BY ONLY <3>1, <2>1, <1>18
    <3>3. PICK x \in list : map[x] = t BY <3>1, <3>2, <1>7, <1>8 DEF Owned
    <3>4. x \in more /\ map2[x] = t BY ONLY <3>3, <1>11, <1>13
    <3> QED BY <3>4
  <2> QED BY <2>1, <1>18 DEF Owned
<1>21. r.shell = shells2 /\ r.list = more BY <1>2, <1>3, <1>6, <1>11, <1>17
<1>22. Whole(r) BY ONLY <1>2, <1>14, <1>16, <1>18, <1>19, <1>20, <1>21 DEF Whole
<1>23. map2[id] = n + 1 /\ \A x \in list : map2[x] = map[x] BY ONLY <1>11, <1>12, <1>13
<1>24. r.sessions[id] = Len(s.shell) + 1 /\ \A x \in s.list : r.sessions[x] = s.sessions[x]
  BY ONLY <1>23, <1>14, <1>3, <1>4, <1>6, <1>8
<1> QED BY ONLY <1>1, <1>2, <1>22, <1>24

\* terminateSession()
LEMMA TerminateIsWhole ==
  ASSUME NEW s, Whole(s), NEW id \in s.list
  PROVE  LET r == TerminateSession(s, id)
         IN  /\ Whole(r) /\ r.list = s.list \ {id}
             /\ \A x \in r.list : r.sessions[x] = s.sessions[x]
             /\ r.current = s.current /\ r.view = s.view
             /\ r.started = (s.started /\ r.list # {})
<1>1. PICK r : r = TerminateSession(s, id) OBVIOUS
<1>2. PICK list : list = s.list OBVIOUS
<1>3. PICK map : map = s.sessions OBVIOUS
<1>4. PICK order : order = s.order OBVIOUS
<1>5. PICK shells : shells = s.shell OBVIOUS
<1>6. Listed(list, map, order, Len(shells)) /\ Owned(list, map, shells)
  BY <1>2, <1>3, <1>4, <1>5 DEF Whole
<1>7. DOMAIN map = list /\ id \in list BY <1>6, <1>2 DEF Listed
<1>8. PICK left : left = list \ {id} OBVIOUS
<1>9. PICK map2 : map2 = Restrict(map, left) OBVIOUS
<1>10. map2 = [x \in left |-> map[x]] BY ONLY <1>9 DEF Restrict
<1>11. PICK shells2 : shells2 = FinishIfRunning(shells, {map[id]}) OBVIOUS
<1>12. /\ DOMAIN r = Fields /\ r.shell = shells2 /\ r.sessions = map2 /\ r.list = left
       /\ r.order = RemoveFirst(order, id) /\ r.current = s.current /\ r.view = s.view
       /\ r.started = (s.started /\ left # {})
  <2>1. DOMAIN s = Fields BY DEF Whole
  <2>2. DOMAIN map \ {id} = left BY <1>7, <1>8
  <2>3. (IF id \in DOMAIN map THEN {map[id]} ELSE {}) = {map[id]} BY <1>7
  <2>4. DOMAIN map2 = left BY <1>10
  <2>5. Restrict(s.sessions, DOMAIN s.sessions \ {id}) = map2 BY <1>3, <1>9, <2>2
  <2>6. (IF id \in DOMAIN s.sessions THEN {s.sessions[id]} ELSE {}) = {map[id]} BY <1>3, <2>3
  <2>7. r = [s EXCEPT !.shell = shells2, !.sessions = map2, !.list = left,
                      !.order = RemoveFirst(order, id), !.started = s.started /\ left # {}]
    BY ONLY <1>1, <1>2, <1>4, <1>5, <1>8, <1>11, <2>4, <2>5, <2>6 DEF TerminateSession
  <2> QED BY ONLY <2>1, <2>7 DEF Fields
<1>13. PICK n : n = Len(shells) OBVIOUS
<1>14. n \in Nat /\ shells \in Seq(ShellStates) BY <1>6, <1>13 DEF Owned
<1>15. /\ shells2 \in Seq(ShellStates) /\ Len(shells2) = n
       /\ \A t \in 1..n : shells2[t] = "running" => shells[t] = "running" /\ t # map[id]
  <2>1. DOMAIN shells = 1..n BY <1>13, <1>14
  <2>2. shells2 = [t \in 1..n |-> IF t = map[id] /\ shells[t] = "running" THEN "ended" ELSE shells[t]]
    BY ONLY <1>11, <2>1 DEF FinishIfRunning
  <2>3. \A t \in 1..n : shells[t] \in ShellStates BY <1>13, <1>14
  <2>4. shells2 \in [1..n -> ShellStates] BY ONLY <2>2, <2>3 DEF ShellStates
  <2>5. shells2 \in Seq(ShellStates) BY ONLY <2>4, <1>14, SeqDef
  <2>6. Len(shells2) = n BY ONLY <2>4, <2>5, <1>14
  <2> QED BY ONLY <2>2, <2>5, <2>6
<1>16. Listed(left, map2, RemoveFirst(order, id), n)
  <2>1. map2 \in [left -> 1..n] /\ \A x, y \in left : map2[x] = map2[y] => x = y
    BY <1>6, <1>8, <1>10, <1>13 DEF Listed
  <2>2. Places(order, list) BY <1>6 DEF Listed
  <2>3. PICK q : q = RemoveFirst(order, id) OBVIOUS
  <2>4. Places(q, left) BY ONLY <2>2, <2>3, <1>7, <1>8, TakenOut
  <2> QED BY ONLY <2>1, <2>3, <2>4 DEF Listed
<1>17. Owned(left, map2, shells2)
  <2>1. ASSUME NEW t \in 1..n, shells2[t] = "running" PROVE \E x \in left : map2[x] = t
    <3>1. shells[t] = "running" /\ t # map[id] BY <2>1, <1>15
    <3>2. PICK x \in list : map[x] = t BY <3>1, <1>6, <1>13 DEF Owned
    <3>3. x \in left /\ map2[x] = t BY <3>1, <3>2, <1>8, <1>10
    <3> QED BY <3>3
  <2> QED BY <2>1, <1>15 DEF Owned
<1>18. Whole(r) BY ONLY <1>12, <1>15, <1>16, <1>17 DEF Whole
<1>19. \A x \in left : map2[x] = map[x] BY ONLY <1>10
<1> QED BY ONLY <1>1, <1>2, <1>3, <1>8, <1>12, <1>18, <1>19

\* renameSession(), to an id that is free.
LEMMA RenameIsWhole ==
  ASSUME NEW s, Whole(s), NEW old \in s.list, NEW new, new \notin s.list
  PROVE  LET r == RenameSession(s, old, new)
         IN  /\ Whole(r) /\ r.list = (s.list \ {old}) \cup {new}
             /\ r.shell = s.shell /\ r.sessions[new] = s.sessions[old]
             /\ \A x \in s.list \ {old} : r.sessions[x] = s.sessions[x]
             /\ r.current = (IF s.current = old THEN new ELSE s.current)
             /\ r.view = s.view /\ r.started = s.started
<1>1. PICK r : r = RenameSession(s, old, new) OBVIOUS
<1>2. PICK list : list = s.list OBVIOUS
<1>3. PICK map : map = s.sessions OBVIOUS
<1>4. PICK order : order = s.order OBVIOUS
<1>5. PICK shells : shells = s.shell OBVIOUS
<1>6. Listed(list, map, order, Len(shells)) /\ Owned(list, map, shells)
  BY <1>2, <1>3, <1>4, <1>5 DEF Whole
<1>7. DOMAIN map = list /\ old \in list /\ new \notin list BY <1>6, <1>2 DEF Listed
<1>8. PICK list2 : list2 = (list \ {old}) \cup {new} OBVIOUS
<1>9. PICK map2 : map2 = PutSession(Restrict(map, list \ {old}), new, map[old]) OBVIOUS
<1>10. map2 = [x \in list2 |-> IF x = new THEN map[old] ELSE map[x]]
  <2>1. PICK kept : kept = Restrict(map, list \ {old}) OBVIOUS
  <2>2. kept = [x \in list \ {old} |-> map[x]] BY ONLY <2>1 DEF Restrict
  <2>3. map2 = PutSession(kept, new, map[old]) BY <2>1, <1>9
  <2> QED BY ONLY <2>2, <2>3, <1>8 DEF PutSession
<1>11. PICK order2 : order2 = [i \in DOMAIN order |-> IF order[i] = old THEN new ELSE order[i]] OBVIOUS
<1>12. /\ DOMAIN r = Fields /\ r.shell = shells /\ r.sessions = map2 /\ r.list = list2
       /\ r.order = order2 /\ r.current = (IF s.current = old THEN new ELSE s.current)
       /\ r.view = s.view /\ r.started = s.started
  <2>1. DOMAIN s = Fields BY DEF Whole
  <2>2. r = [s EXCEPT !.sessions = map2, !.list = list2, !.order = order2,
                      !.current = IF s.current = old THEN new ELSE s.current]
    <3>1. r = [s EXCEPT !.sessions = PutSession(Restrict(s.sessions, DOMAIN s.sessions \ {old}), new, s.sessions[old]),
                        !.list = (s.list \ {old}) \cup {new},
                        !.order = [i \in DOMAIN s.order |-> IF s.order[i] = old THEN new ELSE s.order[i]],
                        !.current = IF s.current = old THEN new ELSE s.current]
      BY ONLY <1>1 DEF RenameSession
    <3>2. DOMAIN s.sessions = list BY <1>3, <1>7
    <3> QED BY ONLY <3>1, <3>2, <1>2, <1>3, <1>4, <1>8, <1>9, <1>11
  <2> QED BY ONLY <2>1, <2>2, <1>5 DEF Fields
<1>13. PICK n : n = Len(shells) OBVIOUS
<1>14. /\ map \in [list -> 1..n] /\ \A x, y \in list : map[x] = map[y] => x = y
       /\ order \in Seq(list) /\ \A i, j \in 1..Len(order) : order[i] = order[j] => i = j
       /\ \A x \in list : \E i \in 1..Len(order) : order[i] = x
  BY <1>6, <1>13 DEF Listed, Places
<1>15. map2 \in [list2 -> 1..n] /\ \A x, y \in list2 : map2[x] = map2[y] => x = y
  BY ONLY <1>7, <1>8, <1>10, <1>14
<1>16. Places(order2, list2)
  <2>8. order \in Seq(list) BY <1>14
  <2>1. PICK m \in Nat : m = Len(order) BY ONLY <2>8
  <2>2. DOMAIN order = 1..m /\ \A i \in 1..m : order[i] \in list BY <1>14, <2>1
  <2>3. order2 \in [1..m -> list2] BY ONLY <2>2, <1>8, <1>11
  <2>4. order2 \in Seq(list2) BY ONLY <2>3, SeqDef
  <2>5. Len(order2) = m BY ONLY <2>3, <2>4, m \in Nat
  <2>6. \A i, j \in 1..m : order2[i] = order2[j] => i = j
    BY ONLY <2>1, <2>2, <1>7, <1>11, <1>14
  <2>7. ASSUME NEW x \in list2 PROVE \E i \in 1..m : order2[i] = x
    <3>1. CASE x = new
      <4>1. PICK i \in 1..m : order[i] = old BY <1>7, <1>14, <2>1
      <4>2. order2[i] = x BY ONLY <4>1, <3>1, <2>2, <1>11, i \in 1..m
      <4> QED BY <4>2
    <3>2. CASE x \in list \ {old}
      <4>1. PICK i \in 1..m : order[i] = x BY <3>2, <1>14, <2>1
      <4>2. order2[i] = x BY ONLY <4>1, <3>2, <2>2, <1>11, i \in 1..m
      <4> QED BY <4>2
    <3> QED BY <3>1, <3>2, <1>8
  <2> QED BY ONLY <2>4, <2>5, <2>6, <2>7 DEF Places
<1>17. Owned(list2, map2, shells)
  <2>1. ASSUME NEW t \in 1..n, shells[t] = "running" PROVE \E x \in list2 : map2[x] = t
    <3>1. PICK x \in list : map[x] = t BY <2>1, <1>6, <1>13 DEF Owned
    <3>2. PICK y : y = IF x = old THEN new ELSE x OBVIOUS
    <3>3. y \in list2 /\ map2[y] = t BY ONLY <3>1, <3>2, <1>7, <1>8, <1>10
    <3> QED BY <3>3
  <2> QED BY <2>1, <1>6, <1>13 DEF Owned
<1>18. Whole(r) BY ONLY <1>12, <1>13, <1>15, <1>16, <1>17 DEF Whole, Listed
<1>19. map2[new] = map[old] /\ \A x \in list \ {old} : map2[x] = map[x] BY ONLY <1>7, <1>8, <1>10
<1> QED BY ONLY <1>1, <1>2, <1>3, <1>5, <1>8, <1>12, <1>18, <1>19

\* attachSession()
LEMMA AttachedIsWhole ==
  ASSUME NEW s, Whole(s), NEW id \in s.list
  PROVE  LET r == Attached(s, id)
         IN  /\ Whole(r) /\ r.list = s.list /\ r.sessions = s.sessions
             /\ r.view = s.sessions[id] /\ r.view \in Nat \ {0}
             /\ r.current = s.current /\ r.started = s.started
<1>1. PICK r : r = Attached(s, id) OBVIOUS
<1>2. PICK list : list = s.list OBVIOUS
<1>3. PICK map : map = s.sessions OBVIOUS
<1>4. PICK order : order = s.order OBVIOUS
<1>5. PICK shells : shells = s.shell OBVIOUS
<1>6. Listed(list, map, order, Len(shells)) /\ Owned(list, map, shells)
  BY <1>2, <1>3, <1>4, <1>5 DEF Whole
<1>7. PICK n : n = Len(shells) OBVIOUS
<1>8. n \in Nat /\ shells \in Seq(ShellStates) /\ DOMAIN shells = 1..n BY <1>6, <1>7 DEF Owned
<1>9. map \in [list -> 1..n] /\ id \in list BY <1>6, <1>7, <1>2 DEF Listed
<1>10. PICK t \in 1..n : t = map[id] BY <1>9
<1>11. PICK shells2 : shells2 = [shells EXCEPT ![t] = IF @ = "new" THEN "running" ELSE @] OBVIOUS
<1>12. /\ DOMAIN r = Fields /\ r.shell = shells2 /\ r.sessions = map /\ r.list = list
       /\ r.order = order /\ r.current = s.current /\ r.view = t /\ r.started = s.started
  <2>1. DOMAIN s = Fields BY DEF Whole
  <2>2. s.sessions[id] = t BY <1>3, <1>10
  <2>3. r = [s EXCEPT !.view = t, !.shell = shells2]
    <3>1. r = [s EXCEPT !.view = t, !.shell[t] = IF @ = "new" THEN "running" ELSE @]
      BY ONLY <1>1, <2>2 DEF Attached
    <3>2. r = [[s EXCEPT !.view = t] EXCEPT !.shell = [[s EXCEPT !.view = t].shell EXCEPT ![t] = IF @ = "new" THEN "running" ELSE @]]
      BY ONLY <3>1, <2>1 DEF Fields
    <3>3. [s EXCEPT !.view = t].shell = shells BY ONLY <1>5, <2>1 DEF Fields
    <3> QED BY ONLY <3>2, <3>3, <2>1, <1>11 DEF Fields
  <2> QED BY ONLY <2>1, <2>3, <1>2, <1>3, <1>4 DEF Fields
<1>13. /\ shells2 \in Seq(ShellStates) /\ Len(shells2) = n
       /\ \A u \in 1..n : u # t => shells2[u] = shells[u]
  <2>1. \A u \in 1..n : shells[u] \in ShellStates BY <1>8, <1>7
  <2>2. shells2 = [u \in 1..n |-> IF u = t /\ shells[u] = "new" THEN "running" ELSE shells[u]]
    BY ONLY <1>11, <1>8
  <2>3. shells2 \in [1..n -> ShellStates] BY ONLY <2>1, <2>2 DEF ShellStates
  <2>4. shells2 \in Seq(ShellStates) BY ONLY <2>3, <1>8, SeqDef
  <2>5. Len(shells2) = n BY ONLY <2>3, <2>4, <1>8
  <2> QED BY ONLY <2>2, <2>4, <2>5
<1>14. Owned(list, map, shells2)
  <2>1. ASSUME NEW u \in 1..n, shells2[u] = "running" PROVE \E x \in list : map[x] = u
    <3>1. CASE u = t BY <3>1, <1>9, <1>10
    <3>2. CASE u # t BY <3>2, <2>1, <1>13, <1>6, <1>7 DEF Owned
    <3> QED BY <3>1, <3>2
  <2> QED BY <2>1, <1>13 DEF Owned
<1>15. Whole(r) BY <1>12, <1>13, <1>14, <1>6, <1>7 DEF Whole
<1>16. t \in Nat \ {0} BY <1>8
<1> QED BY ONLY <1>1, <1>2, <1>3, <1>10, <1>12, <1>15, <1>16

\* changeSession(), to a session there is.
LEMMA ChangeIsWhole ==
  ASSUME NEW s, Whole(s), NEW id \in s.list
  PROVE  LET r == ChangeSession(s, id)
         IN  /\ Whole(r) /\ r.list = s.list /\ r.sessions = s.sessions
             /\ r.view = s.sessions[id] /\ r.view \in Nat \ {0}
             /\ r.current = id /\ r.started = s.started
<1>1. PICK r : r = ChangeSession(s, id) OBVIOUS
<1>2. PICK a : a = Attached(s, id) OBVIOUS
<1>3. /\ Whole(a) /\ a.list = s.list /\ a.sessions = s.sessions
      /\ a.view = s.sessions[id] /\ a.view \in Nat \ {0} /\ a.started = s.started
  BY <1>2, AttachedIsWhole
<1>4. SessionFor(s, id) = s BY DEF SessionFor, Whole, Listed
<1>5. r = [a EXCEPT !.current = id] BY <1>1, <1>2, <1>4 DEF ChangeSession
<1>6. DOMAIN a = Fields BY <1>3 DEF Whole
<1>7. /\ DOMAIN r = Fields /\ r.list = a.list /\ r.sessions = a.sessions /\ r.order = a.order
      /\ r.shell = a.shell /\ r.view = a.view /\ r.current = id /\ r.started = a.started
  BY ONLY <1>5, <1>6 DEF Fields
<1>8. Whole(r) BY ONLY <1>3, <1>7 DEF Whole
<1> QED BY ONLY <1>1, <1>3, <1>7, <1>8

\* The service is up while the app is open, and nothing runs when it is not; what
\* the user sees is the current session.
SessInv ==
    /\ Whole(AsItIs)
    /\ activity \in {"on", "finishing", "off"} /\ service \in [alive : BOOLEAN, started : BOOLEAN]
    /\ activity = "on" => service.started
    /\ service.started => service.alive
    /\ ~service.started => \A t \in Terminals : shell[t] # "running"
    /\ Usable => currentSession \in sessionList /\ sessions[currentSession] = terminalView

\* No sessions.
LEMMA NothingListed == ASSUME NEW n PROVE Listed({}, <<>>, <<>>, n)
<1>1. PICK e : e = <<>> OBVIOUS
<1>2. e \in Seq({}) /\ Len(e) = 0 /\ DOMAIN e = {} BY <1>1
<1>3. e \in [{} -> 1..n]
  <2>1. e = [x \in 1..0 |-> e[x]] BY <1>2
  <2>2. 1..0 = {} OBVIOUS
  <2> QED BY ONLY <2>1, <2>2
<1> QED BY <1>1, <1>2, <1>3 DEF Listed, Places

\* The variables as a record.
LEMMA Record ==
  /\ AsItIs.sessions = sessions /\ AsItIs.list = sessionList /\ AsItIs.order = sessionOrder
  /\ AsItIs.current = currentSession /\ AsItIs.shell = shell /\ AsItIs.view = terminalView
  /\ AsItIs.started = service.started /\ DOMAIN AsItIs = Fields
  BY DEF AsItIs, Fields

\* What is whole is so by its lists and its terminals.
LEMMA WholeIs ==
  Whole(AsItIs) <=> /\ Listed(sessionList, sessions, sessionOrder, Len(shell))
                    /\ Owned(sessionList, sessions, shell)
  BY ONLY Record DEF Whole

\* The same of the next state.
LEMMA WholeNext ==
  Whole(AsItIs)' <=> /\ Listed(sessionList', sessions', sessionOrder', Len(shell'))
                     /\ Owned(sessionList', sessions', shell')
<1> DEFINE r == [sessions |-> sessions', list |-> sessionList', order |-> sessionOrder', current |-> currentSession',
                 shell |-> shell', view |-> terminalView', started |-> service'.started]
<1>1. /\ r.sessions = sessions' /\ r.list = sessionList' /\ r.order = sessionOrder'
      /\ r.shell = shell' /\ DOMAIN r = Fields
  BY DEF Fields
<1>2. Whole(AsItIs)' <=> Whole(r) BY DEF Whole, AsItIs, Fields
<1> HIDE DEF r
<1> QED BY ONLY <1>1, <1>2 DEF Whole

\* A handler in the open app leaves the service up and the current session shown, or
\* no session at all.
LEMMA Turned ==
  ASSUME SessInv, NEW s, Whole(s), Turns(s), s.started \in BOOLEAN,
         activity' \in {"on", "finishing"}, service.alive,
         activity' = "on" => s.started,
         s.view # 0 => s.current \in s.list /\ s.sessions[s.current] = s.view,
         s.started \/ s.list = {}
  PROVE  SessInv'
<1>1. /\ sessions' = s.sessions /\ sessionList' = s.list /\ sessionOrder' = s.order
      /\ currentSession' = s.current /\ shell' = s.shell /\ terminalView' = s.view
      /\ service' = [service EXCEPT !.started = s.started]
  BY DEF Turns
<1>2. service \in [alive : BOOLEAN, started : BOOLEAN] BY DEF SessInv
<1>3. /\ service' \in [alive : BOOLEAN, started : BOOLEAN]
      /\ service'.started = s.started /\ service'.alive
  BY ONLY <1>1, <1>2, s.started \in BOOLEAN, service.alive
<1>4. Listed(sessionList', sessions', sessionOrder', Len(shell')) /\ Owned(sessionList', sessions', shell')
  BY <1>1 DEF Whole
<1>5. Whole(AsItIs)' BY <1>4, WholeNext
<1>6. ~s.started => \A t \in 1..Len(shell') : shell'[t] # "running"
  BY <1>1, <1>4 DEF Owned
<1> QED BY <1>1, <1>3, <1>5, <1>6 DEF SessInv, Terminals, Usable

\* The app makes up an id that is free.
LEMMA FreshIsFree ==
  ASSUME NEW n \in Nat, n < MaxTerminals, NEW list, NEW map \in [list -> 1..n],
         \A x, y \in list : map[x] = map[y] => x = y, NEW ids \in MadeUpIds
  PROVE  FreshId(ids, list) \notin list
<1>1. /\ DOMAIN ids \subseteq Nat /\ 1..MaxTerminals \subseteq DOMAIN ids
      /\ \A i, j \in DOMAIN ids : ids[i] = ids[j] => i = j
      /\ MaxTerminals \in Nat
  BY SessionsAssumption
<1> DEFINE free == {i \in DOMAIN ids : ids[i] \notin list}
<1>2. free # {}
  <2> SUFFICES ASSUME free = {} PROVE FALSE OBVIOUS
  <2>1. \A i \in 1..MaxTerminals : ids[i] \in list BY <1>1
  <2>2. PICK f : f = [i \in 1..MaxTerminals |-> map[ids[i]]] OBVIOUS
  <2>3. f \in [1..MaxTerminals -> 1..n] BY <2>1, <2>2
  <2>4. \A i, j \in 1..MaxTerminals : f[i] = f[j] => i = j BY <1>1, <2>1, <2>2
  <2>5. f \in Injection(1..MaxTerminals, 1..n)
    BY ONLY <2>3, <2>4 DEF Injection, IsInjective
  <2>6. IsFiniteSet(1..n) /\ Cardinality(1..n) = n
    <3>1. 1 \in Int /\ n \in Int /\ (IF 1 > n THEN 0 ELSE n - 1 + 1) = n OBVIOUS
    <3> QED BY ONLY <3>1, FS_Interval
  <2>7. Cardinality(1..MaxTerminals) = MaxTerminals
    <3>1. 1 \in Int /\ MaxTerminals \in Int /\ (IF 1 > MaxTerminals THEN 0 ELSE MaxTerminals - 1 + 1) = MaxTerminals
      BY <1>1
    <3> QED BY ONLY <3>1, FS_Interval
  <2>8. Cardinality(1..MaxTerminals) <= Cardinality(1..n)
    <3> QED BY ONLY <2>5, <2>6, FS_Injection
  <2> QED BY <1>1, <2>6, <2>7, <2>8
<1>3. free \subseteq Nat BY <1>1
<1>4. \E i \in free : \A j \in free : i <= j
  <2> HIDE DEF free
  <2> QED BY <1>2, <1>3, LeastElement
<1>5. Min(free) \in free
  <2> HIDE DEF free
  <2> QED BY <1>4 DEF Min
<1> QED BY <1>5 DEF FreshId

\* In the open app.
LEMMA OpenApp ==
  ASSUME SessInv, activity = "on"
  PROVE  /\ Whole(AsItIs) /\ AsItIs.started = TRUE /\ service.alive
         /\ terminalView # 0 => currentSession \in sessionList /\ sessions[currentSession] = terminalView
<1>1. service.started /\ service.started \in BOOLEAN BY DEF SessInv
<1> QED BY <1>1, Record DEF SessInv, Usable

\* The view is made, with a new terminal for a session there was none of.
LEMMA ViewCreatedStep == SessInv /\ ViewCreated => SessInv'
<1> SUFFICES ASSUME SessInv, ViewCreated PROVE SessInv' OBVIOUS
<1>1. activity = "on" /\ activity' = "on" BY DEF ViewCreated
<1>2. PICK s : s = SessionFor(AsItIs, currentSession) OBVIOUS
<1>3. Whole(AsItIs) /\ AsItIs.started = TRUE /\ service.alive BY <1>1, OpenApp
<1>4. Whole(s) /\ currentSession \in s.list /\ s.current = currentSession /\ s.started = TRUE
  <2>1. DOMAIN sessions = sessionList BY <1>3, WholeIs DEF Listed
  <2>2. CASE currentSession \in sessionList
    <3>1. s = AsItIs BY <1>2, <2>1, <2>2, Record DEF SessionFor
    <3> QED BY <3>1, <2>2, <1>3, Record
  <2>3. CASE currentSession \notin sessionList
    <3>1. s = CreateSession(AsItIs, currentSession) BY <1>2, <2>1, <2>3, Record DEF SessionFor
    <3>2. currentSession \notin AsItIs.list BY <2>3, Record
    <3>3. /\ Whole(s) /\ s.list = AsItIs.list \cup {currentSession}
          /\ s.current = AsItIs.current /\ s.started = AsItIs.started
      BY ONLY <3>1, <3>2, <1>3, CreateIsWhole
    <3> QED BY <3>3, <1>3, Record
  <2> QED BY <2>2, <2>3
<1>5. PICK r : r = Attached(s, currentSession) OBVIOUS
<1>6. /\ Whole(r) /\ r.list = s.list /\ r.sessions = s.sessions
      /\ r.view = s.sessions[currentSession] /\ r.current = s.current /\ r.started = s.started
  BY ONLY <1>4, <1>5, AttachedIsWhole
<1>7. Turns(r) BY <1>2, <1>5 DEF ViewCreated
<1> QED BY ONLY SessInv, <1>1, <1>3, <1>4, <1>6, <1>7, Turned

\* A session is created with an id that is free, and shown.
LEMMA Opened ==
  ASSUME SessInv, activity = "on", activity' = "on", NEW id, id \notin sessionList,
         Turns(ChangeSession(CreateSession(AsItIs, id), id))
  PROVE  SessInv'
<1>1. Whole(AsItIs) /\ AsItIs.started = TRUE /\ service.alive BY OpenApp
<1>2. PICK s : s = CreateSession(AsItIs, id) OBVIOUS
<1>3. id \notin AsItIs.list BY Record
<1>4. Whole(s) /\ s.list = AsItIs.list \cup {id} /\ s.started = TRUE
  BY ONLY <1>1, <1>2, <1>3, CreateIsWhole
<1>5. PICK r : r = ChangeSession(s, id) OBVIOUS
<1>6. id \in s.list BY <1>4
<1>7. /\ Whole(r) /\ r.list = s.list /\ r.sessions = s.sessions
      /\ r.view = s.sessions[id] /\ r.current = id /\ r.started = s.started
  BY ONLY <1>4, <1>5, <1>6, ChangeIsWhole
<1>8. Turns(r) BY <1>2, <1>5
<1> QED BY ONLY SessInv, activity' = "on", <1>1, <1>4, <1>6, <1>7, <1>8, Turned

\* Sessions are added.
LEMMA NewSessionStep == SessInv /\ NewSession => SessInv'
<1> SUFFICES ASSUME SessInv, NewSession PROVE SessInv' OBVIOUS
<1>1. activity = "on" /\ activity' = "on" /\ Len(shell) < MaxTerminals BY DEF NewSession, Usable, MayCreate
<1>2. PICK ids \in MadeUpIds : LET id == FreshId(ids, sessionList)
                               IN Turns(ChangeSession(CreateSession(AsItIs, id), id))
  BY DEF NewSession
<1>3. FreshId(ids, sessionList) \notin sessionList
  <2>1. /\ sessions \in [sessionList -> 1..Len(shell)] /\ Len(shell) \in Nat
        /\ \A x, y \in sessionList : sessions[x] = sessions[y] => x = y
    BY WholeIs DEF SessInv, Listed, Owned
  <2>2. PICK n \in Nat : n = Len(shell) BY <2>1
  <2>3. n < MaxTerminals /\ sessions \in [sessionList -> 1..n] BY <2>1, <2>2, <1>1
  <2> QED BY <2>1, <2>3, FreshIsFree
<1>4. PICK id : id = FreshId(ids, sessionList) OBVIOUS
<1> QED BY ONLY SessInv, <1>1, <1>2, <1>3, <1>4, Opened

\* A session is created with the name the user gives it.
LEMMA NewCustomSessionStep == Slips = {} /\ SessInv /\ NewCustomSession => SessInv'
<1> SUFFICES ASSUME Slips = {}, SessInv, NewCustomSession PROVE SessInv' OBVIOUS
<1>1. activity = "on" /\ activity' = "on" BY DEF NewCustomSession, Usable
<1>2. PICK name \in UserIds : /\ name \notin sessionList
                              /\ Turns(ChangeSession(CreateSession(AsItIs, name), name))
  BY DEF NewCustomSession
<1> QED BY ONLY SessInv, <1>1, <1>2, Opened

\* Another session is shown.
LEMMA SwitchSessionStep == SessInv /\ SwitchSession => SessInv'
<1> SUFFICES ASSUME SessInv, SwitchSession PROVE SessInv' OBVIOUS
<1>1. activity = "on" /\ activity' = "on" BY DEF SwitchSession, Usable
<1>2. Whole(AsItIs) /\ AsItIs.started = TRUE /\ service.alive BY <1>1, OpenApp
<1>3. PICK id \in sessionList : Turns(ChangeSession(AsItIs, id)) BY DEF SwitchSession
<1>4. id \in AsItIs.list BY Record
<1>5. PICK r : r = ChangeSession(AsItIs, id) OBVIOUS
<1>6. /\ Whole(r) /\ r.list = AsItIs.list /\ r.sessions = AsItIs.sessions
      /\ r.view = AsItIs.sessions[id] /\ r.current = id /\ r.started = AsItIs.started
  BY ONLY <1>2, <1>4, <1>5, ChangeIsWhole
<1>7. Turns(r) BY <1>3, <1>5
<1> QED BY ONLY SessInv, <1>1, <1>2, <1>4, <1>6, <1>7, Turned

\* After the last session is closed the app is left.
LEMMA LastClosed ==
  ASSUME SessInv, NEW s, Whole(s), s.list = {}, s.started = (AsItIs.started /\ s.list # {}),
         Turns(s), activity' = "finishing"
  PROVE  SessInv'
<1>1. s.started = FALSE OBVIOUS
<1>2. sessionList' = {} /\ sessions' = s.sessions /\ sessionOrder' = s.order /\ shell' = s.shell
      /\ service' = [service EXCEPT !.started = FALSE]
  BY <1>1 DEF Turns
<1>3. Whole(AsItIs)' BY <1>2, WholeNext DEF Whole
<1>4. \A t \in 1..Len(shell') : shell'[t] # "running" BY <1>2 DEF Whole, Owned
<1>5. service' \in [alive : BOOLEAN, started : BOOLEAN] /\ ~service'.started
  <2>1. service \in [alive : BOOLEAN, started : BOOLEAN] BY DEF SessInv
  <2> QED BY ONLY <2>1, <1>2
<1> QED BY <1>3, <1>4, <1>5 DEF SessInv, Terminals, Usable

\* The current session is closed: another one is shown first, and without another one
\* the app is left.
LEMMA CloseSessionStep == SessInv /\ CloseSession => SessInv'
<1> SUFFICES ASSUME SessInv, CloseSession PROVE SessInv' OBVIOUS
<1>1. activity = "on" /\ terminalView # 0 BY DEF CloseSession, Usable
<1>2. /\ Whole(AsItIs) /\ AsItIs.started = TRUE /\ service.alive /\ currentSession \in sessionList
  BY <1>1, OpenApp
<1>3. currentSession \in AsItIs.list BY <1>2, Record
<1>4. CASE Cardinality(sessionList) <= 1
  <2>1. PICK s : s = TerminateSession(AsItIs, currentSession) OBVIOUS
  <2>2. /\ Whole(s) /\ s.list = AsItIs.list \ {currentSession}
        /\ s.view = AsItIs.view /\ s.started = (AsItIs.started /\ s.list # {})
    BY ONLY <1>2, <1>3, <2>1, TerminateIsWhole
  <2>3. sessionList = {currentSession}
    <3>1. IsFiniteSet(sessionList)
      <4>1. Listed(sessionList, sessions, sessionOrder, Len(shell)) /\ Len(shell) \in Nat
        BY WholeIs DEF SessInv, Owned
      <4>2. PICK n \in Nat : n = Len(shell) BY <4>1
      <4>3. sessions \in Injection(sessionList, 1..n)
        BY <4>1, <4>2 DEF Listed, Injection, IsInjective
      <4>4. IsFiniteSet(1..n) BY FS_Interval
      <4> QED BY ONLY <4>3, <4>4, FS_Injection
    <3>2. ASSUME NEW x \in sessionList, x # currentSession PROVE FALSE
      <4>1. PICK c : c = currentSession OBVIOUS
      <4>2. Cardinality({c, x}) = 2 /\ {c, x} \in SUBSET sessionList
        <5>1. IsFiniteSet({c}) /\ Cardinality({c}) = 1 BY FS_Singleton
        <5>2. x \notin {c} BY <3>2, <4>1
        <5>3. Cardinality({c} \cup {x}) = Cardinality({c}) + 1 BY ONLY <5>1, <5>2, FS_AddElement
        <5>4. {c} \cup {x} = {c, x} OBVIOUS
        <5> QED BY <5>1, <5>3, <5>4, <4>1, <1>2
      <4>3. Cardinality({c, x}) <= Cardinality(sessionList) BY ONLY <3>1, <4>2, FS_Subset
      <4>4. Cardinality(sessionList) \in Nat BY <3>1, FS_CardinalityType
      <4> QED BY ONLY <1>4, <4>2, <4>3, <4>4
    <3> QED BY <3>2, <1>2
  <2>4. s.list = {} BY <2>2, <2>3, Record
  <2>5. Turns(s) /\ activity' = "finishing" BY <1>4, <2>1, <2>4 DEF CloseSession
  <2> QED BY ONLY SessInv, <1>2, <2>2, <2>4, <2>5, LastClosed
<1>5. CASE ~(Cardinality(sessionList) <= 1)
  <2>1. PICK next \in sessionList \ {currentSession} :
          Turns(TerminateSession(ChangeSession(AsItIs, next), currentSession))
    BY <1>5 DEF CloseSession
  <2>2. PICK s : s = ChangeSession(AsItIs, next) OBVIOUS
  <2>3. next \in AsItIs.list BY Record
  <2>4. /\ Whole(s) /\ s.list = AsItIs.list /\ s.sessions = AsItIs.sessions
        /\ s.view = AsItIs.sessions[next] /\ s.current = next /\ s.started = AsItIs.started
    BY ONLY <1>2, <2>2, <2>3, ChangeIsWhole
  <2>5. PICK c : c = currentSession OBVIOUS
  <2>6. c \in s.list /\ next # c BY <1>3, <2>4, <2>5
  <2>7. PICK r : r = TerminateSession(s, c) OBVIOUS
  <2>8. /\ Whole(r) /\ r.list = s.list \ {c} /\ \A x \in r.list : r.sessions[x] = s.sessions[x]
        /\ r.current = s.current /\ r.view = s.view /\ r.started = (s.started /\ r.list # {})
    BY ONLY <2>4, <2>6, <2>7, TerminateIsWhole
  <2>9. Turns(r) /\ activity' = "on" BY <1>1, <1>5, <2>1, <2>2, <2>5, <2>7 DEF CloseSession
  <2>10. next \in r.list /\ r.started = TRUE BY <2>3, <2>4, <2>6, <2>8, <1>2
  <2>11. r.current \in r.list /\ r.sessions[r.current] = r.view BY <2>4, <2>8, <2>10
  <2> QED BY ONLY SessInv, <1>2, <2>8, <2>9, <2>10, <2>11, Turned
<1> QED BY <1>4, <1>5

\* Enter in a terminal whose shell has ended.
LEMMA EnterWhenEndedStep == SessInv /\ EnterWhenEnded => SessInv'
<1> SUFFICES ASSUME SessInv, EnterWhenEnded PROVE SessInv' OBVIOUS
<1>1. activity = "on" /\ terminalView # 0 BY DEF EnterWhenEnded, Usable
<1>2. /\ Whole(AsItIs) /\ AsItIs.started = TRUE /\ service.alive /\ currentSession \in sessionList
  BY <1>1, OpenApp
<1>3. currentSession \in AsItIs.list BY <1>2, Record
<1>4. PICK s : s = TerminateSession(AsItIs, currentSession) OBVIOUS
<1>5. /\ Whole(s) /\ s.list = AsItIs.list \ {currentSession}
      /\ s.view = AsItIs.view /\ s.started = (AsItIs.started /\ s.list # {})
  BY ONLY <1>2, <1>3, <1>4, TerminateIsWhole
<1>6. CASE s.list = {}
  <2>1. Turns(s) /\ activity' = "finishing" BY <1>4, <1>6 DEF EnterWhenEnded
  <2> QED BY ONLY SessInv, <1>4, <1>5, <1>6, <2>1, LastClosed
<1>7. CASE s.list # {}
  <2>1. PICK id \in s.list : Turns(ChangeSession(s, id)) BY <1>4, <1>7 DEF EnterWhenEnded
  <2>2. activity' = "on" BY <1>1, <1>4, <1>7 DEF EnterWhenEnded
  <2>3. PICK r : r = ChangeSession(s, id) OBVIOUS
  <2>4. /\ Whole(r) /\ r.list = s.list /\ r.sessions = s.sessions
        /\ r.view = s.sessions[id] /\ r.current = id /\ r.started = s.started
    BY ONLY <1>5, <2>3, id \in s.list, ChangeIsWhole
  <2>5. Turns(r) BY <2>1, <2>3
  <2>6. r.started = TRUE BY <1>2, <1>5, <1>7, <2>4
  <2>7. r.current \in r.list /\ r.sessions[r.current] = r.view BY <2>4
  <2> QED BY ONLY SessInv, <1>2, <2>2, <2>4, <2>5, <2>6, <2>7, Turned
<1> QED BY <1>6, <1>7

\* A session that is not shown is deleted.
LEMMA DeleteSessionStep == Slips = {} /\ SessInv /\ DeleteSession => SessInv'
<1> SUFFICES ASSUME Slips = {}, SessInv, DeleteSession PROVE SessInv' OBVIOUS
<1>1. activity = "on" /\ activity' = "on" /\ terminalView # 0 BY DEF DeleteSession, Usable
<1>2. /\ Whole(AsItIs) /\ AsItIs.started = TRUE /\ service.alive /\ currentSession \in sessionList
      /\ sessions[currentSession] = terminalView
  BY <1>1, OpenApp
<1>3. PICK id \in ToSet(sessionOrder) : id # currentSession /\ Turns(TerminateSession(AsItIs, id))
  BY DEF DeleteSession
<1>4. id \in AsItIs.list
  <2>1. sessionOrder \in Seq(sessionList) BY <1>2, WholeIs DEF Listed, Places
  <2> QED BY <2>1, Record DEF ToSet
<1>5. PICK s : s = TerminateSession(AsItIs, id) OBVIOUS
<1>6. /\ Whole(s) /\ s.list = AsItIs.list \ {id} /\ \A x \in s.list : s.sessions[x] = AsItIs.sessions[x]
      /\ s.current = AsItIs.current /\ s.view = AsItIs.view /\ s.started = (AsItIs.started /\ s.list # {})
  BY ONLY <1>2, <1>4, <1>5, TerminateIsWhole
<1>7. s.current = currentSession /\ s.current \in s.list BY <1>2, <1>3, <1>6, Record
<1>8. s.sessions[s.current] = s.view BY <1>2, <1>6, <1>7, Record
<1>9. s.started = TRUE BY <1>2, <1>6, <1>7
<1>10. Turns(s) BY <1>3, <1>5
<1> QED BY ONLY SessInv, <1>1, <1>2, <1>6, <1>7, <1>8, <1>9, <1>10, Turned

\* A session gets another name.
LEMMA RenamedSessionStep == SessInv /\ RenamedSession => SessInv'
<1> SUFFICES ASSUME SessInv, RenamedSession PROVE SessInv' OBVIOUS
<1>1. activity = "on" /\ activity' = "on" /\ terminalView # 0 BY DEF RenamedSession, Usable
<1>2. /\ Whole(AsItIs) /\ AsItIs.started = TRUE /\ service.alive /\ currentSession \in sessionList
      /\ sessions[currentSession] = terminalView
  BY <1>1, OpenApp
<1>3. PICK old \in ToSet(sessionOrder) \cap DOMAIN sessions, new \in UserIds \ sessionList :
        Turns(RenameSession(AsItIs, old, new))
  BY DEF RenamedSession
<1>4. old \in AsItIs.list /\ new \notin AsItIs.list
  <2>1. DOMAIN sessions = sessionList BY <1>2, WholeIs DEF Listed
  <2> QED BY <2>1, Record
<1>5. PICK s : s = RenameSession(AsItIs, old, new) OBVIOUS
<1>6. /\ Whole(s) /\ s.list = (AsItIs.list \ {old}) \cup {new}
      /\ s.sessions[new] = AsItIs.sessions[old]
      /\ \A x \in AsItIs.list \ {old} : s.sessions[x] = AsItIs.sessions[x]
      /\ s.current = (IF AsItIs.current = old THEN new ELSE AsItIs.current)
      /\ s.view = AsItIs.view /\ s.started = AsItIs.started
  BY ONLY <1>2, <1>4, <1>5, RenameIsWhole
<1>7. AsItIs.current \in AsItIs.list /\ AsItIs.sessions[AsItIs.current] = AsItIs.view BY <1>2, Record
<1>8. s.current \in s.list /\ s.sessions[s.current] = s.view BY ONLY <1>4, <1>6, <1>7
<1>9. Turns(s) BY <1>3, <1>5
<1> QED BY ONLY SessInv, <1>1, <1>2, <1>6, <1>8, <1>9, Turned

\* Two sessions change their places in the drawer.
LEMMA MoveSessionStep == SessInv /\ MoveSession => SessInv'
<1> SUFFICES ASSUME SessInv, MoveSession PROVE SessInv' OBVIOUS
<1>1. /\ sessions' = sessions /\ sessionList' = sessionList /\ currentSession' = currentSession
      /\ shell' = shell /\ terminalView' = terminalView /\ activity' = activity /\ service' = service
  BY DEF MoveSession
<1>2. PICK i \in 1..Len(sessionOrder) - 1 :
        sessionOrder' = [sessionOrder EXCEPT ![i] = sessionOrder[i + 1], ![i + 1] = sessionOrder[i]]
  BY DEF MoveSession
<1>3. Listed(sessionList, sessions, sessionOrder, Len(shell)) /\ Owned(sessionList, sessions, shell)
  BY WholeIs DEF SessInv
<1>4. PICK q : q = sessionOrder OBVIOUS
<1>5. PICK r : r = sessionOrder' OBVIOUS
<1>6. /\ q \in Seq(sessionList) /\ \A a, b \in 1..Len(q) : q[a] = q[b] => a = b
      /\ \A x \in sessionList : \E a \in 1..Len(q) : q[a] = x
  BY <1>3, <1>4 DEF Listed, Places
<1>7. PICK n \in Nat : n = Len(q) BY <1>6
<1>8. i \in 1..n /\ i + 1 \in 1..n /\ i # i + 1 /\ DOMAIN q = 1..n BY <1>4, <1>6, <1>7
<1>9. PICK j : j = i + 1 OBVIOUS
<1>10. r = [[q EXCEPT ![i] = q[j]] EXCEPT ![j] = q[i]] BY <1>2, <1>4, <1>5, <1>9
<1>11. r = [a \in 1..n |-> IF a = i THEN q[j] ELSE IF a = j THEN q[i] ELSE q[a]]
  BY ONLY <1>8, <1>9, <1>10
<1>12. \A a \in 1..n : q[a] \in sessionList BY <1>6, <1>7
<1>13. r \in [1..n -> sessionList] BY ONLY <1>8, <1>9, <1>11, <1>12
<1>14. r \in Seq(sessionList) BY ONLY <1>13, n \in Nat, SeqDef
<1>15. Len(r) = n BY ONLY <1>13, <1>14, n \in Nat
<1>16. i \in 1..n /\ j \in 1..n /\ i # j BY <1>8, <1>9
<1>17. \A a, b \in 1..n : q[a] = q[b] => a = b BY <1>6, <1>7
<1>18. \A a, b \in 1..n : r[a] = r[b] => a = b BY ONLY <1>11, <1>16, <1>17
<1>19. ASSUME NEW x \in sessionList PROVE \E a \in 1..n : r[a] = x
  <2>1. PICK a \in 1..n : q[a] = x BY <1>6, <1>7
  <2>2. PICK b \in 1..n : b = IF a = i THEN j ELSE IF a = j THEN i ELSE a BY <1>16
  <2>3. r[b] = x BY ONLY <1>11, <1>16, <2>1, <2>2
  <2> QED BY <2>3
<1>20. Places(r, sessionList) BY ONLY <1>14, <1>15, <1>18, <1>19 DEF Places
<1>21. Whole(AsItIs)' BY <1>1, <1>3, <1>5, <1>20, WholeNext DEF Listed
<1> QED BY <1>1, <1>21 DEF SessInv, Terminals, Usable

\* The activity is started, and the service with it.
LEMMA ActivityStartsStep == SessInv /\ ActivityStarts => SessInv'
<1> SUFFICES ASSUME SessInv, ActivityStarts PROVE SessInv' OBVIOUS
<1>1. /\ activity' = "on" /\ terminalView' = 0 /\ service' = [alive |-> TRUE, started |-> TRUE]
      /\ shell' = shell
  BY DEF ActivityStarts
<1>2. Listed(sessionList, sessions, sessionOrder, Len(shell)) /\ Owned(sessionList, sessions, shell)
  BY WholeIs DEF SessInv
<1>3. Whole(AsItIs)'
  <2>1. CASE service.alive
    <3>1. sessions' = sessions /\ sessionList' = sessionList /\ sessionOrder' = sessionOrder
      BY <2>1 DEF ActivityStarts
    <3> QED BY <1>1, <1>2, <3>1, WholeNext
  <2>2. CASE ~service.alive
    <3>1. sessions' = <<>> /\ sessionList' = {} /\ sessionOrder' = <<>>
      BY <2>2 DEF ActivityStarts
    <3>2. \A t \in 1..Len(shell) : shell[t] # "running" BY <2>2 DEF SessInv, Terminals
    <3>3. Owned({}, <<>>, shell) BY <1>2, <3>2 DEF Owned
    <3>4. Listed({}, <<>>, <<>>, Len(shell)) BY NothingListed
    <3> QED BY <1>1, <3>1, <3>3, <3>4, WholeNext
  <2> QED BY <2>1, <2>2
<1> QED BY <1>1, <1>3 DEF SessInv, Usable

\* When the service is destroyed no shell runs on.
LEMMA DestroyedStep ==
  ASSUME SessInv, ServiceDestroyed, activity' = "off",
         UNCHANGED <<sessions, sessionList, sessionOrder, currentSession, terminalView>>
  PROVE  SessInv'
<1>1. PICK n : n = Len(shell) OBVIOUS
<1>2. Listed(sessionList, sessions, sessionOrder, n) /\ Owned(sessionList, sessions, shell)
  BY <1>1, WholeIs DEF SessInv
<1>3. n \in Nat /\ shell \in Seq(ShellStates) /\ DOMAIN shell = 1..n BY <1>1, <1>2 DEF Owned
<1>4. shell' = [t \in 1..n |-> IF t \in Range(sessions) /\ shell[t] = "running" THEN "ended" ELSE shell[t]]
  BY <1>3 DEF ServiceDestroyed, FinishIfRunning
<1>5. \A t \in 1..n : shell[t] \in ShellStates BY <1>3, <1>1
<1>6. shell' \in [1..n -> ShellStates] BY ONLY <1>4, <1>5 DEF ShellStates
<1>7. shell' \in Seq(ShellStates) BY ONLY <1>3, <1>6, SeqDef
<1>8. Len(shell') = n BY ONLY <1>3, <1>6, <1>7
<1>9. \A t \in 1..n : shell'[t] # "running"
  <2>1. \A t \in 1..n : shell[t] = "running" => t \in Range(sessions)
    BY <1>1, <1>2 DEF Owned, Listed, Range
  <2> QED BY ONLY <1>4, <2>1
<1>10. Owned(sessionList, sessions, shell') BY <1>7, <1>8, <1>9 DEF Owned
<1>11. Whole(AsItIs)' BY <1>2, <1>8, <1>10, WholeNext
<1> QED BY <1>8, <1>9, <1>11 DEF SessInv, ServiceDestroyed, Terminals, Usable

\* The app is closed, and the service with it where nothing keeps it.
LEMMA ActivityStopsStep == SessInv /\ ActivityStops => SessInv'
<1> SUFFICES ASSUME SessInv, ActivityStops PROVE SessInv' OBVIOUS
<1>1. /\ activity' = "off"
      /\ UNCHANGED <<sessions, sessionList, sessionOrder, currentSession, terminalView>>
  BY DEF ActivityStops
<1>2. CASE service.started
  <2>1. service' = service /\ shell' = shell BY <1>2 DEF ActivityStops
  <2>2. Whole(AsItIs)' BY <1>1, <2>1, WholeIs, WholeNext DEF SessInv
  <2> QED BY <1>1, <1>2, <2>1, <2>2 DEF SessInv, Terminals, Usable
<1>3. CASE ~service.started
  <2>1. ServiceDestroyed BY <1>3 DEF ActivityStops
  <2> QED BY <1>1, <2>1, DestroyedStep
<1> QED BY <1>2, <1>3

\* The user ends the service from its notification.
LEMMA ExitTappedStep == Slips = {} /\ SessInv /\ ExitTapped => SessInv'
<1> SUFFICES ASSUME Slips = {}, SessInv, ExitTapped PROVE SessInv' OBVIOUS
<1>1. /\ activity' = "off" /\ ServiceDestroyed
      /\ UNCHANGED <<sessions, sessionList, sessionOrder, currentSession, terminalView>>
  BY DEF ExitTapped
<1> QED BY <1>1, DestroyedStep

\* A shell ends.
LEMMA ShellEndsStep == SessInv /\ ShellEnds => SessInv'
<1> SUFFICES ASSUME SessInv, ShellEnds PROVE SessInv' OBVIOUS
<1>1. /\ sessions' = sessions /\ sessionList' = sessionList /\ sessionOrder' = sessionOrder
      /\ currentSession' = currentSession /\ terminalView' = terminalView
      /\ activity' = activity /\ service' = service
  BY DEF ShellEnds
<1>2. PICK n : n = Len(shell) OBVIOUS
<1>3. Listed(sessionList, sessions, sessionOrder, n) /\ Owned(sessionList, sessions, shell)
  BY <1>2, WholeIs DEF SessInv
<1>4. n \in Nat /\ shell \in Seq(ShellStates) /\ DOMAIN shell = 1..n BY <1>2, <1>3 DEF Owned
<1>5. PICK u \in 1..n : shell' = [shell EXCEPT ![u] = "ended"] BY <1>2 DEF ShellEnds, Terminals
<1>6. \A t \in 1..n : shell[t] \in ShellStates BY <1>2, <1>4
<1>7. shell' \in [1..n -> ShellStates] BY ONLY <1>4, <1>5, <1>6 DEF ShellStates
<1>8. shell' \in Seq(ShellStates) BY ONLY <1>4, <1>7, SeqDef
<1>9. Len(shell') = n BY ONLY <1>4, <1>7, <1>8
<1>10. \A t \in 1..n : shell'[t] = "running" => shell[t] = "running" BY ONLY <1>4, <1>5
<1>11. Owned(sessionList, sessions, shell') BY <1>2, <1>3, <1>8, <1>9, <1>10 DEF Owned
<1>12. Whole(AsItIs)' BY <1>1, <1>3, <1>9, <1>11, WholeNext
<1>13. ~service.started => \A t \in 1..Len(shell') : shell'[t] # "running"
  BY <1>2, <1>9, <1>10 DEF SessInv, Terminals
<1> QED BY <1>1, <1>12, <1>13 DEF SessInv, Terminals, Usable

\* Nothing is open at first.
LEMMA SessionsStart == SessionsInit => SessInv
<1> SUFFICES ASSUME SessionsInit PROVE SessInv OBVIOUS
<1>1. /\ sessions = <<>> /\ sessionList = {} /\ sessionOrder = <<>> /\ shell = <<>>
      /\ activity = "off" /\ service = [alive |-> FALSE, started |-> FALSE]
  BY DEF SessionsInit
<1>2. Len(shell) = 0 /\ shell \in Seq(ShellStates) BY <1>1
<1>3. Listed({}, <<>>, <<>>, Len(shell)) BY NothingListed
<1>4. Owned({}, <<>>, shell) BY <1>2 DEF Owned
<1>5. Whole(AsItIs) BY <1>1, <1>3, <1>4, WholeIs
<1> QED BY <1>1, <1>2, <1>5 DEF SessInv, Terminals, Usable

\* SessInv says what is wanted.
LEMMA SessionsMeant == SessInv => SessionsKept
<1> SUFFICES ASSUME SessInv PROVE SessionsKept OBVIOUS
<1>1. Listed(sessionList, sessions, sessionOrder, Len(shell)) /\ Owned(sessionList, sessions, shell)
  BY WholeIs DEF SessInv
<1>2. DOMAIN sessions = sessionList BY <1>1 DEF Listed
<1>3. ViewsAgree
  <2>1. PICK n \in Nat : n = Len(sessionOrder) BY <1>1 DEF Listed, Places
  <2>2. /\ sessionOrder \in [1..n -> sessionList] /\ DOMAIN sessionOrder = 1..n
        /\ \A i, j \in 1..n : sessionOrder[i] = sessionOrder[j] => i = j
        /\ \A x \in sessionList : \E i \in 1..n : sessionOrder[i] = x
    BY <1>1, <2>1 DEF Listed, Places
  <2>3. ToSet(sessionOrder) = sessionList BY <2>2 DEF ToSet
  <2>4. IsFiniteSet(1..n) /\ Cardinality(1..n) = n
    <3>1. 1 \in Int /\ n \in Int /\ (IF 1 > n THEN 0 ELSE n - 1 + 1) = n OBVIOUS
    <3> QED BY ONLY <3>1, FS_Interval
  <2>5. Cardinality(sessionList) = Cardinality(1..n)
    BY ONLY <2>2, <2>4, Renumbered
  <2> QED BY <1>2, <2>1, <2>3, <2>4, <2>5 DEF ViewsAgree
<1>4. NoneOrphaned BY <1>1, <1>2 DEF Owned, NoneOrphaned, Terminals, Range
<1>5. ShownIsCurrent BY <1>2 DEF SessInv, ShownIsCurrent
<1>6. StaysUp BY DEF SessInv, StaysUp
<1> QED BY <1>3, <1>4, <1>5, <1>6 DEF SessionsKept

\* However the user, the shells and Android interleave, the views of the sessions agree,
\* no shell is out of reach, the session shown is the current one, and the service is up
\* while a shell runs; for a user who avoids the slips.
THEOREM SessionsAreKept ==
    ASSUME Slips = {}
    PROVE  SessionsSpec => []SessionsKept
<1>1. SessInv /\ [SessionsNext]_sessionVars => SessInv'
  <2> SUFFICES ASSUME SessInv, [SessionsNext]_sessionVars PROVE SessInv' OBVIOUS
  <2>1. CASE UNCHANGED sessionVars
    <3>1. Whole(AsItIs)' BY <2>1, WholeIs, WholeNext DEF SessInv, sessionVars
    <3> QED BY <2>1, <3>1 DEF SessInv, sessionVars, Terminals, Usable
  <2> QED BY ONLY Slips = {}, SessInv, [SessionsNext]_sessionVars, <2>1, ViewCreatedStep, NewSessionStep,
                  NewCustomSessionStep, SwitchSessionStep, CloseSessionStep, EnterWhenEndedStep,
                  DeleteSessionStep, RenamedSessionStep, MoveSessionStep, ActivityStartsStep,
                  ActivityStopsStep, ExitTappedStep, ShellEndsStep DEF SessionsNext
<1>2. SessionsInit => SessInv BY SessionsStart
<1>3. SessInv => SessionsKept BY SessionsMeant
<1> QED BY <1>1, <1>2, <1>3, PTL DEF SessionsSpec
-------------------------------------------------------------------------------
(* The sockets that stand for netlink.                                     *)

FdValues == {0, -1} \cup Sockets

\* A process has marked those of its descriptors that stand for a socket of netlink, and
\* there is one for each such socket.
MarksOf(t, q, n) ==
    /\ t \in [Fds -> FdValues]
    /\ Places(q, {fd \in Fds : t[fd] \in Sockets})
    /\ \A a, b \in Fds : t[a] \in Sockets /\ t[a] = t[b] => a = b
    /\ \A a \in Fds : t[a] \in Sockets => t[a] <= n

\* The sockets are numbers, other than 0 and that of a file.
LEMMA SocketsAre ==
  /\ Cardinality(Sockets) \in Nat /\ Sockets = 1..Cardinality(Sockets)
  /\ 0 \notin Sockets /\ -1 \notin Sockets
<1>1. Cardinality(Sockets) \in Nat BY NetlinkAssumption, FS_CardinalityType
<1>2. Sockets = 1..Cardinality(Sockets) BY NetlinkAssumption
<1> QED BY ONLY <1>1, <1>2

\* The number of a list's places.
LEMMA PlacesCount ==
  ASSUME NEW q, NEW S, Places(q, S), NEW T, IsFiniteSet(T), NEW f \in [S -> T],
         \A x, y \in S : f[x] = f[y] => x = y
  PROVE  Len(q) <= Cardinality(T)
<1>1. PICK n \in Nat : n = Len(q) BY DEF Places
<1>2. \A i \in 1..n : q[i] \in S BY <1>1 DEF Places
<1>3. \A i, j \in 1..n : q[i] = q[j] => i = j BY <1>1 DEF Places
<1>4. PICK g : g = [i \in 1..n |-> f[q[i]]] OBVIOUS
<1>5. g \in [1..n -> T] BY <1>2, <1>4
<1>6. \A i, j \in 1..n : g[i] = g[j] => i = j BY <1>2, <1>3, <1>4
<1>7. g \in Injection(1..n, T) BY ONLY <1>5, <1>6 DEF Injection, IsInjective
<1>8. Cardinality(1..n) <= Cardinality(T) BY ONLY <1>7, IsFiniteSet(T), FS_Injection
<1>9. Cardinality(1..n) = n
  <2>1. 1 \in Int /\ n \in Int /\ (IF 1 > n THEN 0 ELSE n - 1 + 1) = n OBVIOUS
  <2> QED BY ONLY <2>1, FS_Interval
<1> QED BY <1>1, <1>8, <1>9

\* There is room for the mark of another socket.
LEMMA RoomForMark ==
  ASSUME Cardinality(Fds) <= MaxFakeFds \/ Cardinality(Sockets) <= MaxFakeFds,
         NEW t, NEW q, NEW n \in Nat, MarksOf(t, q, n), n < Cardinality(Sockets),
         NEW fd \in Fds, t[fd] \notin Sockets
  PROVE  Len(q) < MaxFakeFds
<1>1. PICK S : S = {x \in Fds : t[x] \in Sockets} OBVIOUS
<1>2. Places(q, S) /\ Len(q) \in Nat BY <1>1 DEF MarksOf, Places
<1>3. CASE Cardinality(Fds) <= MaxFakeFds
  <2>1. PICK T : T = Fds \ {fd} OBVIOUS
  <2>2. IsFiniteSet(T) /\ Cardinality(T) = Cardinality(Fds) - 1
    BY <2>1, NetlinkAssumption, FS_RemoveElement
  <2>3. PICK f : f = [x \in S |-> x] OBVIOUS
  <2>4. f \in [S -> T] /\ \A x, y \in S : f[x] = f[y] => x = y BY <1>1, <2>1, <2>3
  <2>5. Len(q) <= Cardinality(T) BY ONLY <1>2, <2>2, <2>4, PlacesCount
  <2>6. Cardinality(Fds) \in Nat BY NetlinkAssumption, FS_CardinalityType
  <2> QED BY <1>2, <1>3, <2>2, <2>5, <2>6, NetlinkAssumption
<1>4. CASE Cardinality(Sockets) <= MaxFakeFds
  <2>1. IsFiniteSet(1..n) /\ Cardinality(1..n) = n
    <3>1. 1 \in Int /\ n \in Int /\ (IF 1 > n THEN 0 ELSE n - 1 + 1) = n OBVIOUS
    <3> QED BY ONLY <3>1, FS_Interval
  <2>2. PICK f : f = [x \in S |-> t[x]] OBVIOUS
  <2>3. f \in [S -> 1..n]
    <3>1. \A x \in S : t[x] \in 1..n BY <1>1, SocketsAre DEF MarksOf
    <3> QED BY <2>2, <3>1
  <2>4. \A x, y \in S : f[x] = f[y] => x = y BY <1>1, <2>2 DEF MarksOf
  <2>5. Len(q) <= Cardinality(1..n) BY ONLY <1>2, <2>1, <2>3, <2>4, PlacesCount
  <2> QED BY <1>2, <1>4, <2>1, <2>5, SocketsAre, NetlinkAssumption
<1> QED BY <1>3, <1>4

\* A descriptor that is no such socket becomes one, or something else.
LEMMA SocketMarked ==
  ASSUME NEW t, NEW q, NEW n \in Nat, MarksOf(t, q, n), n + 1 \in Sockets,
         NEW fd \in Fds, t[fd] \notin Sockets
  PROVE  MarksOf([t EXCEPT ![fd] = n + 1], Append(q, fd), n + 1)
<1>1. PICK u : u = [t EXCEPT ![fd] = n + 1] OBVIOUS
<1>2. PICK S : S = {x \in Fds : t[x] \in Sockets} OBVIOUS
<1>3. /\ t \in [Fds -> FdValues] /\ Places(q, S)
      /\ \A a, b \in Fds : t[a] \in Sockets /\ t[a] = t[b] => a = b
      /\ \A a \in Fds : t[a] \in Sockets => t[a] <= n
  BY <1>2 DEF MarksOf
<1>4. \A x \in Fds : u[x] = IF x = fd THEN n + 1 ELSE t[x] BY <1>1, <1>3
<1>5. u \in [Fds -> FdValues] BY <1>1, <1>3 DEF FdValues
<1>6. {x \in Fds : u[x] \in Sockets} = S \cup {fd} BY <1>2, <1>4
<1>7. fd \notin S BY <1>2
<1>8. Places(Append(q, fd), S \cup {fd}) BY ONLY <1>3, <1>7, PutLast
<1>9. \A a \in Fds : t[a] \in Sockets => t[a] \in Nat /\ t[a] <= n BY <1>3, SocketsAre
<1>10. \A a, b \in Fds : u[a] \in Sockets /\ u[a] = u[b] => a = b
  BY ONLY <1>3, <1>4, <1>9, n \in Nat
<1>11. \A a \in Fds : u[a] \in Sockets => u[a] <= n + 1 BY ONLY <1>4, <1>9, n \in Nat
<1> QED BY <1>1, <1>5, <1>6, <1>8, <1>10, <1>11 DEF MarksOf

\* A descriptor that is no such socket becomes free, or a file.
LEMMA OtherOpened ==
  ASSUME NEW t, NEW q, NEW n, MarksOf(t, q, n),
         NEW fd \in Fds, t[fd] \notin Sockets, NEW v \in {0, -1}
  PROVE  MarksOf([t EXCEPT ![fd] = v], q, n)
<1>1. PICK u : u = [t EXCEPT ![fd] = v] OBVIOUS
<1>2. t \in [Fds -> FdValues] BY DEF MarksOf
<1>3. \A x \in Fds : u[x] = IF x = fd THEN v ELSE t[x] BY <1>1, <1>2
<1>4. u \in [Fds -> FdValues] BY <1>1, <1>2 DEF FdValues
<1>5. v \notin Sockets BY SocketsAre
<1>6. {x \in Fds : u[x] \in Sockets} = {x \in Fds : t[x] \in Sockets} BY <1>3, <1>5
<1> QED BY <1>1, <1>3, <1>4, <1>5, <1>6 DEF MarksOf

\* A socket is opened by another process.
LEMMA SocketElsewhere ==
  ASSUME NEW t, NEW q, NEW n \in Nat, MarksOf(t, q, n)
  PROVE  MarksOf(t, q, n + 1)
<1>1. \A a \in Fds : t[a] \in Sockets => t[a] \in Nat BY SocketsAre
<1> QED BY <1>1 DEF MarksOf

\* unmark_fake_netlink_fd()
LEMMA UnmarkedPlaces ==
  ASSUME NEW S, NEW q, Places(q, S), NEW id \in S, NEW r,
         r = Front([q EXCEPT ![Min({i \in DOMAIN q : q[i] = id})] = Last(q)])
  PROVE  Places(r, S \ {id})
<1>1. /\ q \in Seq(S) /\ \A i, j \in 1..Len(q) : q[i] = q[j] => i = j
      /\ \A x \in S : \E i \in 1..Len(q) : q[i] = x
  BY DEF Places
<1>2. PICK n \in Nat : n = Len(q) BY <1>1
<1>3. DOMAIN q = 1..n /\ \A i \in 1..n : q[i] \in S BY <1>1, <1>2
<1>4. PICK k \in 1..n : q[k] = id BY <1>1, <1>2
<1>5. {i \in DOMAIN q : q[i] = id} = {k} BY <1>1, <1>2, <1>3, <1>4
<1>6. Min({k}) = k BY <1>4 DEF Min
<1>7. Last(q) = q[n] BY <1>2 DEF Last
<1>8. PICK u : u = [q EXCEPT ![k] = q[n]] OBVIOUS
<1>9. n \in 1..n BY <1>4
<1>10. u \in [1..n -> S] /\ \A i \in 1..n : u[i] = IF i = k THEN q[n] ELSE q[i]
  BY <1>3, <1>4, <1>8, <1>9
<1>11. u \in Seq(S) BY ONLY <1>10, n \in Nat, SeqDef
<1>12. Len(u) = n BY ONLY <1>10, <1>11, n \in Nat
<1>13. r = SubSeq(u, 1, n - 1) BY <1>5, <1>6, <1>7, <1>8, <1>12 DEF Front
<1>14. /\ r \in Seq(S) /\ Len(r) = n - 1 /\ \A i \in 1..(n - 1) : r[i] = u[i]
  BY ONLY <1>9, <1>11, <1>12, <1>13, n \in Nat
<1>15. \A i \in 1..(n - 1) : i \in 1..n /\ i # n BY n \in Nat
<1>16. \A i \in 1..(n - 1) : r[i] = (IF i = k THEN q[n] ELSE q[i]) BY ONLY <1>10, <1>14, <1>15
<1>17. \A i, j \in 1..n : q[i] = q[j] => i = j BY <1>1, <1>2
<1>18. ASSUME NEW i \in 1..(n - 1) PROVE r[i] \in S \ {id}
  <2>1. CASE i = k BY <2>1, <1>3, <1>4, <1>9, <1>15, <1>16, <1>17
  <2>2. CASE i # k BY <2>2, <1>3, <1>4, <1>15, <1>16, <1>17
  <2> QED BY <2>1, <2>2
<1>19. r \in Seq(S \ {id})
  <2>1. r = [i \in 1..(n - 1) |-> r[i]] BY ONLY <1>14, r \in Seq(S)
  <2>2. r \in [1..(n - 1) -> S \ {id}] BY ONLY <2>1, <1>18
  <2>3. n - 1 \in Nat BY <1>9
  <2> QED BY ONLY <2>2, <2>3, SeqDef
<1>20. \A i, j \in 1..(n - 1) : r[i] = r[j] => i = j BY ONLY <1>9, <1>15, <1>16, <1>17
<1>21. ASSUME NEW x \in S \ {id} PROVE \E i \in 1..(n - 1) : r[i] = x
  <2>1. PICK m \in 1..n : q[m] = x BY <1>1, <1>2
  <2>2. m # k BY <2>1, <1>4
  <2>3. CASE m = n
    <3>1. k \in 1..(n - 1) BY ONLY <2>2, <2>3, k \in 1..n, n \in Nat
    <3> QED BY <3>1, <1>16, <2>1, <2>3
  <2>4. CASE m # n
    <3>1. m \in 1..(n - 1) BY ONLY <2>4, m \in 1..n, n \in Nat
    <3> QED BY <3>1, <1>16, <2>1, <2>2
  <2> QED BY <2>3, <2>4
<1> QED BY ONLY <1>14, <1>19, <1>20, <1>21 DEF Places

\* A socket is closed.
LEMMA SocketClosed ==
  ASSUME NEW t, NEW q, NEW n, MarksOf(t, q, n), NEW fd \in Fds, t[fd] \in Sockets, NEW r,
         r = Front([q EXCEPT ![Min({i \in DOMAIN q : q[i] = fd})] = Last(q)])
  PROVE  MarksOf([t EXCEPT ![fd] = 0], r, n)
<1>1. PICK u : u = [t EXCEPT ![fd] = 0] OBVIOUS
<1>2. PICK S : S = {x \in Fds : t[x] \in Sockets} OBVIOUS
<1>3. t \in [Fds -> FdValues] /\ Places(q, S) BY <1>2 DEF MarksOf
<1>4. \A x \in Fds : u[x] = IF x = fd THEN 0 ELSE t[x] BY <1>1, <1>3
<1>5. u \in [Fds -> FdValues] BY <1>1, <1>3 DEF FdValues
<1>6. {x \in Fds : u[x] \in Sockets} = S \ {fd} BY <1>2, <1>4, SocketsAre
<1>7. fd \in S BY <1>2
<1>8. Places(r, S \ {fd}) BY <1>3, <1>7, UnmarkedPlaces
<1>9. \A a, b \in Fds : t[a] \in Sockets /\ t[a] = t[b] => a = b BY DEF MarksOf
<1>10. \A a \in Fds : t[a] \in Sockets => t[a] <= n BY DEF MarksOf
<1>11. \A a, b \in Fds : u[a] \in Sockets /\ u[a] = u[b] => a = b
  BY ONLY <1>4, <1>9, SocketsAre
<1>12. \A a \in Fds : u[a] \in Sockets => u[a] <= n BY ONLY <1>4, <1>10, SocketsAre
<1> QED BY ONLY <1>1, <1>5, <1>6, <1>8, <1>11, <1>12 DEF MarksOf

\* A process is owed the replies to its requests, and PRoot keeps the one to the latest or
\* none; if it is owed one only, that is kept.
Waits(requests, reply) ==
    /\ requests \in Seq(Nat)
    /\ requests = <<>> => reply = 0
    /\ requests # <<>> => Last(requests) # 0 /\ reply \in {0, Last(requests)}
    /\ Len(requests) = 1 => reply = requests[1]

Marks ==
    /\ fdTable \in [NetUsers -> [Fds -> FdValues]] /\ fakeFds \in [NetUsers -> Seq(Fds)]
    /\ inSocket \in [NetUsers -> {"no", "plain", "sub"}]
    /\ usedSockets \in Nat /\ usedSockets <= Cardinality(Sockets)
    /\ \A p \in NetUsers : MarksOf(fdTable[p], fakeFds[p], usedSockets)
Replies ==
    /\ sent \in Nat /\ pendingReply \in [NetUsers -> Nat] /\ owed \in [NetUsers -> Seq(Nat)]
    /\ \A p \in NetUsers : Waits(owed[p], pendingReply[p])
    /\ RepliesMatch
NetInv == Marks /\ Replies

\* The marks are right.
LEMMA FakesKnown == Marks => FakesAreFake
<1> SUFFICES ASSUME Marks, NEW p \in NetUsers, NEW fd \in Fds
             PROVE  IsFake(p, fd) <=> fdTable[p][fd] \in Sockets
  BY DEF FakesAreFake
<1>1. PICK q : q = fakeFds[p] OBVIOUS
<1>2. PICK S : S = {x \in Fds : fdTable[p][x] \in Sockets} OBVIOUS
<1>3. Places(q, S) BY <1>1, <1>2 DEF Marks, MarksOf
<1>4. {q[i] : i \in DOMAIN q} = S BY <1>3 DEF Places
<1> QED BY <1>1, <1>2, <1>4 DEF IsFake, Range

\* One process changes its descriptors.
LEMMA MarksStep ==
  ASSUME Marks, NEW p \in NetUsers, NEW t, NEW q, NEW m, m \in {usedSockets, usedSockets + 1},
         m <= Cardinality(Sockets), MarksOf(t, q, m),
         fdTable' = [fdTable EXCEPT ![p] = t], fakeFds' = [fakeFds EXCEPT ![p] = q],
         usedSockets' = m, inSocket' \in [NetUsers -> {"no", "plain", "sub"}]
  PROVE  Marks'
<1>1. t \in [Fds -> FdValues] BY DEF MarksOf
<1>2. q \in Seq(Fds)
  <2>1. PICK S : S = {x \in Fds : t[x] \in Sockets} OBVIOUS
  <2>2. q \in Seq(S) /\ S \subseteq Fds BY <2>1 DEF MarksOf, Places
  <2> QED BY ONLY <2>2, SeqMonotonic
<1>3. m \in Nat BY DEF Marks
<1>4. fdTable' \in [NetUsers -> [Fds -> FdValues]] /\ fakeFds' \in [NetUsers -> Seq(Fds)]
  BY <1>1, <1>2 DEF Marks
<1>5. ASSUME NEW u \in NetUsers PROVE MarksOf(fdTable'[u], fakeFds'[u], m)
  <2>1. CASE u = p BY <2>1, <1>4 DEF Marks
  <2>2. CASE u # p
    <3>1. fdTable'[u] = fdTable[u] /\ fakeFds'[u] = fakeFds[u] BY <2>2 DEF Marks
    <3>2. MarksOf(fdTable[u], fakeFds[u], usedSockets) /\ usedSockets \in Nat BY DEF Marks
    <3>3. MarksOf(fdTable[u], fakeFds[u], usedSockets + 1) BY ONLY <3>2, SocketElsewhere
    <3> QED BY <3>1, <3>2, <3>3
  <2> QED BY <2>1, <2>2
<1> QED BY <1>3, <1>4, <1>5 DEF Marks, MarksOf

\* Nobody changes the marks, or nobody is told of a reply.
LEMMA MarksStay ==
  Marks /\ UNCHANGED <<fdTable, fakeFds, usedSockets>>
    /\ inSocket' \in [NetUsers -> {"no", "plain", "sub"}] => Marks'
  BY DEF Marks, MarksOf

\* Nobody is told of a reply, and none is made.
LEMMA RepliesStay ==
  Replies /\ UNCHANGED <<sent, pendingReply, owed>> /\ got' = NothingGot => Replies'
  BY DEF Replies, RepliesMatch, NothingGot

\* What a request and a receive leave a process owed.
LEMMA WaitsSent ==
  ASSUME NEW o \in Seq(Nat), NEW n \in Nat, n # 0 PROVE Waits(Append(o, n), n)
<1>1. PICK r : r = Append(o, n) OBVIOUS
<1>2. r \in Seq(Nat) /\ Len(r) = Len(o) + 1 /\ r[Len(o) + 1] = n /\ Len(o) \in Nat BY <1>1
<1>3. Last(r) = n BY ONLY <1>2 DEF Last
<1>4. Len(r) = 1 => r[1] = n BY ONLY <1>2
<1>5. r # <<>> BY ONLY <1>2
<1> QED BY ONLY <1>1, <1>2, <1>3, <1>4, <1>5, n # 0 DEF Waits

\* A receive of another reply than the last one owed, which PRoot keeps or drops.
LEMMA WaitsPassed ==
  ASSUME NEW o, NEW x, Waits(o, x), o # <<>>, NEW y \in {0, x}
  PROVE  Waits(<<0>> \o o, y)
<1>1. PICK r : r = <<0>> \o o OBVIOUS
<1>2. o \in Seq(Nat) /\ o # <<>> /\ Last(o) # 0 /\ x \in {0, Last(o)} BY DEF Waits
<1>3. Len(o) \in Nat /\ Len(o) # 0 BY <1>2
<1>4. r \in Seq(Nat) /\ Len(r) = Len(o) + 1 /\ r[Len(o) + 1] = o[Len(o)]
  <2>1. <<0>> \in Seq(Nat) /\ Len(<<0>>) = 1 OBVIOUS
  <2>2. PICK z : z = <<0>> OBVIOUS
  <2>3. z \in Seq(Nat) /\ Len(z) = 1 /\ r = z \o o BY <1>1, <2>1, <2>2
  <2>4. r \in Seq(Nat) /\ Len(r) = Len(z) + Len(o)
    <3>1. z \in Seq(Nat) /\ o \in Seq(Nat) BY <1>2, <2>3
    <3>2. z \o o \in Seq(Nat) /\ Len(z \o o) = Len(z) + Len(o) BY ONLY <3>1, ConcatProperties
    <3> QED BY ONLY <3>2, <2>3
  <2>5. PICK m : m = Len(o) OBVIOUS
  <2>6. m \in Nat /\ m # 0 /\ Len(r) = 1 + m BY <1>3, <2>3, <2>4, <2>5
  <2>7. PICK k : k = m + 1 OBVIOUS
  <2>8. k \in 1..(Len(z) + Len(o)) /\ ~(k <= Len(z)) /\ k - Len(z) = m /\ k = Len(r)
    BY ONLY <2>3, <2>5, <2>6, <2>7
  <2>9. r[k] = o[m]
    <3>1. z \in Seq(Nat) /\ o \in Seq(Nat) BY <1>2, <2>3
    <3>2. (z \o o)[k] = IF k <= Len(z) THEN z[k] ELSE o[k - Len(z)]
      BY ONLY <2>8, <3>1, ConcatProperties
    <3>3. r[k] = o[k - Len(z)] BY ONLY <2>3, <2>8, <3>2
    <3> QED BY ONLY <2>8, <3>3
  <2>10. k = Len(o) + 1 /\ Len(r) = Len(o) + 1 BY ONLY <2>5, <2>6, <2>7
  <2> QED BY ONLY <2>4, <2>5, <2>9, <2>10
<1>5. Last(r) = Last(o) BY ONLY <1>4 DEF Last
<1>6. Len(r) # 1 /\ r # <<>> BY ONLY <1>3, <1>4
<1> QED BY ONLY <1>1, <1>2, <1>4, <1>5, <1>6, y \in {0, x} DEF Waits

\* Nobody is owed anything at first.
LEMMA WaitsNone == Waits(<<>>, 0)
<1>1. <<>> \in Seq(Nat) /\ Len(<<>>) = 0 OBVIOUS
<1> QED BY <1>1 DEF Waits

\* A socket is asked for.
LEMMA EnterSocketStep ==
  ASSUME NetInv, NEW p \in NetUsers, NEW route \in BOOLEAN, EnterSocket(p, route) PROVE NetInv'
<1>1. inSocket' \in [NetUsers -> {"no", "plain", "sub"}] BY DEF NetInv, Marks, EnterSocket
<1> QED BY <1>1, MarksStay, RepliesStay DEF NetInv, EnterSocket

\* A descriptor is opened: the least that is free.
LEMMA ExitSocketStep ==
  ASSUME Cardinality(Fds) <= MaxFakeFds \/ Cardinality(Sockets) <= MaxFakeFds,
         NetInv, NEW p \in NetUsers, ExitSocket(p)
  PROVE  NetInv'
<1>1. Marks /\ Replies BY DEF NetInv
<1>2. Replies' BY <1>1, RepliesStay DEF ExitSocket
<1>3. inSocket' \in [NetUsers -> {"no", "plain", "sub"}] BY <1>1 DEF Marks, ExitSocket
<1>4. CASE UNCHANGED <<fdTable, fakeFds, usedSockets>>
  BY <1>1, <1>2, <1>3, <1>4, MarksStay DEF NetInv
<1>5. CASE ~UNCHANGED <<fdTable, fakeFds, usedSockets>>
  <2>1. PICK fd : fd = Min(Frees(p)) OBVIOUS
  <2>2. /\ Frees(p) # {} /\ usedSockets < Cardinality(Sockets)
        /\ fdTable' = [fdTable EXCEPT ![p][fd] = IF inSocket[p] = "sub" THEN usedSockets + 1 ELSE -1]
        /\ usedSockets' = IF inSocket[p] = "sub" THEN usedSockets + 1 ELSE usedSockets
        /\ fakeFds' = [fakeFds EXCEPT ![p] = IF inSocket[p] = "sub" THEN Marked(p, fd) ELSE @]
    BY <1>5, <2>1 DEF ExitSocket
  <2>3. fd \in Fds /\ fdTable[p][fd] = 0
    <3>1. Frees(p) \subseteq Nat BY NetlinkAssumption DEF Frees
    <3>2. PICK F : F = Frees(p) OBVIOUS
    <3>3. \E x \in F : \A y \in F : x <= y BY ONLY <2>2, <3>1, <3>2, LeastElement
    <3>4. Min(F) \in F BY ONLY <3>3 DEF Min
    <3> QED BY <2>1, <3>2, <3>4 DEF Frees
  <2>4. PICK t : t = fdTable[p] OBVIOUS
  <2>5. PICK q : q = fakeFds[p] OBVIOUS
  <2>6. MarksOf(t, q, usedSockets) /\ usedSockets \in Nat /\ usedSockets <= Cardinality(Sockets)
        /\ fdTable \in [NetUsers -> [Fds -> FdValues]] /\ fakeFds \in [NetUsers -> Seq(Fds)]
    BY <1>1, <2>4, <2>5 DEF Marks
  <2>7. t[fd] \notin Sockets BY <2>3, <2>4, SocketsAre
  <2>8. CASE inSocket[p] = "sub"
    <3>1. Len(q) < MaxFakeFds BY ONLY <2>2, <2>3, <2>6, <2>7, RoomForMark,
                                      Cardinality(Fds) <= MaxFakeFds \/ Cardinality(Sockets) <= MaxFakeFds
    <3>2. ~IsFake(p, fd) BY <1>1, <2>3, <2>4, <2>7, FakesKnown DEF FakesAreFake
    <3>3. Marked(p, fd) = Append(q, fd) BY <3>1, <3>2, <2>5 DEF Marked
    <3>4. usedSockets + 1 \in Sockets
      <4>1. usedSockets + 1 \in 1..Cardinality(Sockets) BY ONLY <2>2, <2>6, SocketsAre
      <4> QED BY ONLY <4>1, SocketsAre
    <3>5. PICK u : u = [t EXCEPT ![fd] = usedSockets + 1] OBVIOUS
    <3>6. PICK r : r = Append(q, fd) OBVIOUS
    <3>7. MarksOf(u, r, usedSockets + 1) BY ONLY <2>3, <2>6, <2>7, <3>4, <3>5, <3>6, SocketMarked
    <3>8. fdTable' = [fdTable EXCEPT ![p] = u] /\ fakeFds' = [fakeFds EXCEPT ![p] = r]
          /\ usedSockets' = usedSockets + 1
      BY <2>2, <2>4, <2>8, <3>3, <3>5, <3>6
    <3>9. usedSockets + 1 <= Cardinality(Sockets) BY ONLY <2>2, <2>6, SocketsAre
    <3> QED BY <1>1, <1>2, <1>3, <3>7, <3>8, <3>9, MarksStep DEF NetInv
  <2>9. CASE inSocket[p] # "sub"
    <3>1. PICK u : u = [t EXCEPT ![fd] = -1] OBVIOUS
    <3>2. MarksOf(u, q, usedSockets) BY <2>3, <2>6, <2>7, <3>1, OtherOpened
    <3>3. fdTable' = [fdTable EXCEPT ![p] = u] /\ fakeFds' = [fakeFds EXCEPT ![p] = q]
          /\ usedSockets' = usedSockets
      BY <2>2, <2>4, <2>5, <2>9, <3>1
    <3> QED BY <1>1, <1>2, <1>3, <2>6, <3>2, <3>3, MarksStep DEF NetInv
  <2> QED BY <2>8, <2>9
<1> QED BY <1>4, <1>5

\* A descriptor is closed.
LEMMA CloseFdStep ==
  ASSUME NetInv, NEW p \in NetUsers, NEW fd \in Fds, CloseFd(p, fd) PROVE NetInv'
<1>1. Marks /\ Replies BY DEF NetInv
<1>2. Replies' BY <1>1, RepliesStay DEF CloseFd
<1>3. inSocket' \in [NetUsers -> {"no", "plain", "sub"}] BY <1>1 DEF Marks, CloseFd
<1>4. PICK t : t = fdTable[p] OBVIOUS
<1>5. PICK q : q = fakeFds[p] OBVIOUS
<1>6. MarksOf(t, q, usedSockets) /\ usedSockets \in Nat /\ usedSockets <= Cardinality(Sockets)
  BY <1>1, <1>4, <1>5 DEF Marks
<1>7. PICK u : u = [t EXCEPT ![fd] = 0] OBVIOUS
<1>8. PICK r : r = Unmarked(p, fd) OBVIOUS
<1>9. fdTable' = [fdTable EXCEPT ![p] = u] /\ fakeFds' = [fakeFds EXCEPT ![p] = r]
      /\ usedSockets' = usedSockets
  BY <1>4, <1>7, <1>8 DEF CloseFd
<1>10. IsFake(p, fd) <=> t[fd] \in Sockets BY <1>1, <1>4, FakesKnown DEF FakesAreFake
<1>11. MarksOf(u, r, usedSockets)
  <2>1. CASE t[fd] \in Sockets
    <3>1. r = Front([q EXCEPT ![Min({i \in DOMAIN q : q[i] = fd})] = Last(q)])
      BY <1>5, <1>8, <1>10, <2>1 DEF Unmarked
    <3> QED BY ONLY <1>6, <1>7, <2>1, <3>1, fd \in Fds, SocketClosed
  <2>2. CASE t[fd] \notin Sockets
    <3>1. r = q BY <1>5, <1>8, <1>10, <2>2 DEF Unmarked
    <3> QED BY ONLY <1>6, <1>7, <2>2, <3>1, fd \in Fds, OtherOpened
  <2> QED BY <2>1, <2>2
<1> QED BY <1>1, <1>2, <1>3, <1>6, <1>9, <1>11, MarksStep DEF NetInv

\* A descriptor is copied, or closed by an execve, unseen by PRoot.
LEMMA UnwatchedStep ==
  ASSUME Loose = {}, NetInv, NEW p \in NetUsers, NEW fd \in Fds, NEW to \in Fds, Unwatched(p, fd, to)
  PROVE  NetInv'
<1>1. Marks /\ Replies BY DEF NetInv
<1>2. Replies' BY <1>1, RepliesStay DEF Unwatched
<1>3. inSocket' \in [NetUsers -> {"no", "plain", "sub"}] BY <1>1 DEF Marks, Unwatched
<1>4. PICK t : t = fdTable[p] OBVIOUS
<1>5. PICK q : q = fakeFds[p] OBVIOUS
<1>6. MarksOf(t, q, usedSockets) /\ usedSockets \in Nat /\ usedSockets <= Cardinality(Sockets)
      /\ fakeFds \in [NetUsers -> Seq(Fds)]
  BY <1>1, <1>4, <1>5 DEF Marks
<1>7. \E x \in Fds, v \in {0, -1} : /\ t[x] \notin Sockets
                                    /\ fdTable' = [fdTable EXCEPT ![p] = [t EXCEPT ![x] = v]]
  <2>1. \A x \in Fds : t[x] \notin Sockets => t[x] \in {0, -1} BY <1>6 DEF MarksOf, FdValues
  <2>2. CASE /\ {t[fd], t[to]} \cap Sockets = {}
             /\ fdTable' = [fdTable EXCEPT ![p][to] = t[fd]]
    <3>1. t[fd] \in {0, -1} /\ t[to] \notin Sockets BY <2>1, <2>2
    <3>2. fdTable' = [fdTable EXCEPT ![p] = [t EXCEPT ![to] = t[fd]]] BY <2>2, <1>4
    <3> QED BY <3>1, <3>2
  <2>3. CASE t[fd] \notin Sockets /\ fdTable' = [fdTable EXCEPT ![p][fd] = 0]
    <3>1. fdTable' = [fdTable EXCEPT ![p] = [t EXCEPT ![fd] = 0]] BY <2>3, <1>4
    <3> QED BY <2>3, <3>1
  <2> QED BY <2>2, <2>3, <1>4 DEF Unwatched
<1>8. PICK x \in Fds, v \in {0, -1} : /\ t[x] \notin Sockets
                                      /\ fdTable' = [fdTable EXCEPT ![p] = [t EXCEPT ![x] = v]]
  BY <1>7
<1>9. PICK u : u = [t EXCEPT ![x] = v] OBVIOUS
<1>10. MarksOf(u, q, usedSockets) BY ONLY <1>6, <1>8, <1>9, x \in Fds, v \in {0, -1}, OtherOpened
<1>11. fdTable' = [fdTable EXCEPT ![p] = u] /\ fakeFds' = [fakeFds EXCEPT ![p] = q]
       /\ usedSockets' = usedSockets
  BY <1>5, <1>6, <1>8, <1>9 DEF Unwatched
<1> QED BY <1>1, <1>2, <1>3, <1>6, <1>10, <1>11, MarksStep DEF NetInv

\* A process is created.
LEMMA ForkFdsStep ==
  ASSUME Loose = {}, NetInv, NEW p \in NetUsers, NEW c \in NetUsers, ForkFds(p, c) PROVE NetInv'
<1>1. Marks /\ Replies BY DEF NetInv
<1>2. Replies' BY <1>1, RepliesStay DEF ForkFds
<1>3. inSocket' \in [NetUsers -> {"no", "plain", "sub"}] BY <1>1 DEF Marks, ForkFds
<1>4. PICK t : t = fdTable[p] OBVIOUS
<1>5. PICK q : q = fakeFds[c] OBVIOUS
<1>6. /\ MarksOf(t, fakeFds[p], usedSockets) /\ MarksOf(fdTable[c], q, usedSockets)
      /\ usedSockets <= Cardinality(Sockets) /\ fakeFds \in [NetUsers -> Seq(Fds)]
  BY <1>1, <1>4, <1>5 DEF Marks
<1>7. \A fd \in Fds : t[fd] \notin Sockets /\ fdTable[c][fd] \notin Sockets
  BY <1>4, SocketsAre DEF ForkFds, Born
<1>8. {fd \in Fds : t[fd] \in Sockets} = {fd \in Fds : fdTable[c][fd] \in Sockets} BY <1>7
<1>9. MarksOf(t, q, usedSockets) BY <1>6, <1>7, <1>8 DEF MarksOf
<1>10. fdTable' = [fdTable EXCEPT ![c] = t] /\ fakeFds' = [fakeFds EXCEPT ![c] = q]
       /\ usedSockets' = usedSockets
  BY <1>4, <1>5, <1>6 DEF ForkFds
<1> QED BY <1>1, <1>2, <1>3, <1>6, <1>9, <1>10, MarksStep DEF NetInv

\* A request is sent.
LEMMA SendRequestStep ==
  ASSUME NetInv, NEW p \in NetUsers, NEW fd \in Fds, SendRequest(p, fd) PROVE NetInv'
<1>1. Marks /\ Replies BY DEF NetInv
<1>2. Marks'
  <2>1. UNCHANGED <<fdTable, fakeFds, usedSockets, inSocket>> BY DEF SendRequest
  <2> QED BY <1>1, <2>1, MarksStay DEF Marks
<1>3. PICK s : s = fdTable[p][fd] OBVIOUS
<1>4. IsFake(p, fd) <=> s \in Sockets BY <1>1, <1>3, FakesKnown DEF FakesAreFake
<1>5. /\ sent' = sent + 1 /\ got' = NothingGot
      /\ pendingReply' = [pendingReply EXCEPT ![p] = IF s \in Sockets THEN sent + 1 ELSE @]
      /\ owed' = [owed EXCEPT ![p] = IF s \in Sockets THEN Append(@, sent + 1) ELSE @]
  BY <1>3, <1>4 DEF SendRequest
<1>6. /\ sent \in Nat /\ pendingReply \in [NetUsers -> Nat] /\ owed \in [NetUsers -> Seq(Nat)]
      /\ \A u \in NetUsers : Waits(owed[u], pendingReply[u])
  BY <1>1 DEF Replies
<1>7. PICK n \in Nat : n = sent + 1 /\ n # 0 BY <1>6
<1>8. /\ pendingReply' \in [NetUsers -> Nat] /\ owed' \in [NetUsers -> Seq(Nat)]
  <2>1. Append(owed[p], n) \in Seq(Nat) BY <1>6, <1>7
  <2> QED BY <1>5, <1>6, <1>7, <2>1
<1>9. ASSUME NEW u \in NetUsers PROVE Waits(owed'[u], pendingReply'[u])
  <2>1. CASE u = p /\ s \in Sockets
    <3>1. owed'[u] = Append(owed[p], n) /\ pendingReply'[u] = n BY <2>1, <1>5, <1>6, <1>7
    <3>2. owed[p] \in Seq(Nat) BY <1>6
    <3>3. Waits(Append(owed[p], n), n) BY <1>7, <3>2, WaitsSent
    <3> QED BY ONLY <3>1, <3>3
  <2>2. CASE u # p \/ s \notin Sockets
    <3>1. owed'[u] = owed[u] /\ pendingReply'[u] = pendingReply[u] BY <2>2, <1>5, <1>6
    <3> QED BY ONLY <3>1, <1>6
  <2> QED BY <2>1, <2>2
<1>10. RepliesMatch' BY <1>5 DEF RepliesMatch, NothingGot
<1> QED BY <1>2, <1>5, <1>6, <1>8, <1>9, <1>10 DEF NetInv, Replies

\* A reply is asked for.
LEMMA RecvReplyStep ==
  ASSUME NetInv, NEW p \in NetUsers, NEW fd \in Fds, NEW peek \in BOOLEAN, RecvReply(p, fd, peek)
  PROVE  NetInv'
<1>1. Marks /\ Replies BY DEF NetInv
<1>2. Marks'
  <2>1. UNCHANGED <<fdTable, fakeFds, usedSockets, inSocket>> BY DEF RecvReply
  <2> QED BY <1>1, <2>1, MarksStay DEF Marks
<1>3. PICK s : s = fdTable[p][fd] OBVIOUS
<1>4. PICK due : due = (IF s \in Sockets /\ queueOf[s] # <<>> THEN Head(queueOf[s]) ELSE 0) OBVIOUS
<1>5. PICK o : o = owed[p] OBVIOUS
<1>6. PICK x : x = pendingReply[p] OBVIOUS
<1>7. IsFake(p, fd) <=> s \in Sockets BY <1>1, <1>3, FakesKnown DEF FakesAreFake
<1>8. /\ sent \in Nat /\ pendingReply \in [NetUsers -> Nat] /\ owed \in [NetUsers -> Seq(Nat)]
      /\ \A u \in NetUsers : Waits(owed[u], pendingReply[u])
  BY <1>1 DEF Replies
<1>9. PICK y : y = IF s \in Sockets /\ ~peek THEN 0 ELSE x OBVIOUS
<1>10. PICK left : left = IF peek \/ o = <<>> THEN o ELSE IF Last(o) = due THEN <<>> ELSE <<0>> \o o OBVIOUS
<1>11. /\ sent' = sent /\ pendingReply' = [pendingReply EXCEPT ![p] = y]
       /\ owed' = [owed EXCEPT ![p] = left]
       /\ got' = [found |-> IF s \in Sockets THEN x ELSE 0, due |-> due,
                  mine |-> o = (IF due = 0 THEN <<>> ELSE <<due>>),
                  latest |-> IF o = <<>> THEN 0 ELSE Last(o)]
  BY <1>3, <1>4, <1>5, <1>6, <1>7, <1>8, <1>9, <1>10 DEF RecvReply, LeftAfter
<1>12. Waits(o, x) /\ x \in Nat /\ o \in Seq(Nat) BY <1>5, <1>6, <1>8
<1>13. Waits(left, y)
  <2>1. CASE peek BY <2>1, <1>9, <1>10, <1>12
  <2>2. CASE ~peek /\ o = <<>>
    <3>1. x = 0 BY <1>12, <2>2 DEF Waits
    <3>2. y = 0 /\ left = <<>> BY <1>9, <1>10, <2>2, <3>1
    <3> QED BY <3>2, WaitsNone
  <2>3. CASE ~peek /\ o # <<>> /\ Last(o) = due
    <3>1. due # 0 BY <1>12, <2>3 DEF Waits
    <3>2. y = 0 /\ left = <<>> BY <1>4, <1>9, <1>10, <2>3, <3>1
    <3> QED BY <3>2, WaitsNone
  <2>4. CASE ~peek /\ o # <<>> /\ Last(o) # due
    <3>1. left = <<0>> \o o /\ y \in {0, x} BY <1>9, <1>10, <2>4
    <3> QED BY ONLY <3>1, <2>4, <1>12, WaitsPassed
  <2> QED BY <2>1, <2>2, <2>3, <2>4
<1>14. left \in Seq(Nat) /\ y \in Nat BY <1>9, <1>12, <1>13 DEF Waits
<1>15. pendingReply' \in [NetUsers -> Nat] /\ owed' \in [NetUsers -> Seq(Nat)]
  BY ONLY <1>8, <1>11, <1>14, p \in NetUsers
<1>16. ASSUME NEW u \in NetUsers PROVE Waits(owed'[u], pendingReply'[u])
  <2>1. CASE u = p BY <2>1, <1>8, <1>11, <1>13
  <2>2. CASE u # p
    <3>1. owed'[u] = owed[u] /\ pendingReply'[u] = pendingReply[u] BY <2>2, <1>8, <1>11
    <3> QED BY ONLY <3>1, <1>8
  <2> QED BY <2>1, <2>2
<1>17. RepliesMatch'
  <2>1. ASSUME got'.mine PROVE got'.found = got'.due
    <3>1. o = (IF due = 0 THEN <<>> ELSE <<due>>) BY <2>1, <1>11
    <3>2. CASE due = 0
      <4>1. x = 0 BY <3>1, <3>2, <1>12 DEF Waits
      <4> QED BY <3>2, <4>1, <1>11
    <3>3. CASE due # 0
      <4>1. o = <<due>> /\ s \in Sockets BY <3>1, <3>3, <1>4
      <4>2. Len(o) = 1 /\ o[1] = due BY <4>1
      <4>3. x = due BY <4>2, <1>12 DEF Waits
      <4> QED BY <4>1, <4>3, <1>11
    <3> QED BY <3>2, <3>3
  <2>2. got'.found \in {0, got'.latest}
    <3>1. CASE o = <<>> BY <3>1, <1>11, <1>12 DEF Waits
    <3>2. CASE o # <<>> BY <3>2, <1>11, <1>12 DEF Waits
    <3> QED BY <3>1, <3>2
  <2> QED BY <2>1, <2>2 DEF RepliesMatch
<1> QED BY <1>2, <1>8, <1>11, <1>15, <1>16, <1>17 DEF NetInv, Replies

\* No descriptor is open at first.
LEMMA NetStart == NetInit => NetInv
<1> SUFFICES ASSUME NetInit PROVE NetInv OBVIOUS
<1>1. /\ fdTable = [p \in NetUsers |-> [fd \in Fds |-> IF p = NetRoot /\ fd = Min(Fds) THEN -1 ELSE 0]]
      /\ fakeFds = [p \in NetUsers |-> <<>>] /\ inSocket = [p \in NetUsers |-> "no"]
      /\ pendingReply = [p \in NetUsers |-> 0]
      /\ owed = [p \in NetUsers |-> <<>>] /\ usedSockets = 0 /\ sent = 0 /\ got = NothingGot
  BY DEF NetInit
<1>2. PICK e : e = <<>> OBVIOUS
<1>3. e \in Seq(Fds) /\ e \in Seq({}) /\ e \in Seq(Nat) /\ Len(e) = 0 BY <1>2
<1>4. \A p \in NetUsers : MarksOf(fdTable[p], fakeFds[p], usedSockets)
  <2> SUFFICES ASSUME NEW p \in NetUsers PROVE MarksOf(fdTable[p], fakeFds[p], usedSockets) OBVIOUS
  <2>1. PICK t : t = fdTable[p] OBVIOUS
  <2>2. t = [fd \in Fds |-> IF p = NetRoot /\ fd = Min(Fds) THEN -1 ELSE 0] BY <1>1, <2>1
  <2>3. t \in [Fds -> FdValues] /\ \A fd \in Fds : t[fd] \notin Sockets
    BY ONLY <2>2, SocketsAre DEF FdValues
  <2>4. {fd \in Fds : t[fd] \in Sockets} = {} BY <2>3
  <2>5. Places(e, {}) BY <1>3 DEF Places
  <2>6. fakeFds[p] = e BY <1>1, <1>2
  <2> QED BY ONLY <2>1, <2>3, <2>4, <2>5, <2>6 DEF MarksOf
<1>5. Marks
  <2>1. fdTable \in [NetUsers -> [Fds -> FdValues]]
    <3>1. \A p \in NetUsers : fdTable[p] \in [Fds -> FdValues] BY <1>4 DEF MarksOf
    <3> QED BY ONLY <1>1, <3>1
  <2>2. fakeFds \in [NetUsers -> Seq(Fds)] BY <1>1, <1>2, <1>3
  <2>3. inSocket \in [NetUsers -> {"no", "plain", "sub"}] BY <1>1
  <2> QED BY <1>1, <1>4, <2>1, <2>2, <2>3, SocketsAre DEF Marks
<1>6. Replies
  <2>1. owed \in [NetUsers -> Seq(Nat)] BY <1>1, <1>2, <1>3
  <2>2. \A p \in NetUsers : Waits(owed[p], pendingReply[p]) BY <1>1, WaitsNone
  <2> QED BY <1>1, <2>1, <2>2 DEF Replies, RepliesMatch, NothingGot
<1> QED BY <1>5, <1>6 DEF NetInv

\* Whatever the order of calls, forks and closes, PRoot answers on its own sockets only, and
\* finds the reply to the latest request; as long as descriptors of such sockets are not
\* copied or closed behind its back, and there is a mark for each.
THEOREM NetlinkAlwaysActs ==
    ASSUME Loose = {}, Cardinality(Fds) <= MaxFakeFds \/ Cardinality(Sockets) <= MaxFakeFds
    PROVE  NetSpec => []NetlinkActs
<1>1. NetInv /\ [NetNext]_netVars => NetInv'
  <2> SUFFICES ASSUME NetInv, [NetNext]_netVars PROVE NetInv' OBVIOUS
  <2>1. CASE UNCHANGED netVars
    BY <2>1 DEF NetInv, Marks, MarksOf, Replies, Waits, RepliesMatch, netVars
  <2>2. CASE NetNext
    <3>1. PICK p \in NetUsers :
            \/ ExitSocket(p)
            \/ \E route \in BOOLEAN : EnterSocket(p, route)
            \/ \E c \in NetUsers : ForkFds(p, c)
            \/ \E fd \in Fds : CloseFd(p, fd)
            \/ \E fd \in Fds : SendRequest(p, fd)
            \/ \E fd \in Fds, to \in Fds : Unwatched(p, fd, to)
            \/ \E fd \in Fds, peek \in BOOLEAN : RecvReply(p, fd, peek)
      BY <2>2 DEF NetNext
    <3>2. CASE ExitSocket(p) BY <3>2, ExitSocketStep
    <3>3. CASE \E route \in BOOLEAN : EnterSocket(p, route) BY <3>3, EnterSocketStep
    <3>4. CASE \E c \in NetUsers : ForkFds(p, c) BY <3>4, ForkFdsStep
    <3>5. CASE \E fd \in Fds : CloseFd(p, fd) BY <3>5, CloseFdStep
    <3>6. CASE \E fd \in Fds : SendRequest(p, fd) BY <3>6, SendRequestStep
    <3>7. CASE \E fd \in Fds, to \in Fds : Unwatched(p, fd, to) BY <3>7, UnwatchedStep
    <3>8. CASE \E fd \in Fds, peek \in BOOLEAN : RecvReply(p, fd, peek) BY <3>8, RecvReplyStep
    <3> QED BY ONLY <3>1, <3>2, <3>3, <3>4, <3>5, <3>6, <3>7, <3>8
  <2> QED BY <2>1, <2>2
<1>2. NetInit => NetInv BY NetStart
<1>3. NetInv => NetlinkActs BY FakesKnown DEF NetInv, Replies, NetlinkActs
<1> QED BY <1>1, <1>2, <1>3, PTL DEF NetSpec
-------------------------------------------------------------------------------
(* The fake root identity.                                                 *)

Values == Ids \cup {Unset, 0}
Quads == [r : Values, e : Values, s : Values, fs : Values]
Creds == [alive : {TRUE}, uid : Quads, gid : Quads, caps : BOOLEAN, keep : BOOLEAN]
Kinds == {"uid", "gid"}

\* Who has lost its power has no more than it had then.
Fallen(c, before) == Powerless(c) /\ Held(c) \subseteq before
RootInv ==
    /\ DOMAIN cred = Users /\ DOMAIN dropped = Users
    /\ \A u \in Users : cred[u] \in Creds \cup {NoCred}
    /\ \A u \in Users : dropped[u] # {} => cred[u] \in Creds /\ Fallen(cred[u], dropped[u])

\* A call of the ids gives ids that are ids, and to a tracee without power only its own.
OwnIds(c, d) ==
    /\ d \in Creds
    /\ Powerless(c) => ~d.caps /\ Real(d, "uid") \subseteq Real(c, "uid")
                               /\ Real(d, "gid") \subseteq Real(c, "gid")

\* What gives a tracee without power only its own ids leaves it without.
LEMMA StaysFallen ==
  ASSUME NEW c, NEW d, NEW before, Fallen(c, before), OwnIds(c, d) PROVE Fallen(d, before)
<1>1. /\ ~HasRoot(d) /\ ~d.caps
      /\ Real(d, "uid") \subseteq Real(c, "uid") /\ Real(d, "gid") \subseteq Real(c, "gid")
  BY DEF Fallen, OwnIds, Powerless, HasRoot
<1>2. Held(d) \subseteq Held(c) BY <1>1 DEF Held
<1> QED BY <1>1, <1>2 DEF Fallen, Powerless

\* An id that is refused changes nothing, one that is allowed is among those the tracee has.
LEMMA EmulatedOwn ==
  ASSUME NEW c \in Creds, NEW kind \in Kinds, NEW new \in Quads, NEW allowed \in BOOLEAN,
         Powerless(c) /\ allowed => {new.r, new.e, new.s} \subseteq Real(c, kind)
  PROVE  OwnIds(c, Emulated(c, allowed, kind, new))
<1>1. PICK m : m = [c EXCEPT ![kind] = new] OBVIOUS
<1>2. m \in Creds /\ m.caps = c.caps /\ m[kind] = new
      /\ (kind = "uid" => m.gid = c.gid) /\ (kind = "gid" => m.uid = c.uid)
  <2>1. CASE kind = "uid" BY <1>1, <2>1 DEF Creds
  <2>2. CASE kind = "gid" BY <1>1, <2>2 DEF Creds
  <2> QED BY <2>1, <2>2 DEF Kinds
<1>3. PICK b \in BOOLEAN : b = (m.caps /\ ~(HasRoot(c) /\ ~m.keep /\ ~HasRoot(m))) OBVIOUS
<1>4. PICK d : d = [m EXCEPT !.caps = b] OBVIOUS
<1>5. d \in Creds /\ d.uid = m.uid /\ d.gid = m.gid /\ d.caps = b BY <1>2, <1>4 DEF Creds
<1>6. MaybeDropCaps(c, m) = d BY <1>3, <1>4 DEF MaybeDropCaps
<1>7. CASE allowed
  <2>1. Emulated(c, allowed, kind, new) = d BY <1>1, <1>6, <1>7 DEF Emulated
  <2>2. ASSUME Powerless(c)
        PROVE  ~d.caps /\ Real(d, "uid") \subseteq Real(c, "uid") /\ Real(d, "gid") \subseteq Real(c, "gid")
    <3>1. ~d.caps BY <1>2, <1>3, <1>5, <2>2 DEF Powerless
    <3>2. CASE kind = "uid" BY <1>2, <1>5, <1>7, <2>2, <3>1, <3>2 DEF Real
    <3>3. CASE kind = "gid" BY <1>2, <1>5, <1>7, <2>2, <3>1, <3>3 DEF Real
    <3> QED BY <3>2, <3>3 DEF Kinds
  <2> QED BY <1>5, <2>1, <2>2 DEF OwnIds
<1>8. CASE ~allowed
  <2>1. Emulated(c, allowed, kind, new) = c BY <1>8 DEF Emulated
  <2> QED BY <2>1 DEF OwnIds, Powerless
<1> QED BY <1>7, <1>8

\* The quadruple of a kind, and that nobody without power is privileged.
LEMMA Quad ==
  ASSUME NEW c \in Creds, NEW kind \in Kinds
  PROVE  /\ c[kind] \in Quads /\ Real(c, kind) = {c[kind].r, c[kind].e, c[kind].s}
         /\ Powerless(c) => ~Privileged(c)
<1>1. c[kind] \in Quads BY DEF Creds, Kinds
<1> QED BY <1>1 DEF Real, Powerless, HasRoot, Privileged

\* setuid() and setgid().
LEMMA SetXidOwn ==
  ASSUME NEW c \in Creds, NEW kind \in Kinds, NEW id \in Ids PROVE OwnIds(c, SetXid(c, kind, id))
<1>1. PICK x : x = c[kind] OBVIOUS
<1>2. x \in Quads /\ Real(c, kind) = {x.r, x.e, x.s} /\ (Powerless(c) => ~Privileged(c))
  BY <1>1, Quad
<1>3. PICK allowed \in BOOLEAN : allowed = (Privileged(c) \/ id \in Real(c, kind)) OBVIOUS
<1>4. PICK new : new = IF Privileged(c) THEN Same(id) ELSE [x EXCEPT !.e = id, !.fs = id] OBVIOUS
<1>5. new \in Quads /\ (~Privileged(c) => new.r = x.r /\ new.e = id /\ new.s = x.s)
  BY <1>2, <1>4 DEF Quads, Values, Same
<1>6. SetXid(c, kind, id) = Emulated(c, allowed, kind, new) BY <1>1, <1>3, <1>4 DEF SetXid
<1>7. Powerless(c) /\ allowed => {new.r, new.e, new.s} \subseteq Real(c, kind)
  BY <1>2, <1>3, <1>5
<1> QED BY <1>5, <1>6, <1>7, EmulatedOwn

\* setreuid() and setregid().
LEMMA SetreXidOwn ==
  ASSUME NEW c \in Creds, NEW kind \in Kinds, NEW r \in Optional, NEW e \in Optional
  PROVE  OwnIds(c, SetreXid(c, kind, r, e))
<1>1. PICK x : x = c[kind] OBVIOUS
<1>2. x \in Quads /\ Real(c, kind) = {x.r, x.e, x.s} /\ (Powerless(c) => ~Privileged(c))
  BY <1>1, Quad
<1> DEFINE sameR == r \in {Unset, x.r}
           sameE == e \in {Unset, x.e}
<1>3. PICK allowed \in BOOLEAN :
        allowed = (\/ Privileged(c)
                   \/ sameE /\ sameR
                   \/ r = x.e /\ (e = x.r \/ sameE)
                   \/ e = x.r /\ (r = x.e \/ sameR)
                   \/ e = x.s /\ sameR)
  OBVIOUS
<1>4. PICK new : new = [r  |-> IF r = Unset THEN x.r ELSE r,
                        e  |-> IF e = Unset THEN x.e ELSE e,
                        s  |-> IF e # Unset /\ (r # Unset \/ e # x.r) THEN e ELSE x.s,
                        fs |-> IF e = Unset THEN x.fs ELSE e]
  OBVIOUS
<1>5. new \in Quads BY <1>2, <1>4 DEF Quads, Values, Optional
<1>6. SetreXid(c, kind, r, e) = Emulated(c, allowed, kind, new) BY <1>1, <1>3, <1>4 DEF SetreXid
<1>7. Powerless(c) /\ allowed => {new.r, new.e, new.s} \subseteq Real(c, kind)
  BY <1>2, <1>3, <1>4
<1> QED BY <1>5, <1>6, <1>7, EmulatedOwn

\* setresuid() and setresgid().
LEMMA SetresXidOwn ==
  ASSUME NEW c \in Creds, NEW kind \in Kinds, NEW r \in Optional, NEW e \in Optional, NEW s \in Optional
  PROVE  OwnIds(c, SetresXid(c, kind, r, e, s))
<1>1. PICK x : x = c[kind] OBVIOUS
<1>2. x \in Quads /\ Real(c, kind) = {x.r, x.e, x.s} /\ (Powerless(c) => ~Privileged(c))
  BY <1>1, Quad
<1>3. PICK allowed \in BOOLEAN :
        allowed = (Privileged(c) \/ {r, e, s} \subseteq Real(c, kind) \cup {Unset})
  OBVIOUS
<1> DEFINE Or(id, old) == IF id = Unset THEN old ELSE id
<1>4. PICK new : new = [r |-> Or(r, x.r), e |-> Or(e, x.e), s |-> Or(s, x.s), fs |-> Or(e, x.fs)]
  OBVIOUS
<1>5. new \in Quads BY <1>2, <1>4 DEF Quads, Values, Optional
<1>6. SetresXid(c, kind, r, e, s) = Emulated(c, allowed, kind, new) BY <1>1, <1>3, <1>4 DEF SetresXid
<1>7. Powerless(c) /\ allowed => {new.r, new.e, new.s} \subseteq Real(c, kind)
  BY <1>2, <1>3, <1>4
<1> QED BY <1>5, <1>6, <1>7, EmulatedOwn

\* setfsuid() and setfsgid().
LEMMA SetfsXidOwn ==
  ASSUME NEW c \in Creds, NEW kind \in Kinds, NEW id \in Ids PROVE OwnIds(c, SetfsXid(c, kind, id))
<1>1. PICK d : d = [c EXCEPT ![kind].fs = id] OBVIOUS
<1>2. d \in Creds /\ d.caps = c.caps /\ Real(d, "uid") = Real(c, "uid") /\ Real(d, "gid") = Real(c, "gid")
  <2>1. CASE kind = "uid" BY <1>1, <2>1 DEF Creds, Quads, Values, Real
  <2>2. CASE kind = "gid" BY <1>1, <2>2 DEF Creds, Quads, Values, Real
  <2> QED BY <2>1, <2>2 DEF Kinds
<1>3. SetfsXid(c, kind, id) \in {c, d} BY <1>1 DEF SetfsXid
<1> QED BY <1>2, <1>3 DEF OwnIds, Powerless

\* A tracee changes its ids.
LEMMA SetIdsStep == ASSUME RootInv, NEW u \in Users, SetIds(u) PROVE RootInv'
<1>1. PICK c : c = cred[u] OBVIOUS
<1>2. c \in Creds BY <1>1 DEF RootInv, SetIds, Idle, Lives, NoCred
<1>3. PICK d : OwnIds(c, d) /\ TakesIds(u, d)
  <2>1. PICK kind \in Kinds :
          \/ \E id \in Ids : TakesIds(u, SetXid(c, kind, id)) \/ TakesIds(u, SetfsXid(c, kind, id))
          \/ \E r, e \in Optional :
               \/ TakesIds(u, SetreXid(c, kind, r, e))
               \/ \E s \in Optional : TakesIds(u, SetresXid(c, kind, r, e, s))
    BY <1>1 DEF SetIds, Kinds
  <2> QED BY ONLY <1>2, <2>1, SetXidOwn, SetfsXidOwn, SetreXidOwn, SetresXidOwn
<1>4. d \in Creds BY <1>3 DEF OwnIds
<1>5. dropped[u] # {} => Fallen(d, dropped[u]) BY <1>1, <1>3, StaysFallen DEF RootInv
<1>6. Noted(dropped[u], d) # {} => Fallen(d, Noted(dropped[u], d)) BY <1>5 DEF Noted, Fallen
<1>7. cred' = [cred EXCEPT ![u] = d] /\ dropped' = [dropped EXCEPT ![u] = Noted(@, d)]
  BY <1>3 DEF TakesIds, Identity
<1> QED BY <1>4, <1>6, <1>7 DEF RootInv

\* A tracee asks to keep its power.
LEMMA KeepCapsStep == ASSUME RootInv, NEW u \in Users, KeepCaps(u) PROVE RootInv'
<1>1. PICK c : c = cred[u] OBVIOUS
<1>2. c \in Creds BY <1>1 DEF RootInv, KeepCaps, Idle, Lives, NoCred
<1>3. PICK keep \in BOOLEAN : cred' = [cred EXCEPT ![u] = [c EXCEPT !.keep = keep]]
  BY <1>1 DEF KeepCaps, Identity
<1>4. PICK d : d = [c EXCEPT !.keep = keep] OBVIOUS
<1>5. OwnIds(c, d) BY <1>2, <1>4 DEF OwnIds, Creds, Real, Powerless
<1>6. dropped[u] # {} => Fallen(d, dropped[u]) BY <1>1, <1>5, StaysFallen DEF RootInv
<1>7. dropped' = dropped BY DEF KeepCaps
<1> QED BY <1>3, <1>4, <1>5, <1>6, <1>7 DEF RootInv, OwnIds

\* A tracee runs a program, which may be a set-user-ID or a set-group-ID program.
LEMMA ExecveStep == ASSUME RootInv, NEW u \in Users, Execve(u) PROVE RootInv'
<1>1. PICK c : c = cred[u] OBVIOUS
<1>2. c \in Creds BY <1>1 DEF RootInv, Execve, Idle, Lives, NoCred
<1>3. PICK setuid \in BOOLEAN, setgid \in BOOLEAN :
        /\ cred' = [cred EXCEPT ![u] = Execed(c, setuid, setgid)]
        /\ dropped' = [dropped EXCEPT ![u] = IF setuid THEN {}
                                             ELSE IF @ # {} /\ setgid THEN @ \cup {<<"gid", 0>>} ELSE @]
  BY <1>1 DEF Execve, Identity
<1>4. PICK d : d = Execed(c, setuid, setgid) OBVIOUS
<1>5. /\ d \in Creds
      /\ ~setuid => d.uid = c.uid /\ d.caps = c.caps
      /\ ~setgid => d.gid = c.gid
      /\ setgid => d.gid.e = 0 /\ d.gid.s = 0 /\ d.gid.r = c.gid.r
  <2>1. PICK uid : uid = IF setuid THEN [c.uid EXCEPT !.e = 0, !.s = 0] ELSE c.uid OBVIOUS
  <2>2. PICK gid : gid = IF setgid THEN [c.gid EXCEPT !.e = 0, !.s = 0] ELSE c.gid OBVIOUS
  <2>3. PICK caps \in BOOLEAN : caps = (c.caps \/ setuid) OBVIOUS
  <2>4. d = [c EXCEPT !.keep = FALSE, !.caps = caps, !.uid = uid, !.gid = gid]
    BY <1>4, <2>1, <2>2, <2>3 DEF Execed
  <2>5. c.uid \in Quads /\ c.gid \in Quads /\ c.caps \in BOOLEAN BY <1>2 DEF Creds
  <2>6. uid \in Quads BY ONLY <2>1, <2>5 DEF Quads, Values
  <2>7. gid \in Quads /\ (setgid => gid.e = 0 /\ gid.s = 0 /\ gid.r = c.gid.r)
    BY ONLY <2>2, <2>5 DEF Quads, Values
  <2>8. d \in Creds /\ d.uid = uid /\ d.gid = gid /\ d.caps = caps
    BY ONLY <1>2, <2>4, <2>6, <2>7, caps \in BOOLEAN DEF Creds
  <2>9. ~setuid => caps = c.caps BY <2>3, <2>5
  <2> QED BY ONLY <2>1, <2>2, <2>7, <2>8, <2>9
<1>6. PICK before : before = IF setuid THEN {} ELSE IF dropped[u] # {} /\ setgid
                                                    THEN dropped[u] \cup {<<"gid", 0>>} ELSE dropped[u]
  OBVIOUS
<1>7. dropped' = [dropped EXCEPT ![u] = before] /\ cred' = [cred EXCEPT ![u] = d]
  BY <1>3, <1>4, <1>6
<1>8. ASSUME before # {} PROVE Fallen(d, before)
  <2>1. ~setuid /\ dropped[u] # {} BY <1>6, <1>8
  <2>2. Powerless(c) /\ Held(c) \subseteq dropped[u] BY <1>1, <2>1 DEF RootInv, Fallen
  <2>3. Powerless(d) /\ Real(d, "uid") = Real(c, "uid")
    BY <1>5, <2>1, <2>2 DEF Powerless, HasRoot, Real
  <2>4. Real(d, "gid") \subseteq Real(c, "gid") \cup (IF setgid THEN {0} ELSE {})
    BY <1>5 DEF Real
  <2>5. Held(d) \subseteq Held(c) \cup (IF setgid THEN {<<"gid", 0>>} ELSE {})
    BY <2>3, <2>4 DEF Held
  <2> QED BY <1>6, <2>1, <2>2, <2>3, <2>5 DEF Fallen
<1> QED BY <1>5, <1>7, <1>8 DEF RootInv

\* A tracee is created.
LEMMA ForkStep ==
  ASSUME RootInv, NEW u \in Users, NEW child \in Users, Fork(u, child) PROVE RootInv'
  BY DEF RootInv, Fork, Inherited

\* A tracee ends.
LEMMA DieStep == ASSUME RootInv, NEW u \in Users, Die(u) PROVE RootInv'
  BY DEF RootInv, Die

\* The first tracee has its power, or has had none from the beginning.
LEMMA RootStart == FakeInit => RootInv
<1> SUFFICES ASSUME FakeInit PROVE RootInv OBVIOUS
<1>1. PICK first : first = CHOOSE u \in Users : TRUE OBVIOUS
<1>5. PICK uid \in Ids, gid \in Ids :
        /\ cred = [u \in Users |-> IF u = first THEN InitialCred(uid, gid) ELSE NoCred]
        /\ dropped = [u \in Users |-> IF u = first THEN Noted({}, InitialCred(uid, gid)) ELSE {}]
  BY <1>1 DEF FakeInit
<1>2. PICK c : c = InitialCred(uid, gid) OBVIOUS
<1>3. c \in Creds BY <1>2 DEF InitialCred, Creds, Quads, Values, Same
<1>4. Noted({}, c) # {} => Fallen(c, Noted({}, c)) BY DEF Noted, Fallen
<1> QED BY <1>5, <1>2, <1>3, <1>4 DEF RootInv

\* Who drops root for good gets none of it back.
THEOREM RootIsGone == FakeSpec => []DropIsFinal
<1>1. FakeInit => RootInv BY RootStart
<1>2. ASSUME RootInv, [FakeNext]_fakeVars PROVE RootInv'
  <2>1. CASE UNCHANGED fakeVars BY <1>2, <2>1 DEF fakeVars, RootInv
  <2>2. CASE FakeNext
    <3>1. PICK u \in Users :
            \/ SetIds(u) \/ KeepCaps(u) \/ Execve(u) \/ Die(u)
            \/ \E child \in Users : Fork(u, child)
            \/ EnterFileCall(u) \/ KernelCall(u) \/ ExitFileCall(u)
      BY <2>2 DEF FakeNext
    <3>2. CASE SetIds(u) BY <1>2, <3>2, SetIdsStep
    <3>3. CASE KeepCaps(u) BY <1>2, <3>3, KeepCapsStep
    <3>4. CASE Execve(u) BY <1>2, <3>4, ExecveStep
    <3>5. CASE Die(u) BY <1>2, <3>5, DieStep
    <3>6. CASE \E child \in Users : Fork(u, child) BY <1>2, <3>6, ForkStep
    <3>7. CASE EnterFileCall(u) \/ KernelCall(u) \/ ExitFileCall(u)
      <4>1. UNCHANGED <<cred, dropped>> BY <3>7, Zenon DEF EnterFileCall, KernelCall, ExitFileCall
      <4> QED BY <1>2, <4>1 DEF RootInv
    <3> QED BY <3>1, <3>2, <3>3, <3>4, <3>5, <3>6, <3>7
  <2> QED BY <1>2, <2>1, <2>2
<1>3. RootInv => DropIsFinal BY DEF RootInv, DropIsFinal, Fallen
<1> QED BY <1>1, <1>2, <1>3, PTL DEF FakeSpec

-------------------------------------------------------------------------------
(* The service that runs the VMs, for every set of arches and every number *)
(* of taps.                                                                *)
VmInv == VmTypeOK /\ RunningIsRegistered

(* The members of a sequence, such as the list of QEMU processes.          *)
LEMMA SeqMember ==
  ASSUME NEW S, NEW s \in Seq(S)
  PROVE  Len(s) \in Nat /\ DOMAIN s = 1..Len(s) /\ \A p \in 1..Len(s) : s[p] \in S
OBVIOUS

(* A function on 1..n is a sequence: AppKilled and destroy() build one.    *)
LEMMA FunctionIsSeq ==
  ASSUME NEW S, NEW n \in Nat, NEW f \in [1..n -> S]
  PROVE  f \in Seq(S) /\ Len(f) = n
OBVIOUS

(* What a launch adds to the list of processes.                            *)
LEMMA SeqAppended ==
  ASSUME NEW S, NEW s \in Seq(S), NEW e \in S
  PROVE  /\ Append(s, e) \in Seq(S)
         /\ Len(Append(s, e)) = Len(s) + 1
         /\ Append(s, e)[Len(s) + 1] = e
         /\ \A p \in 1..Len(s) : Append(s, e)[p] = s[p]
OBVIOUS

(* destroy() keeps the list of processes and only ends some of them.       *)
LEMMA DestroyedKeeps ==
  ASSUME VmTypeOK, NEW P
  PROVE  /\ Destroyed(P) \in Seq(Qemu)
         /\ Len(Destroyed(P)) = Len(qemu)
         /\ \A p \in 1..Len(qemu) :
              /\ Destroyed(P)[p].arch = qemu[p].arch
              /\ Destroyed(P)[p].state = "alive" =>
                   qemu[p].state = "alive" /\ p \notin P
<1>1. qemu \in Seq(Qemu)
  BY DEF VmTypeOK
<1>2. \A p \in 1..Len(qemu) : qemu[p] \in Qemu
  BY <1>1, SeqMember
<1>3. \A p \in 1..Len(qemu) : Destroyed(P)[p] \in Qemu
  BY <1>2 DEF Destroyed, Qemu, QemuStates
<1>4. DOMAIN Destroyed(P) = 1..Len(qemu) /\ Len(qemu) \in Nat
  BY <1>1, SeqMember DEF Destroyed
<1>5. Destroyed(P) \in [1..Len(qemu) -> Qemu]
  BY <1>3, <1>4 DEF Destroyed
<1>6. /\ Destroyed(P) \in Seq(Qemu)
      /\ Len(Destroyed(P)) = Len(qemu)
  BY <1>4, <1>5, FunctionIsSeq
<1>7. \A p \in 1..Len(qemu) :
        /\ Destroyed(P)[p].arch = qemu[p].arch
        /\ Destroyed(P)[p].state = "alive" => qemu[p].state = "alive" /\ p \notin P
  BY <1>2 DEF Destroyed, Qemu
<1> QED
  BY <1>6, <1>7

(* The types hold initially and no step breaks them.                       *)
LEMMA TypesStep ==
  ASSUME VmTypeOK, [VmNext]_vmVars
  PROVE  VmTypeOK'
<1> USE DEF VmTypeOK
<1>1. CASE OpenMain
  BY <1>1 DEF OpenMain
<1>2. CASE CloseMain
  BY <1>2 DEF CloseMain
<1>3. ASSUME NEW a \in Arches, StartTap(a) PROVE VmTypeOK'
  BY <1>3 DEF StartTap
<1>4. ASSUME NEW a \in Arches, StopTap(a) PROVE VmTypeOK'
  <2>1. /\ qemu' \in Seq(Qemu)
        /\ Len(qemu') = Len(qemu)
    BY <1>4, DestroyedKeeps DEF StopTap
  <2>2. started' \in BOOLEAN /\ created' \in BOOLEAN /\ bound' \in BOOLEAN
    <3>1. started' = (started /\ \E b \in Arches : processes'[b] # 0)
      BY <1>4 DEF StopTap
    <3>2. started' \in BOOLEAN
      BY <3>1, Zenon
    <3>3. created' = created /\ bound' = bound
      BY <1>4 DEF StopTap
    <3> QED
      BY <3>2, <3>3
  <2>3. Len(qemu) \in Nat
    BY SeqMember
  <2>4. processes' \in [Arches -> 0..Len(qemu')]
    <3>1. processes' = [processes EXCEPT ![a] = 0]
      BY <1>4 DEF StopTap
    <3>2. processes \in [Arches -> 0..Len(qemu)]
      OBVIOUS
    <3> QED
      BY <2>1, <2>3, <3>1, <3>2
  <2>5. intents' = intents /\ disk' = disk /\ taps' = taps
    BY <1>4 DEF StopTap
  <2> QED
    BY <2>1, <2>2, <2>4, <2>5
<1>5. ASSUME NEW a \in Arches, Import(a) PROVE VmTypeOK'
  BY <1>5 DEF Import
<1>6. ASSUME NEW a \in Arches, Clear(a) PROVE VmTypeOK'
  BY <1>6 DEF Clear
<1>7. CASE OnStartCommand
  <2>1. intents' \in Seq(Arches) /\ Head(intents) \in Arches
    BY <1>7 DEF OnStartCommand
  <2>2. CASE Launch(Head(intents))
    <3>0. [arch |-> Head(intents), state |-> "alive"] \in Qemu
      BY <2>1 DEF Qemu, QemuStates
    <3>1. /\ qemu' \in Seq(Qemu)
          /\ Len(qemu') = Len(qemu) + 1
      BY <2>2, <3>0, SeqAppended DEF Launch
    <3>2. processes' \in [Arches -> 0..Len(qemu')]
      <4>1. processes \in [Arches -> 0..Len(qemu)] /\ Len(qemu) \in Nat
        BY SeqMember
      <4>2. processes' = [processes EXCEPT ![Head(intents)] = Len(qemu) + 1]
        BY <2>2 DEF Launch
      <4> QED
        BY <2>1, <3>1, <4>1, <4>2
    <3> QED
      BY <1>7, <2>1, <3>1, <3>2 DEF OnStartCommand
  <2>3. CASE NoLaunch(Head(intents))
    BY <1>7, <2>1, <2>3 DEF OnStartCommand, NoLaunch
  <2> QED
    BY <1>7, <2>2, <2>3 DEF OnStartCommand
<1>8. CASE OnDestroy
  <2>1. /\ qemu' \in Seq(Qemu)
        /\ Len(qemu') = Len(qemu)
    BY <1>8, DestroyedKeeps DEF OnDestroy
  <2>2. started' \in BOOLEAN /\ created' \in BOOLEAN /\ bound' \in BOOLEAN
    BY <1>8, Zenon DEF OnDestroy
  <2>3. Len(qemu) \in Nat
    BY SeqMember
  <2>4. processes' \in [Arches -> 0..Len(qemu')]
    BY <1>8, <2>1, <2>3 DEF OnDestroy
  <2>5. intents' = intents /\ disk' = disk /\ taps' = taps
    BY <1>8 DEF OnDestroy
  <2> QED
    BY <2>1, <2>2, <2>4, <2>5
<1>9. ASSUME NEW p \in 1..Len(qemu), QemuExits(p) PROVE VmTypeOK'
  <2>1. /\ qemu' \in Seq(Qemu)
        /\ Len(qemu') = Len(qemu)
    <3>1. \A q \in 1..Len(qemu) : qemu[q] \in Qemu
      BY SeqMember
    <3>2. Len(qemu) \in Nat /\ DOMAIN qemu = 1..Len(qemu)
      BY SeqMember
    <3>3. [qemu[p] EXCEPT !.state = "gone"] \in Qemu
      BY <3>1 DEF Qemu, QemuStates
    <3>4. qemu' \in [1..Len(qemu) -> Qemu]
      BY <1>9, <3>1, <3>2, <3>3 DEF QemuExits
    <3> QED
      BY <3>2, <3>4, FunctionIsSeq
  <2> QED
    BY <1>9, <2>1 DEF QemuExits
<1>10. CASE AppKilled
  <2>1. \A p \in 1..Len(qemu) : qemu[p] \in Qemu
    BY SeqMember
  <2>2. \A p \in 1..Len(qemu) : [qemu[p] EXCEPT !.state = "gone"] \in Qemu
    BY <2>1 DEF Qemu, QemuStates
  <2>3. qemu' = [p \in 1..Len(qemu) |-> [qemu[p] EXCEPT !.state = "gone"]]
    BY <1>10 DEF AppKilled
  <2>4. qemu' \in [1..Len(qemu) -> Qemu] /\ Len(qemu) \in Nat
    BY <2>2, <2>3, SeqMember
  <2>5. qemu' \in Seq(Qemu) /\ Len(qemu') = Len(qemu)
    BY <2>4, FunctionIsSeq
  <2>6. started' \in BOOLEAN /\ created' \in BOOLEAN /\ bound' \in BOOLEAN
    BY <1>10, Zenon DEF AppKilled
  <2>7. processes' \in [Arches -> 0..Len(qemu')]
    BY <1>10, <2>4, <2>5 DEF AppKilled
  <2>8. intents' = <<>> /\ disk' = disk /\ taps' = taps
    BY <1>10 DEF AppKilled, Restarted
  <2> QED
    BY <2>5, <2>6, <2>7, <2>8
<1>11. CASE UNCHANGED vmVars
  BY <1>11 DEF vmVars
<1> QED
  BY <1>1, <1>2, <1>3, <1>4, <1>5, <1>6, <1>7, <1>8, <1>9, <1>10, <1>11 DEF VmNext

(* No step leaves a running VM unregistered.                               *)
LEMMA RegisteredStep ==
  ASSUME VmInv, [VmNext]_vmVars
  PROVE  RunningIsRegistered'
<1> USE DEF VmInv, RunningIsRegistered
<1>0. /\ qemu \in Seq(Qemu)
      /\ \A p \in 1..Len(qemu) : qemu[p] \in Qemu
      /\ processes \in [Arches -> 0..Len(qemu)]
      /\ Len(qemu) \in Nat /\ DOMAIN qemu = 1..Len(qemu)
  BY SeqMember DEF VmTypeOK
<1>1. CASE OpenMain
  BY <1>1 DEF OpenMain
<1>2. CASE CloseMain
  BY <1>2 DEF CloseMain
<1>3. ASSUME NEW a \in Arches, StartTap(a) PROVE RunningIsRegistered'
  BY <1>3 DEF StartTap
<1>4. ASSUME NEW a \in Arches, StopTap(a) PROVE RunningIsRegistered'
  <2>1. /\ Len(qemu') = Len(qemu)
        /\ \A p \in 1..Len(qemu) :
             /\ qemu'[p].arch = qemu[p].arch
             /\ qemu'[p].state = "alive" =>
                  qemu[p].state = "alive" /\ p # processes[a]
    BY <1>4, DestroyedKeeps DEF StopTap
  <2>2. \A p \in 1..Len(qemu) : qemu'[p].state = "alive" =>
          processes[qemu[p].arch] = p /\ qemu[p].arch # a
    BY <2>1
  <2>3. \A b \in Arches : b # a => processes'[b] = processes[b]
    BY <1>0, <1>4 DEF StopTap
  <2>4. \A p \in 1..Len(qemu) : qemu[p].arch \in Arches
    BY <1>0 DEF Qemu
  <2> QED
    BY <2>1, <2>2, <2>3, <2>4
<1>5. ASSUME NEW a \in Arches, Import(a) PROVE RunningIsRegistered'
  BY <1>5 DEF Import
<1>6. ASSUME NEW a \in Arches, Clear(a) PROVE RunningIsRegistered'
  BY <1>6 DEF Clear
<1>7. CASE OnStartCommand
  <2>1. Head(intents) \in Arches
    BY <1>7 DEF OnStartCommand, VmTypeOK
  <2>2. CASE Launch(Head(intents))
    <3>1. PICK a \in Arches : a = Head(intents)
      BY <2>1
    <3>2. /\ qemu' = Append(qemu, [arch |-> a, state |-> "alive"])
          /\ processes' = [processes EXCEPT ![a] = Len(qemu) + 1]
          /\ ~IsRunning(a)
      BY <2>2, <3>1 DEF Launch
    <3>3. /\ Len(qemu') = Len(qemu) + 1
          /\ qemu'[Len(qemu) + 1] = [arch |-> a, state |-> "alive"]
          /\ \A p \in 1..Len(qemu) : qemu'[p] = qemu[p]
      <4>1. [arch |-> a, state |-> "alive"] \in Qemu
        BY DEF Qemu, QemuStates
      <4> QED
        BY <1>0, <3>2, <4>1, SeqAppended
    <3>4. \A p \in 1..Len(qemu) : qemu[p].state = "alive" =>
            processes[qemu[p].arch] = p /\ qemu[p].arch # a
      BY <1>0, <3>2 DEF IsRunning, IsAlive
    <3> QED
      BY <1>0, <3>2, <3>3, <3>4
  <2>3. CASE NoLaunch(Head(intents))
    BY <1>7, <2>3 DEF OnStartCommand, NoLaunch
  <2> QED
    BY <1>7, <2>2, <2>3 DEF OnStartCommand
<1>8. CASE OnDestroy
  <2>1. /\ Len(qemu') = Len(qemu)
        /\ \A p \in 1..Len(qemu) :
             qemu'[p].state = "alive" =>
               qemu[p].state = "alive" /\ p \notin {processes[a] : a \in Arches}
    BY <1>8, DestroyedKeeps DEF OnDestroy
  <2>2. \A p \in 1..Len(qemu) : qemu'[p].state # "alive"
    <3>1. \A p \in 1..Len(qemu) : qemu[p].arch \in Arches
      BY <1>0 DEF Qemu
    <3> QED
      BY <2>1, <3>1
  <2> QED
    BY <2>1, <2>2
<1>9. ASSUME NEW p \in 1..Len(qemu), QemuExits(p) PROVE RunningIsRegistered'
  BY <1>0, <1>9 DEF QemuExits
<1>10. CASE AppKilled
  <2>1. qemu' = [p \in 1..Len(qemu) |-> [qemu[p] EXCEPT !.state = "gone"]]
    BY <1>10 DEF AppKilled
  <2>2. \A p \in 1..Len(qemu) : [qemu[p] EXCEPT !.state = "gone"] \in Qemu
    BY <1>0 DEF Qemu, QemuStates
  <2>3. qemu' \in [1..Len(qemu) -> Qemu]
    BY <2>1, <2>2
  <2>4. Len(qemu') = Len(qemu)
    BY <1>0, <2>3, FunctionIsSeq
  <2>5. \A p \in 1..Len(qemu) : qemu'[p].state = "gone"
    BY <1>0, <2>1 DEF Qemu
  <2> QED
    BY <2>4, <2>5
<1>11. CASE UNCHANGED vmVars
  BY <1>11 DEF vmVars
<1> QED
  BY <1>1, <1>2, <1>3, <1>4, <1>5, <1>6, <1>7, <1>8, <1>9, <1>10, <1>11 DEF VmNext

(* The app starts with nothing.                                            *)
LEMMA InitTyped == VmInit => VmTypeOK
<1> SUFFICES ASSUME VmInit PROVE VmTypeOK
  OBVIOUS
<1> USE DEF VmInit
<1>1. created \in BOOLEAN /\ started \in BOOLEAN /\ bound \in BOOLEAN
  BY Zenon
<1>2. qemu = <<>> /\ Len(qemu) = 0
  OBVIOUS
<1>3. intents \in Seq(Arches) /\ qemu \in Seq(Qemu)
  OBVIOUS
<1>4. processes \in [Arches -> 0..Len(qemu)]
  BY <1>2
<1>5. disk \subseteq Arches /\ taps \in [Arches -> Nat]
  OBVIOUS
<1> QED BY <1>1, <1>3, <1>4, <1>5 DEF VmTypeOK

(* No VM gets out of hand: every QEMU process nobody told to end is the    *)
(* one VmService has registered for its arch, so that Stop and onDestroy   *)
(* reach it, for any arches and any number of taps.                        *)
THEOREM NoVmOutOfHand == VmSpec => []RunningIsRegistered
<1>1. VmInit => VmInv
  <2>1. VmInit => RunningIsRegistered
    BY DEF VmInit, RunningIsRegistered
  <2> QED BY <2>1, InitTyped DEF VmInv
<1>2. VmInv /\ [VmNext]_vmVars => VmInv'
  BY TypesStep, RegisteredStep DEF VmInv
<1>3. VmInv => RunningIsRegistered
  BY DEF VmInv
<1> QED
  BY <1>1, <1>2, <1>3, PTL DEF VmSpec

-----------------------------------------------------------------------------
(* The VMs launched for an arch.                                           *)
Launched(a) == {p \in 1..Len(qemu) : qemu[p].arch = a}

(* Every tap is at most one intent, and every intent at most one VM.       *)
AskedOrOnItsWay ==
  \A a \in Arches :
    Cardinality(Launched(a)) + Cardinality(Positions(intents, {a})) <= taps[a]

(* The numbers that are compared.                                          *)
LEMMA LaunchedFinite ==
  ASSUME VmTypeOK, NEW a
  PROVE  /\ IsFiniteSet(Launched(a))
         /\ Cardinality(Launched(a)) \in Nat
         /\ Cardinality(Positions(intents, {a})) \in Nat
<1>1. qemu \in Seq(Qemu) /\ Len(qemu) \in Nat /\ intents \in Seq(Arches)
  BY DEF VmTypeOK
<1> DEFINE kind == {q \in Qemu : q.arch = a}
<1>2. Launched(a) = Positions(qemu, kind)
  BY <1>1 DEF Launched, Positions
<1> HIDE DEF kind
<1>3. IsFiniteSet(Launched(a)) /\ Cardinality(Launched(a)) \in Nat
  BY <1>1, <1>2, PositionsFinite
<1> QED BY <1>1, <1>3, PositionsFinite

(* A step that launches nothing and leaves the intents and the taps alone, *)
(* or drops every intent.                                                  *)
LEMMA NothingLaunched ==
  ASSUME VmTypeOK, AskedOrOnItsWay,
         Len(qemu') = Len(qemu),
         \A p \in 1..Len(qemu) : qemu'[p].arch = qemu[p].arch,
         intents' = intents \/ intents' = <<>>, taps' = taps
  PROVE  AskedOrOnItsWay'
<1> SUFFICES ASSUME NEW a \in Arches
             PROVE  Cardinality(Launched(a)')
                      + Cardinality(Positions(intents', {a})) <= taps[a]
  BY DEF AskedOrOnItsWay
<1>1. Launched(a)' = Launched(a)
  BY DEF Launched
<1>2. CASE intents' = intents
  BY <1>1, <1>2 DEF AskedOrOnItsWay
<1>3. CASE intents' = <<>>
  <2>1. Positions(intents', {a}) = {} BY <1>3 DEF Positions
  <2>2. Cardinality(Positions(intents', {a})) = 0 BY <2>1, FS_EmptySet
  <2>3. /\ Cardinality(Launched(a)) \in Nat
        /\ Cardinality(Positions(intents, {a})) \in Nat
    BY LaunchedFinite
  <2>4. taps[a] \in Nat BY DEF VmTypeOK
  <2> QED BY <1>1, <2>2, <2>3, <2>4 DEF AskedOrOnItsWay
<1> QED BY <1>2, <1>3

(* No step launches a VM nobody asked for.                                 *)
LEMMA AskedStep ==
  ASSUME VmTypeOK, AskedOrOnItsWay, [VmNext]_vmVars
  PROVE  AskedOrOnItsWay'
<1>0. /\ qemu \in Seq(Qemu) /\ Len(qemu) \in Nat
      /\ \A p \in 1..Len(qemu) : qemu[p] \in Qemu
      /\ intents \in Seq(Arches) /\ taps \in [Arches -> Nat]
  BY SeqMember DEF VmTypeOK
<1>1. CASE \/ OpenMain \/ CloseMain \/ UNCHANGED vmVars
           \/ \E a \in Arches : Import(a) \/ Clear(a)
  BY <1>1, NothingLaunched DEF OpenMain, CloseMain, Import, Clear, vmVars
<1>2. ASSUME NEW b \in Arches, StartTap(b) PROVE AskedOrOnItsWay'
  <2>1. /\ intents' = Append(intents, b) /\ qemu' = qemu
        /\ taps' = [taps EXCEPT ![b] = @ + 1]
    BY <1>2 DEF StartTap
  <2> SUFFICES ASSUME NEW a \in Arches
               PROVE  Cardinality(Launched(a)')
                        + Cardinality(Positions(intents', {a})) <= taps'[a]
    BY DEF AskedOrOnItsWay
  <2>2. Launched(a)' = Launched(a) BY <2>1 DEF Launched
  <2>3. Cardinality(Positions(intents', {a})) =
          Cardinality(Positions(intents, {a})) + (IF b \in {a} THEN 1 ELSE 0)
    BY <1>0, <2>1, CountAppended
  <2>4. /\ Cardinality(Launched(a)) \in Nat
        /\ Cardinality(Positions(intents, {a})) \in Nat
    BY LaunchedFinite
  <2>5. Cardinality(Launched(a)) + Cardinality(Positions(intents, {a})) <= taps[a]
    BY DEF AskedOrOnItsWay
  <2>6. taps[a] \in Nat /\ taps'[a] = taps[a] + (IF b = a THEN 1 ELSE 0)
    BY <1>0, <2>1
  <2> QED BY <2>2, <2>3, <2>4, <2>5, <2>6
<1>3. ASSUME NEW b \in Arches, StopTap(b) PROVE AskedOrOnItsWay'
  BY <1>3, DestroyedKeeps, NothingLaunched DEF StopTap
<1>4. CASE OnStartCommand
  <2>1. PICK b : b = Head(intents)
    OBVIOUS
  <2>2. /\ intents # <<>> /\ intents' = Tail(intents) /\ taps' = taps
        /\ (Launch(b) \/ NoLaunch(b))
        /\ b \in Arches
    BY <1>0, <1>4, <2>1 DEF OnStartCommand
  <2> SUFFICES ASSUME NEW a \in Arches
               PROVE  Cardinality(Launched(a)')
                        + Cardinality(Positions(intents', {a})) <= taps[a]
    BY <2>2 DEF AskedOrOnItsWay
  <2>3. Cardinality(Positions(Tail(intents), {a})) =
          Cardinality(Positions(intents, {a})) - (IF Head(intents) \in {a} THEN 1 ELSE 0)
    BY <1>0, <2>2, CountTail
  <2>4. Cardinality(Launched(a)') <=
          Cardinality(Launched(a)) + (IF b = a THEN 1 ELSE 0)
    <3>1. CASE NoLaunch(b)
      <4>1. Launched(a)' = Launched(a) BY <3>1 DEF NoLaunch, Launched
      <4>2. Cardinality(Launched(a)) \in Nat BY LaunchedFinite
      <4> QED BY <4>1, <4>2
    <3>2. CASE Launch(b)
      <4>1. PICK e : e = [arch |-> b, state |-> "alive"] OBVIOUS
      <4>2. qemu' = Append(qemu, e) /\ e \in Qemu /\ e.arch = b
        BY <1>0, <2>1, <2>2, <3>2, <4>1 DEF Launch, Qemu, QemuStates, OnStartCommand
      <4>3. /\ Len(qemu') = Len(qemu) + 1 /\ qemu'[Len(qemu) + 1] = e
            /\ \A p \in 1..Len(qemu) : qemu'[p] = qemu[p]
        BY <1>0, <4>2
      <4>4. 1..Len(qemu') = (1..Len(qemu)) \cup {Len(qemu) + 1}
        BY <1>0, <4>3
      <4>5. IsFiniteSet(Launched(a)) /\ Cardinality(Launched(a)) \in Nat
        BY LaunchedFinite
      <4>6. CASE b = a
        <5>1. Launched(a)' = Launched(a) \cup {Len(qemu) + 1}
          BY <4>2, <4>3, <4>4, <4>6 DEF Launched
        <5>2. Cardinality(Launched(a)') = Cardinality(Launched(a))
                \/ Cardinality(Launched(a)') = Cardinality(Launched(a)) + 1
          BY <4>5, <5>1, FS_AddElement
        <5> QED BY <4>5, <4>6, <5>2
      <4>7. CASE b # a
        <5>1. Launched(a)' = Launched(a)
          BY <4>2, <4>3, <4>4, <4>7 DEF Launched
        <5> QED BY <4>5, <4>7, <5>1
      <4> QED BY <4>6, <4>7
    <3> QED BY <2>2, <3>1, <3>2
  <2>5. /\ Cardinality(Launched(a)) \in Nat
        /\ Cardinality(Positions(intents, {a})) \in Nat
        /\ Cardinality(Launched(a)') \in Nat
    <3>1. VmTypeOK' BY TypesStep
    <3>2. Cardinality(Launched(a)') \in Nat
      <4>1. IsFiniteSet(Launched(a)')
        <5>1. Launched(a)' \subseteq 1..Len(qemu') /\ Len(qemu') \in Nat
          BY <3>1 DEF Launched, VmTypeOK
        <5>2. IsFiniteSet(1..Len(qemu')) BY <5>1, FS_Interval
        <5> QED BY <5>1, <5>2, FS_Subset
      <4> QED BY <4>1, FS_CardinalityType
    <3> QED BY <3>2, LaunchedFinite
  <2>6. Cardinality(Launched(a)) + Cardinality(Positions(intents, {a})) <= taps[a]
    BY DEF AskedOrOnItsWay
  <2>7. taps[a] \in Nat BY <1>0
  <2> QED BY <2>1, <2>2, <2>3, <2>4, <2>5, <2>6, <2>7
<1>5. CASE OnDestroy
  BY <1>5, DestroyedKeeps, NothingLaunched DEF OnDestroy
<1>6. ASSUME NEW p \in 1..Len(qemu), QemuExits(p) PROVE AskedOrOnItsWay'
  <2>1. qemu' = [qemu EXCEPT ![p].state = "gone"] /\ intents' = intents /\ taps' = taps
    BY <1>6 DEF QemuExits
  <2>2. /\ Len(qemu') = Len(qemu)
        /\ \A r \in 1..Len(qemu) : qemu'[r].arch = qemu[r].arch
    BY <1>0, <2>1 DEF Qemu
  <2> QED BY <2>1, <2>2, NothingLaunched
<1>7. CASE AppKilled
  <2>1. /\ qemu' = [p \in 1..Len(qemu) |-> [qemu[p] EXCEPT !.state = "gone"]]
        /\ intents' = <<>> /\ taps' = taps
    BY <1>7 DEF AppKilled, Restarted
  <2>2. \A p \in 1..Len(qemu) : /\ [qemu[p] EXCEPT !.state = "gone"] \in Qemu
                                /\ [qemu[p] EXCEPT !.state = "gone"].arch = qemu[p].arch
    BY <1>0 DEF Qemu, QemuStates
  <2>3. qemu' \in [1..Len(qemu) -> Qemu]
    BY <2>1, <2>2
  <2>4. Len(qemu') = Len(qemu)
    BY <1>0, <2>3, FunctionIsSeq
  <2>5. \A p \in 1..Len(qemu) : qemu'[p].arch = qemu[p].arch
    BY <2>1, <2>2
  <2> QED BY <2>1, <2>4, <2>5, NothingLaunched
<1> QED BY <1>1, <1>2, <1>3, <1>4, <1>5, <1>6, <1>7 DEF VmNext

(* Every VM was asked for: a tap on Start launches one VM at most, however *)
(* late its intent is delivered and however often Android ends the app     *)
(* (START_NOT_STICKY in VmService.onStartCommand).                         *)
THEOREM NoVmUnasked == VmSpec => []EveryVmWasAskedFor
<1> DEFINE AInv == VmTypeOK /\ AskedOrOnItsWay
<1>1. VmInit => AInv
  <2> SUFFICES ASSUME VmInit PROVE VmTypeOK /\ AskedOrOnItsWay
    OBVIOUS
  <2>1. VmTypeOK BY InitTyped
  <2>2. qemu = <<>> /\ intents = <<>> /\ taps = [a \in Arches |-> 0]
    BY DEF VmInit
  <2>3. ASSUME NEW a \in Arches
        PROVE  Cardinality(Launched(a)) + Cardinality(Positions(intents, {a})) <= taps[a]
    <3>1. Launched(a) = {} /\ Positions(intents, {a}) = {}
      BY <2>2 DEF Launched, Positions
    <3>2. Cardinality(Launched(a)) = 0 /\ Cardinality(Positions(intents, {a})) = 0
      BY <3>1, FS_EmptySet
    <3> QED BY <2>2, <3>2
  <2> QED BY <2>1, <2>3 DEF AskedOrOnItsWay
<1>2. AInv /\ [VmNext]_vmVars => AInv'
  BY TypesStep, AskedStep
<1>3. AInv => EveryVmWasAskedFor
  <2> SUFFICES ASSUME VmTypeOK, AskedOrOnItsWay, NEW a \in Arches
               PROVE  Cardinality(Launched(a)) <= taps[a]
    BY DEF EveryVmWasAskedFor, Launched
  <2>1. /\ Cardinality(Launched(a)) \in Nat
        /\ Cardinality(Positions(intents, {a})) \in Nat
    BY LaunchedFinite
  <2>2. taps[a] \in Nat BY DEF VmTypeOK
  <2> QED BY <2>1, <2>2 DEF AskedOrOnItsWay
<1> QED
  <2> HIDE DEF AInv
  <2> QED BY <1>1, <1>2, <1>3, PTL DEF VmSpec
================================================================================
