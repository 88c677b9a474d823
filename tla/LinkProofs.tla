------------------------------ MODULE LinkProofs ------------------------------
(***************************************************************************)
(* Proofs about the hard links that link2symlink makes of symbolic links,  *)
(* for any number of names, contents and tracees.  Runs of the operations  *)
(* of the host come first, then how a directory stands for the names that  *)
(* live (Fits, Good) and what each handler makes of it, then the invariant *)
(* of the state (LinkInv) with a lemma for each action, what a kill leaves *)
(* behind, and the two theorems.                                           *)
(***************************************************************************)
EXTENDS LinkToSymlink, LoopLemmas, SequenceTheorems

-----------------------------------------------------------------------------
(* What the calls of a handler make of the host.                           *)

(* r[k] is what the first k calls leave.                                   *)
Runs(r, d, ops) ==
  /\ r[0] = [disc |-> d, ok |-> TRUE]
  /\ \A k \in 1..Len(ops) : r[k] = Done(r[k - 1], ops[k])

(* The largest of a set of numbers.                                        *)
LEMMA MaxIsTop ==
  ASSUME NEW n \in Nat, NEW k \in 1..n, NEW s \in SUBSET (1..k), k \in s
  PROVE  Max(s) = k
<1> DEFINE P(x) == x \in s /\ \A y \in s : x >= y
           m == CHOOSE x : P(x)
<1>1. P(k)
  <2>1. \A y \in s : y \in 1..k OBVIOUS
  <2> QED BY <2>1
<1>2. P(m)
  <2> HIDE DEF P
  <2> QED BY <1>1
<1>3. Max(s) = (CHOOSE x \in s : \A y \in s : x >= y) BY DEF Max
<1>4. m = (CHOOSE x \in s : \A y \in s : x >= y) OBVIOUS
<1> HIDE DEF m
<1>5. m \in 1..k /\ m >= k BY <1>1, <1>2
<1>6. m = k BY <1>5
<1> QED BY <1>3, <1>4, <1>6

(* Max of a non-empty set of numbers is one of them.                       *)
LEMMA MaxIn ==
  ASSUME NEW n \in Nat, NEW s \in SUBSET (1..n), s # {}
  PROVE  Max(s) \in s
<1> DEFINE S == {m \in 0..n : \A t \in SUBSET (1..m) : t # {} => Max(t) \in t}
<1>1. 0 \in S
  <2>1. 1..0 = {} OBVIOUS
  <2>2. \A t \in SUBSET (1..0) : t = {} BY <2>1
  <2>3. \A t \in SUBSET (1..0) : t # {} => Max(t) \in t BY <2>2
  <2>4. 0 \in 0..n OBVIOUS
  <2> QED BY <2>3, <2>4, Zenon
<1>2. ASSUME NEW i \in 1..n, i - 1 \in S PROVE i \in S
  <2>1. ASSUME NEW t \in SUBSET (1..i), t # {} PROVE Max(t) \in t
    <3>1. CASE i \in t
      <4>1. i \in Nat /\ i \in 1..i OBVIOUS
      <4>2. Max(t) = i BY <3>1, <4>1, MaxIsTop
      <4> QED BY <3>1, <4>2
    <3>2. CASE i \notin t
      <4>1. t \in SUBSET (1..(i - 1))
        <5>1. ASSUME NEW x \in t PROVE x \in 1..(i - 1)
          <6>1. x \in 1..i /\ x # i BY <3>2
          <6> QED BY <6>1
        <5> QED BY <5>1
      <4> QED BY <1>2, <2>1, <4>1
    <3> QED BY <3>1, <3>2
  <2> QED BY <2>1
<1>3. \A i \in 0..n : i \in S
  <2> HIDE DEF S
  <2> QED BY <1>1, <1>2, UpTo
<1> QED BY <1>3

(* FoldLeft takes the calls one after the other.                           *)
LEMMA RunIsLoop ==
  ASSUME NEW d, NEW ops, NEW n \in Nat, n = Len(ops), DOMAIN ops = 1..n
  PROVE  \E r : Runs(r, d, ops) /\ Run(d, ops) = r[n]
<1> DEFINE x0 == [disc |-> d, ok |-> TRUE]
           D == DOMAIN ops
           V(h, s) == IF s = {} THEN x0
                      ELSE Done(h[s \ {Max(s)}], ops[Max(s)])
           Eq(h) == h = [s \in SUBSET D |-> V(h, s)]
           c == CHOOSE h : Eq(h)
           Good(h, m) == \A s \in SUBSET (1..m) : h[s] = V(h, s)
           M == {m \in 0..n : \E h : h = [s \in SUBSET D |-> h[s]] /\ Good(h, m)}
<1>1. Run(d, ops) = c[D]
  BY DEF Run, FoldLeft, MapThenFoldSet
<1>2. 0 \in M
  <2> DEFINE h == [s \in SUBSET D |-> x0]
  <2>1. Good(h, 0)
    <3>1. 1..0 = {} OBVIOUS
    <3>2. \A s \in SUBSET (1..0) : s = {} BY <3>1
    <3> QED BY <3>2
  <2>2. h = [s \in SUBSET D |-> h[s]] OBVIOUS
  <2> HIDE DEF h, Good
  <2> QED BY <2>1, <2>2
<1>3. ASSUME NEW k \in 1..n, k - 1 \in M PROVE k \in M
  <2>1. PICK g : g = [s \in SUBSET D |-> g[s]] /\ Good(g, k - 1)
    <3> HIDE DEF Good
    <3> QED BY <1>3
  <2> DEFINE h == [s \in SUBSET D |->
                     IF k \in s THEN Done(g[s \ {k}], ops[k]) ELSE g[s]]
  <2>2. ASSUME NEW s \in SUBSET (1..k) PROVE h[s] = V(h, s)
    <3>1. s \in SUBSET D /\ \A y : s \ {y} \in SUBSET D
      <4>1. \A y \in s : y \in D OBVIOUS
      <4> QED BY <4>1
    <3>2. CASE k \in s
      <4>1. Max(s) = k BY <3>2, MaxIsTop
      <4>2. h[s \ {k}] = g[s \ {k}] BY <3>1
      <4>3. h[s] = Done(g[s \ {k}], ops[k]) BY <3>1, <3>2
      <4>4. V(h, s) = Done(h[s \ {Max(s)}], ops[Max(s)]) BY <3>2
      <4> HIDE DEF h, V
      <4> QED BY <4>1, <4>2, <4>3, <4>4
    <3>3. CASE k \notin s
      <4>1. s \in SUBSET (1..(k - 1))
        <5>1. ASSUME NEW y \in s PROVE y \in 1..(k - 1)
          <6>1. y \in 1..k /\ y # k BY <3>3
          <6> QED BY <6>1
        <5> QED BY <5>1
      <4>2. g[s] = V(g, s) BY <2>1, <4>1
      <4>3. h[s] = g[s] BY <3>1, <3>3
      <4>4. h[s \ {Max(s)}] = g[s \ {Max(s)}] BY <3>1, <3>3
      <4>5. V(h, s) = V(g, s) 
        <5> HIDE DEF h
        <5> QED BY <4>4
      <4> HIDE DEF h, V
      <4> QED BY <4>2, <4>3, <4>5
    <3> QED BY <3>2, <3>3
  <2>3. h = [s \in SUBSET D |-> h[s]] OBVIOUS
  <2> HIDE DEF h
  <2>4. Good(h, k) BY <2>2
  <2> HIDE DEF Good
  <2> QED BY <2>3, <2>4
<1>4. n \in M
  <2> HIDE DEF M
  <2>1. \A i \in 0..n : i \in M BY <1>2, <1>3, UpTo
  <2> QED BY <2>1
<1>5. Eq(c)
  <2>1. PICK h : h = [s \in SUBSET D |-> h[s]] /\ Good(h, n)
    <3> HIDE DEF Good
    <3> QED BY <1>4
  <2>2. \A s \in SUBSET D : h[s] = V(h, s) BY <2>1
  <2> HIDE DEF V
  <2>3. Eq(h) BY <2>1, <2>2
  <2> HIDE DEF Eq
  <2> QED BY <2>3
<1> HIDE DEF c
<1> DEFINE r == [k \in 0..n |-> c[1..k]]
<1>6. ASSUME NEW k \in 0..n PROVE 1..k \in SUBSET D
  OBVIOUS
<1>7. r[0] = x0
  <2>1. 1..0 = {} OBVIOUS
  <2>2. c[{}] = x0 BY <1>5
  <2> QED BY <2>1, <2>2
<1>8. ASSUME NEW k \in 1..n PROVE r[k] = Done(r[k - 1], ops[k])
  <2>1. k \in 1..k /\ 1..k # {} /\ 1..k \in SUBSET D
    OBVIOUS
  <2>5. (1..k) \ {k} = 1..(k - 1) OBVIOUS
  <2>2. Max(1..k) = k
    <3>1. 1..k \in SUBSET (1..k) /\ k \in 1..k OBVIOUS
    <3> QED BY <3>1, MaxIsTop
  <2>3. c[1..k] = Done(c[1..(k - 1)], ops[k]) BY <1>5, <2>1, <2>2, <2>5
  <2>4. r[k] = c[1..k] /\ r[k - 1] = c[1..(k - 1)] OBVIOUS
  <2> HIDE DEF r
  <2> QED BY <2>3, <2>4
<1>9. r[n] = c[D] OBVIOUS
<1> HIDE DEF r
<1>10. Runs(r, d, ops) BY <1>7, <1>8 DEF Runs
<1> QED BY <1>1, <1>9, <1>10

(* Two handlers that begin alike are alike so far.                         *)
Begins(more, ops) == \A k \in 1..Len(ops) : more[k] = ops[k]

LEMMA RunsAgree ==
  ASSUME NEW d, NEW ops, NEW more, Len(ops) \in Nat, Len(more) \in Nat,
         Len(ops) <= Len(more), Begins(more, ops),
         NEW r, Runs(r, d, ops), NEW q, Runs(q, d, more)
  PROVE  r[Len(ops)] = q[Len(ops)]
<1> DEFINE n == Len(ops)
           m == Len(more)
<1> DEFINE S == {k \in 0..n : r[k] = q[k]}
<1>1. 0 \in S BY DEF Runs
<1>2. ASSUME NEW k \in 1..n, k - 1 \in S PROVE k \in S
  <2>1. r[k] = Done(r[k - 1], ops[k]) BY DEF Runs
  <2>2. q[k] = Done(q[k - 1], more[k])
    <3>1. k \in 1..m OBVIOUS
    <3> QED BY <3>1 DEF Runs
  <2>3. r[k - 1] = q[k - 1] /\ more[k] = ops[k] BY <1>2 DEF Begins
  <2>4. r[k] = q[k] BY <2>1, <2>2, <2>3
  <2> QED BY <2>4
<1> HIDE DEF S
<1>3. \A k \in 0..n : k \in S BY <1>1, <1>2, UpTo
<1> QED BY <1>3 DEF S

(* A handler that makes no call.                                           *)
LEMMA RunNone == ASSUME NEW d PROVE Run(d, <<>>) = [disc |-> d, ok |-> TRUE]
<1>1. Len(<<>>) = 0 /\ DOMAIN <<>> = 1..0 OBVIOUS
<1>2. PICK r : Runs(r, d, <<>>) /\ Run(d, <<>>) = r[0] BY <1>1, RunIsLoop
<1> QED BY <1>2 DEF Runs

(* Handlers of one, two and three calls.                                   *)
LEMMA RunOne ==
  ASSUME NEW d, NEW o
  PROVE  Run(d, <<o>>) = Done([disc |-> d, ok |-> TRUE], o)
<1>1. PICK ops : ops = <<o>> OBVIOUS
<1>2. Len(ops) = 1 /\ DOMAIN ops = 1..1 /\ ops[1] = o BY <1>1
<1>3. PICK r : Runs(r, d, ops) /\ Run(d, ops) = r[1] BY <1>2, RunIsLoop
<1>4. r[1] = Done(r[0], o) BY <1>2, <1>3 DEF Runs
<1>5. r[0] = [disc |-> d, ok |-> TRUE] BY <1>3 DEF Runs
<1> QED BY <1>1, <1>3, <1>4, <1>5

LEMMA RunTwo ==
  ASSUME NEW d, NEW o, NEW u
  PROVE  Run(d, <<o, u>>) = Done(Run(d, <<o>>), u)
<1>1. PICK ops : ops = <<o, u>> OBVIOUS
<1>2. Len(ops) = 2 /\ DOMAIN ops = 1..2 /\ ops[1] = o /\ ops[2] = u BY <1>1
<1>3. PICK r : Runs(r, d, ops) /\ Run(d, ops) = r[2] BY <1>2, RunIsLoop
<1>4. r[1] = Done(r[0], o) /\ r[2] = Done(r[1], u) BY <1>2, <1>3 DEF Runs
<1>5. r[0] = [disc |-> d, ok |-> TRUE] BY <1>3 DEF Runs
<1> QED BY <1>1, <1>3, <1>4, <1>5, RunOne

LEMMA RunThree ==
  ASSUME NEW d, NEW o, NEW u, NEW v
  PROVE  Run(d, <<o, u, v>>) = Done(Run(d, <<o, u>>), v)
<1>1. PICK ops : ops = <<o, u, v>> OBVIOUS
<1>2. /\ Len(ops) = 3 /\ DOMAIN ops = 1..3
      /\ ops[1] = o /\ ops[2] = u /\ ops[3] = v
  BY <1>1
<1>3. PICK r : Runs(r, d, ops) /\ Run(d, ops) = r[3] BY <1>2, RunIsLoop
<1>4. r[1] = Done(r[0], o) /\ r[2] = Done(r[1], u) /\ r[3] = Done(r[2], v)
  BY <1>2, <1>3 DEF Runs
<1>5. r[0] = [disc |-> d, ok |-> TRUE] BY <1>3 DEF Runs
<1>6. Run(d, <<o>>) = r[1] BY <1>4, <1>5, RunOne
<1>7. Run(d, <<o, u>>) = r[2]
  <2>1. Run(d, <<o, u>>) = Done(Run(d, <<o>>), u) BY RunTwo
  <2> QED BY <1>4, <1>6, <2>1
<1> QED BY <1>1, <1>3, <1>4, <1>7

(* The result of a handler is a directory and whether all went well.       *)
IsRun(s) == s = [disc |-> s.disc, ok |-> s.ok] /\ s.ok \in BOOLEAN

LEMMA DoneIsRun ==
  ASSUME NEW s, IsRun(s), NEW o
  PROVE  IsRun(Done(s, o)) /\ (Done(s, o).ok => s.ok)
<1>1. PICK d, ok : ok \in BOOLEAN /\ s = [disc |-> d, ok |-> ok] BY DEF IsRun
<1> DEFINE e == CASE o.op = "rename" -> Put(Except(s.disc, o.from), o.to, s.disc[o.from])
                  [] o.op = "symlink" -> Put(s.disc, o.to, LinkTo(o.from))
                  [] o.op = "unlink" -> Except(s.disc, o.from)
<1>2. Done(s, o) = IF ~s.ok \/ (o.op = "symlink" /\ o.to \in DOMAIN s.disc)
                                \/ (o.op # "symlink" /\ o.from \notin DOMAIN s.disc)
                             THEN [s EXCEPT !.ok = FALSE] ELSE [s EXCEPT !.disc = e]
  BY DEF Done
<1> HIDE DEF e
<1>3. \/ Done(s, o) = [disc |-> d, ok |-> FALSE]
      \/ ok /\ Done(s, o) = [disc |-> e, ok |-> ok]
  BY <1>1, <1>2
<1>4. CASE Done(s, o) = [disc |-> d, ok |-> FALSE]
  BY <1>4 DEF IsRun
<1>5. CASE ok /\ Done(s, o) = [disc |-> e, ok |-> ok]
  <2>1. s.ok = ok BY <1>1
  <2>2. PICK x : x = e OBVIOUS
  <2> HIDE DEF e
  <2>3. IsRun([disc |-> x, ok |-> ok]) BY <1>1 DEF IsRun
  <2> QED BY <1>1, <1>5, <2>1, <2>2, <2>3
<1> QED BY <1>3, <1>4, <1>5

LEMMA RunsAreRuns ==
  ASSUME NEW d, NEW ops, NEW n \in Nat, n = Len(ops), NEW r, Runs(r, d, ops)
  PROVE  \A k \in 0..n : IsRun(r[k])
<1> DEFINE S == {k \in 0..n : IsRun(r[k])}
<1>1. 0 \in S
  <2>1. IsRun([disc |-> d, ok |-> TRUE]) BY DEF IsRun
  <2>2. IsRun(r[0]) BY <2>1 DEF Runs
  <2> QED BY <2>2
<1>2. ASSUME NEW k \in 1..n, k - 1 \in S PROVE k \in S
  BY <1>2, DoneIsRun DEF Runs
<1> HIDE DEF S
<1>3. \A k \in 0..n : k \in S BY <1>1, <1>2, UpTo
<1> QED BY <1>3 DEF S

(* A handler in two parts, the first of which went well.                   *)
LEMMA RunThen ==
  ASSUME NEW d, NEW S, NEW a \in Seq(S), NEW b \in Seq(S), Run(d, a).ok
  PROVE  Run(d, a \o b) = Run(Run(d, a).disc, b)
<1>1. PICK n \in Nat : n = Len(a) OBVIOUS
<1>2. PICK m \in Nat : m = Len(b) OBVIOUS
<1>3. DOMAIN a = 1..n /\ DOMAIN b = 1..m BY <1>1, <1>2
<1> DEFINE ab == a \o b
<1>4. /\ Len(ab) = n + m /\ DOMAIN ab = 1..(n + m)
      /\ \A k \in 1..n : ab[k] = a[k]
      /\ \A k \in 1..m : ab[n + k] = b[k]
  BY <1>1, <1>2
<1> HIDE DEF ab
<1>5. PICK q : Runs(q, d, a) /\ Run(d, a) = q[n]
  BY <1>1, <1>3, RunIsLoop
<1>6. n + m \in Nat /\ n <= n + m OBVIOUS
<1>7. PICK r : Runs(r, d, ab) /\ Run(d, ab) = r[n + m]
  BY <1>4, <1>6, RunIsLoop
<1>8. q[n] = r[n]
  <2>1. Begins(ab, a) BY <1>1, <1>4 DEF Begins
  <2> QED BY <1>1, <1>4, <1>5, <1>6, <1>7, <2>1, RunsAgree
<1>9. r[n] = [disc |-> Run(d, a).disc, ok |-> TRUE]
  <2>1. n \in 0..n OBVIOUS
  <2>2. IsRun(q[n]) BY <1>1, <1>5, <2>1, RunsAreRuns
  <2> QED BY <1>5, <1>8, <2>2 DEF IsRun
<1> DEFINE p == [k \in 0..m |-> r[n + k]]
<1>10. Runs(p, Run(d, a).disc, b)
  <2>1. p[0] = r[n] OBVIOUS
  <2>2. ASSUME NEW k \in 1..m PROVE p[k] = Done(p[k - 1], b[k])
    <3>1. n + k \in 1..(n + m) /\ (n + k) - 1 = n + (k - 1) /\ k - 1 \in 0..m OBVIOUS
    <3>2. r[n + k] = Done(r[(n + k) - 1], ab[n + k]) BY <1>4, <1>7, <3>1 DEF Runs
    <3>3. p[k] = r[n + k] /\ p[k - 1] = r[n + (k - 1)] BY <3>1
    <3> HIDE DEF p
    <3> QED BY <1>4, <3>1, <3>2, <3>3
  <2> HIDE DEF p
  <2> QED BY <1>2, <1>9, <2>1, <2>2 DEF Runs
<1>11. p[m] = r[n + m] OBVIOUS
<1> HIDE DEF p
<1>12. PICK z : Runs(z, Run(d, a).disc, b) /\ Run(Run(d, a).disc, b) = z[m]
  BY <1>2, <1>3, RunIsLoop
<1>13. z[m] = p[m]
  <2>1. m <= m /\ Begins(b, b) BY DEF Begins
  <2> QED BY <1>2, <1>10, <1>12, <2>1, RunsAgree
<1> QED BY <1>7, <1>11, <1>12, <1>13 DEF ab

-----------------------------------------------------------------------------
(* The host's names: those of the guest, intermediates and finals.         *)

At(n) == <<n>>
Mids == GuestNames \X (1..MaxSuffix)
Fin(m, c) == <<m[1], m[2], c>>

LEMMA HostsApart ==
  /\ \A n, k : At(n) = At(k) => n = k
  /\ \A n : At(n) \notin Mids
  /\ \A n, m, c : At(n) # Fin(m, c)
  /\ \A m \in Mids : \A k, c : m # Fin(k, c)
  /\ \A m, k \in Mids : \A b, c : Fin(m, b) = Fin(k, c) => m = k /\ b = c
<1>1. \A n, k : At(n) = At(k) => n = k BY DEF At
<1>2. \A n : Len(At(n)) = 1 BY DEF At
<1>3. \A m \in Mids : Len(m) = 2 BY DEF Mids
<1>4. \A m, c : Len(Fin(m, c)) = 3 BY DEF Fin
<1>5. ASSUME NEW m \in Mids, NEW k \in Mids, NEW b, NEW c, Fin(m, b) = Fin(k, c)
      PROVE  m = k /\ b = c
  <2>1. m[1] = k[1] /\ m[2] = k[2] /\ b = c BY <1>5 DEF Fin
  <2>2. m = <<m[1], m[2]>> /\ k = <<k[1], k[2]>> BY DEF Mids
  <2> QED BY <2>1, <2>2
<1>6. \A n : At(n) \notin Mids BY <1>2, <1>3
<1>7. \A n, m, c : At(n) # Fin(m, c) BY <1>2, <1>4
<1>8. \A m \in Mids : \A k, c : m # Fin(k, c) BY <1>3, <1>4
<1> QED BY <1>1, <1>5, <1>6, <1>7, <1>8

(* What is behind a name.                                                  *)
LEMMA NodesApart ==
  /\ \A x, h : Content(x) # LinkTo(h)
  /\ \A x, y : Content(x) = Content(y) => x = y
  /\ \A h, g : LinkTo(h) = LinkTo(g) => h = g
  /\ \A h : LinkTo(h).link = h
  /\ \A x : Content(x).file = x
BY DEF Content, LinkTo

LEMMA NodeKinds ==
  /\ \A h : "link" \in DOMAIN LinkTo(h)
  /\ \A x : "link" \notin DOMAIN Content(x)
BY DEF Content, LinkTo

(* A file under its own name, and one that was linked.                     *)
LEMMA FoundPlain ==
  ASSUME NEW d, NEW n, NEW x, At(n) \in DOMAIN d, d[At(n)] = Content(x)
  PROVE  ~IsFaked(d, n) /\ ContentOf(d, n) = x /\ Links(d, n) = 1
BY NodesApart, NodeKinds DEF IsFaked, IsLink, ContentOf, Links, At

LEMMA FoundNone ==
  ASSUME NEW d, NEW n, At(n) \notin DOMAIN d
  PROVE  ~IsFaked(d, n) /\ ContentOf(d, n) = NoContent
BY DEF IsFaked, IsLink, ContentOf, At

LEMMA FoundLink ==
  ASSUME NEW d, NEW n, NEW m \in Mids, At(n) \in DOMAIN d, d[At(n)] = LinkTo(m)
  PROVE  IsFaked(d, n) /\ Middle(d, n) = m
<1>1. Len(m) = 2 BY DEF Mids
<1> QED BY <1>1, NodesApart, NodeKinds DEF IsFaked, IsLink, Middle, At

LEMMA FoundFile ==
  ASSUME NEW d, NEW n, NEW m \in Mids, At(n) \in DOMAIN d, d[At(n)] = LinkTo(m),
         m \in DOMAIN d, NEW c, d[m] = LinkTo(Fin(m, c)), Fin(m, c) \in DOMAIN d,
         NEW x, d[Fin(m, c)] = Content(x)
  PROVE  /\ IsFaked(d, n) /\ Middle(d, n) = m /\ ~Broken(d, n)
         /\ ContentOf(d, n) = x /\ Links(d, n) = c
<1>1. IsFaked(d, n) /\ Middle(d, n) = m BY FoundLink
<1>2. ~Broken(d, n) BY <1>1 DEF Broken
<1>3. Fin(m, c)[3] = c BY DEF Fin
<1>4. d[m].link = Fin(m, c) BY NodesApart
<1>5. Links(d, n) = c BY <1>1, <1>2, <1>3, <1>4 DEF Links
<1>6. ContentOf(d, n) = x
  BY <1>1, <1>2, <1>4, NodesApart, NodeKinds DEF ContentOf, IsLink, IsFaked, At
<1> QED BY <1>1, <1>2, <1>5, <1>6

(* The count in the name of a final.                                       *)
LEMMA CountedFin ==
  ASSUME NEW m \in Mids, NEW b, NEW c \in Nat, c < CountBase, CountBase \in Nat
  PROVE  /\ Counted(Fin(m, b), c) = Fin(m, c)
         /\ Counted(Append(m, 0), c) = Fin(m, c)
<1>1. c % CountBase = c OBVIOUS
<1>2. [Fin(m, b) EXCEPT ![3] = c] = Fin(m, c)
  BY DEF Fin
<1>3. Append(m, 0) = Fin(m, 0)
  <2>1. PICK i, k : m = <<i, k>> BY DEF Mids
  <2>2. PICK f : f = Append(m, 0) OBVIOUS
  <2>4. PICK g : g = <<i, k, 0>> OBVIOUS
  <2>5. f \in Seq({i, k, 0}) /\ g \in Seq({i, k, 0}) BY <2>1, <2>2, <2>4
  <2>6. Len(f) = 3 /\ Len(g) = 3 BY <2>1, <2>2, <2>4
  <2>7. f[1] = i /\ f[2] = k /\ f[3] = 0 BY <2>1, <2>2
  <2>8. g[1] = i /\ g[2] = k /\ g[3] = 0 BY <2>4
  <2>9. \A j \in 1..Len(f) : f[j] = g[j] BY <2>6, <2>7, <2>8
  <2>10. Len(f) = Len(g) BY <2>6
  <2>11. f = g BY <2>5, <2>9, <2>10, SeqEqual
  <2>3. f = <<i, k, 0>> BY <2>4, <2>11
  <2> QED BY <2>1, <2>2, <2>3 DEF Fin
<1>4. [Fin(m, 0) EXCEPT ![3] = c] = Fin(m, c)
  BY DEF Fin
<1> QED BY <1>1, <1>2, <1>3, <1>4 DEF Counted

(* The system calls of PRoot, where they can be made.                      *)
Well(d) == [disc |-> d, ok |-> TRUE]

LEMMA DoneRename ==
  ASSUME NEW d, NEW from, NEW to, from \in DOMAIN d
  PROVE  Done(Well(d), HostRename(from, to)) = Well(Put(Except(d, from), to, d[from]))
<1>1. PICK o : o = HostRename(from, to) OBVIOUS
<1>2. o.op = "rename" /\ o.from = from /\ o.to = to BY <1>1 DEF HostRename
<1> QED BY <1>1, <1>2 DEF Done, Well

LEMMA DoneSymlink ==
  ASSUME NEW d, NEW target, NEW at, at \notin DOMAIN d
  PROVE  Done(Well(d), HostSymlink(target, at)) = Well(Put(d, at, LinkTo(target)))
<1>1. PICK o : o = HostSymlink(target, at) OBVIOUS
<1>2. o.op = "symlink" /\ o.from = target /\ o.to = at BY <1>1 DEF HostSymlink
<1> QED BY <1>1, <1>2 DEF Done, Well

LEMMA DoneUnlink ==
  ASSUME NEW d, NEW h, h \in DOMAIN d
  PROVE  Done(Well(d), HostUnlink(h)) = Well(Except(d, h))
<1>1. PICK o : o = HostUnlink(h) OBVIOUS
<1>2. o.op = "unlink" /\ o.from = h BY <1>1 DEF HostUnlink
<1> QED BY <1>1, <1>2 DEF Done, Well

(* The final of m gets the count c.                                        *)
Relabeled(e, d, m, b, c) ==
  /\ DOMAIN e = (DOMAIN d \ {Fin(m, b)}) \cup {Fin(m, c)}
  /\ e[Fin(m, c)] = d[Fin(m, b)]
  /\ e[m] = LinkTo(Fin(m, c))
  /\ \A h \in DOMAIN d : h \notin {Fin(m, b), Fin(m, c), m} => e[h] = d[h]

Few == CountBase \in Nat /\ MaxSuffix \in Nat /\ IsFiniteSet(GuestNames)
       /\ Cardinality(GuestNames) + 1 < CountBase
       /\ Cardinality(GuestNames) <= MaxSuffix

\* The intermediate m leads to a file with b links.
Leading(d, m, b) ==
  /\ m \in Mids /\ m \in DOMAIN d
  /\ d[m] = LinkTo(Fin(m, b)) /\ Fin(m, b) \in DOMAIN d

(* Renumber() does what it says.                                           *)
LEMMA RenumberCalls ==
  ASSUME NEW d, NEW m, NEW b, NEW c \in Nat, Leading(d, m, b),
         CountBase \in Nat, c < CountBase
  PROVE  Renumber(d, m, c) = <<HostRename(Fin(m, b), Fin(m, c)), HostUnlink(m),
                              HostSymlink(Fin(m, c), m)>>
<1>1. d[m].link = Fin(m, b) BY NodesApart DEF Leading
<1>2. Counted(Fin(m, b), c) = Fin(m, c) BY CountedFin DEF Leading
<1> QED BY <1>1, <1>2 DEF Renumber

LEMMA RenumberRuns ==
  ASSUME NEW d, NEW m, NEW b, NEW c \in Nat, Leading(d, m, b), b # c,
         CountBase \in Nat, c < CountBase
  PROVE  LET s == Run(d, Renumber(d, m, c))
         IN  s = Well(s.disc) /\ s.ok /\ Relabeled(s.disc, d, m, b, c)
<1>1. PICK F, N : F = Fin(m, b) /\ N = Fin(m, c) OBVIOUS
<1>2. F # N /\ m # F /\ m # N BY <1>1, HostsApart DEF Leading
<1>3. m \in DOMAIN d /\ F \in DOMAIN d BY <1>1 DEF Leading
<1>4. Renumber(d, m, c) = <<HostRename(F, N), HostUnlink(m), HostSymlink(N, m)>>
  BY <1>1, RenumberCalls
<1>5. PICK e : e = Put(Except(d, F), N, d[F]) OBVIOUS
<1>6. Run(d, <<HostRename(F, N)>>) = Well(e)
  <2>1. Run(d, <<HostRename(F, N)>>) = Done(Well(d), HostRename(F, N))
    BY RunOne DEF Well
  <2> QED BY <1>3, <1>5, <2>1, DoneRename
<1>7. /\ DOMAIN e = (DOMAIN d \ {F}) \cup {N} /\ e[N] = d[F]
      /\ \A h \in DOMAIN d : h # F /\ h # N => e[h] = d[h]
  BY <1>2, <1>5 DEF Put, Except
<1>8. PICK f : f = Except(e, m) OBVIOUS
<1>9. Run(d, <<HostRename(F, N), HostUnlink(m)>>) = Well(f)
  <2>1. m \in DOMAIN e BY <1>2, <1>3, <1>7
  <2>2. Run(d, <<HostRename(F, N), HostUnlink(m)>>) = Done(Well(e), HostUnlink(m))
    BY <1>6, RunTwo
  <2> QED BY <1>8, <2>1, <2>2, DoneUnlink
<1>10. DOMAIN f = DOMAIN e \ {m} /\ \A h \in DOMAIN e : h # m => f[h] = e[h]
  BY <1>8 DEF Except
<1>11. PICK g : g = Put(f, m, LinkTo(N)) OBVIOUS
<1>12. Run(d, Renumber(d, m, c)) = Well(g)
  <2>1. m \notin DOMAIN f BY <1>10
  <2>2. Run(d, Renumber(d, m, c)) = Done(Well(f), HostSymlink(N, m))
    BY <1>4, <1>9, RunThree
  <2> QED BY <1>11, <2>1, <2>2, DoneSymlink
<1>13. /\ DOMAIN g = DOMAIN f \cup {m} /\ g[m] = LinkTo(N)
       /\ \A h \in DOMAIN f : h # m => g[h] = f[h]
  BY <1>11 DEF Put
<1>14. Relabeled(g, d, m, b, c)
  <2>1. DOMAIN g = (DOMAIN d \ {F}) \cup {N} BY <1>2, <1>3, <1>7, <1>10, <1>13
  <2>2. g[N] = d[F] BY <1>2, <1>7, <1>10, <1>13
  <2>3. \A h \in DOMAIN d : h \notin {F, N, m} => g[h] = d[h]
    BY <1>2, <1>7, <1>10, <1>13
  <2> QED BY <1>1, <1>13, <2>1, <2>2, <2>3 DEF Relabeled
<1> QED BY <1>12, <1>14 DEF Well

(* The file of the last name goes.                                         *)
Dropped(e, d, m, b) ==
  /\ DOMAIN e = DOMAIN d \ {m, Fin(m, b)}
  /\ \A h \in DOMAIN e : e[h] = d[h]

LEMMA DropRuns ==
  ASSUME NEW d, NEW m, NEW b, Leading(d, m, b)
  PROVE  LET s == Run(d, <<HostUnlink(m), HostUnlink(Fin(m, b))>>)
         IN  s.ok /\ Dropped(s.disc, d, m, b)
<1>1. m # Fin(m, b) BY HostsApart DEF Leading
<1>2. PICK e : e = Except(d, m) OBVIOUS
<1>3. Run(d, <<HostUnlink(m)>>) = Well(e)
  <2>1. Run(d, <<HostUnlink(m)>>) = Done(Well(d), HostUnlink(m)) BY RunOne DEF Well
  <2> QED BY <1>2, <2>1, DoneUnlink DEF Leading
<1>4. DOMAIN e = DOMAIN d \ {m} /\ \A h \in DOMAIN d : h # m => e[h] = d[h]
  BY <1>2 DEF Except
<1>5. PICK f : f = Except(e, Fin(m, b)) OBVIOUS
<1>6. Run(d, <<HostUnlink(m), HostUnlink(Fin(m, b))>>) = Well(f)
  <2>1. Fin(m, b) \in DOMAIN e BY <1>1, <1>4 DEF Leading
  <2>2. Run(d, <<HostUnlink(m), HostUnlink(Fin(m, b))>>) =
          Done(Well(e), HostUnlink(Fin(m, b)))
    BY <1>3, RunTwo
  <2> QED BY <1>5, <2>1, <2>2, DoneUnlink
<1>7. DOMAIN f = DOMAIN e \ {Fin(m, b)} /\ \A h \in DOMAIN e : h # Fin(m, b) => f[h] = e[h]
  BY <1>5 DEF Except
<1>8. Dropped(f, d, m, b) BY <1>4, <1>7 DEF Dropped
<1> QED BY <1>6, <1>8 DEF Well

(* A file that is linked for the first time goes behind an intermediate.   *)
Hidden(e, d, n, m, c) ==
  /\ DOMAIN e = DOMAIN d \cup {m, Fin(m, c)}
  /\ e[At(n)] = LinkTo(m) /\ e[m] = LinkTo(Fin(m, c)) /\ e[Fin(m, c)] = d[At(n)]
  /\ \A h \in DOMAIN d : h # At(n) => e[h] = d[h]

LEMMA HideRuns ==
  ASSUME NEW d, NEW n, NEW m \in Mids, At(n) \in DOMAIN d,
         m \notin DOMAIN d, NEW c, Fin(m, c) \notin DOMAIN d
  PROVE  LET s == Run(d, <<HostRename(<<n>>, Fin(m, c)), HostSymlink(Fin(m, c), m),
                           HostSymlink(m, <<n>>)>>)
         IN  s = Well(s.disc) /\ s.ok /\ Hidden(s.disc, d, n, m, c)
<1>1. PICK a, F : a = At(n) /\ F = Fin(m, c) OBVIOUS
<1>2. a = <<n>> BY <1>1 DEF At
<1>3. a # m /\ a # F /\ m # F BY <1>1, HostsApart
<1>4. a \in DOMAIN d /\ m \notin DOMAIN d /\ F \notin DOMAIN d BY <1>1
<1>5. PICK e : e = Put(Except(d, a), F, d[a]) OBVIOUS
<1>6. Run(d, <<HostRename(a, F)>>) = Well(e)
  <2>1. Run(d, <<HostRename(a, F)>>) = Done(Well(d), HostRename(a, F))
    BY RunOne DEF Well
  <2> QED BY <1>4, <1>5, <2>1, DoneRename
<1>7. /\ DOMAIN e = (DOMAIN d \ {a}) \cup {F} /\ e[F] = d[a]
      /\ \A h \in DOMAIN d : h # a /\ h # F => e[h] = d[h]
  BY <1>5 DEF Put, Except
<1>8. PICK f : f = Put(e, m, LinkTo(F)) OBVIOUS
<1>9. Run(d, <<HostRename(a, F), HostSymlink(F, m)>>) = Well(f)
  <2>1. m \notin DOMAIN e BY <1>3, <1>4, <1>7
  <2>2. Run(d, <<HostRename(a, F), HostSymlink(F, m)>>) = Done(Well(e), HostSymlink(F, m))
    BY <1>6, RunTwo
  <2> QED BY <1>8, <2>1, <2>2, DoneSymlink
<1>10. /\ DOMAIN f = DOMAIN e \cup {m} /\ f[m] = LinkTo(F)
       /\ \A h \in DOMAIN e : h # m => f[h] = e[h]
  BY <1>8 DEF Put
<1>11. PICK g : g = Put(f, a, LinkTo(m)) OBVIOUS
<1>12. Run(d, <<HostRename(a, F), HostSymlink(F, m), HostSymlink(m, a)>>) = Well(g)
  <2>1. a \notin DOMAIN f BY <1>3, <1>7, <1>10
  <2>2. Run(d, <<HostRename(a, F), HostSymlink(F, m), HostSymlink(m, a)>>) =
          Done(Well(f), HostSymlink(m, a))
    BY <1>9, RunThree
  <2> QED BY <1>11, <2>1, <2>2, DoneSymlink
<1>13. /\ DOMAIN g = DOMAIN f \cup {a} /\ g[a] = LinkTo(m)
       /\ \A h \in DOMAIN f : h # a => g[h] = f[h]
  BY <1>11 DEF Put
<1>14. Hidden(g, d, n, m, c)
  <2>1. DOMAIN g = DOMAIN d \cup {m, F} BY <1>3, <1>4, <1>7, <1>10, <1>13
  <2>2. g[m] = LinkTo(F) /\ g[F] = d[a] BY <1>3, <1>4, <1>7, <1>10, <1>13
  <2>3. \A h \in DOMAIN d : h # a => g[h] = d[h]
    BY <1>3, <1>4, <1>7, <1>10, <1>13
  <2> QED BY <1>1, <1>13, <2>1, <2>2, <2>3 DEF Hidden
<1>15. g = Well(g).disc /\ Well(g).ok BY DEF Well
<1>16. Run(d, <<HostRename(<<n>>, Fin(m, c)), HostSymlink(Fin(m, c), m),
               HostSymlink(m, <<n>>)>>) = Well(g)
  BY <1>1, <1>2, <1>12
<1> QED BY <1>14, <1>15, <1>16

-----------------------------------------------------------------------------
(* The host's directory d under the names t makes, of which those in L     *)
(* live; q counts the names a file still has.                              *)

(* Behind an intermediate is the final of its file, with the right count.  *)
Holds(d, m, x, c) ==
  /\ m \in DOMAIN d /\ d[m] = LinkTo(Fin(m, c))
  /\ Fin(m, c) \in DOMAIN d /\ d[Fin(m, c)] = Content(x)

(* A name is a file of its own or a link to an intermediate, and this one  *)
(* leads to its file unless the name is gone.                              *)
Plain(d, t, n) ==
  /\ d[At(n)] = Content(t[n])
  /\ \A k \in GuestNames : t[k] = t[n] => k = n
Linked(d, t, L, q, n) ==
  \E m \in Mids : d[At(n)] = LinkTo(m) /\ (n \in L => Holds(d, m, t[n], q[t[n]]))

NamesThere(d, t, L, q) ==
  \A n \in GuestNames :
    /\ At(n) \in DOMAIN d <=> t[n] # NoContent
    /\ t[n] # NoContent => Plain(d, t, n) \/ Linked(d, t, L, q, n)

(* No intermediate without a name, no final without its intermediate: what *)
(* is made for a new link is not there yet.                                *)
MidsLed(d, L) ==
  \A m \in Mids : m \in DOMAIN d => \E n \in L : d[At(n)] = LinkTo(m)
FinsLed(d) ==
  \A m \in Mids, c \in Nat : Fin(m, c) \in DOMAIN d =>
    m \in DOMAIN d /\ d[m] = LinkTo(Fin(m, c))

(* Each content is in one place.                                           *)
OnePlace(d) ==
  \A g, h \in DOMAIN d, x \in Contents :
    d[g] = Content(x) /\ d[h] = Content(x) => g = h

Known(t, L) ==
  /\ t \in [GuestNames -> Contents \cup {NoContent}]
  /\ L \subseteq GuestNames /\ \A n \in L : t[n] # NoContent
  /\ NoContent \notin Contents

Fits(d, t, L, q) ==
  Known(t, L) /\ NamesThere(d, t, L, q) /\ MidsLed(d, L) /\ FinsLed(d) /\ OnePlace(d)

(* q differs from p at x only.                                             *)
Recount(q, p, x) == \A y \in Contents : y # x => q[y] = p[y]

(* What is known of a file that was linked.                                *)
LEMMA LiveLink ==
  ASSUME NEW d, NEW t, NEW L, NEW q, Fits(d, t, L, q), NEW n \in L, NEW m \in Mids,
         d[At(n)] = LinkTo(m)
  PROVE  /\ n \in GuestNames /\ At(n) \in DOMAIN d
         /\ Holds(d, m, t[n], q[t[n]]) /\ t[n] \in Contents
         /\ Leading(d, m, q[t[n]])
         /\ IsFaked(d, n) /\ Middle(d, n) = m /\ ~Broken(d, n)
         /\ ContentOf(d, n) = t[n] /\ Links(d, n) = q[t[n]]
<1>1. n \in GuestNames /\ t[n] # NoContent /\ t[n] \in Contents BY DEF Fits, Known
<1>2. At(n) \in DOMAIN d /\ (Plain(d, t, n) \/ Linked(d, t, L, q, n))
  BY <1>1 DEF Fits, NamesThere
<1>3. ~Plain(d, t, n) BY NodesApart DEF Plain
<1>4. Holds(d, m, t[n], q[t[n]]) BY <1>2, <1>3, NodesApart DEF Linked
<1>5. PICK c : c = q[t[n]] OBVIOUS
<1>7. /\ m \in DOMAIN d /\ d[m] = LinkTo(Fin(m, c))
      /\ Fin(m, c) \in DOMAIN d /\ d[Fin(m, c)] = Content(t[n])
  BY <1>4, <1>5 DEF Holds
<1>8. Leading(d, m, c) BY <1>7 DEF Leading
<1>9. PICK x : x = t[n] OBVIOUS
<1>10. /\ IsFaked(d, n) /\ Middle(d, n) = m /\ ~Broken(d, n)
       /\ ContentOf(d, n) = x /\ Links(d, n) = c
  BY <1>2, <1>7, <1>9, FoundFile
<1> QED BY <1>1, <1>2, <1>4, <1>5, <1>8, <1>9, <1>10

(* The live names of a file share their intermediate, those of different   *)
(* files do not.                                                           *)
LEMMA SameMid ==
  ASSUME NEW d, NEW t, NEW L, NEW q, Fits(d, t, L, q), NEW n \in L, NEW m \in Mids,
         d[At(n)] = LinkTo(m), NEW k \in L, NEW l \in Mids, d[At(k)] = LinkTo(l)
  PROVE  m = l <=> t[n] = t[k]
<1>1. Holds(d, m, t[n], q[t[n]]) /\ Holds(d, l, t[k], q[t[k]]) /\ t[n] \in Contents
  BY LiveLink
<1>2. ASSUME m = l PROVE t[n] = t[k]
  BY <1>1, <1>2, NodesApart DEF Holds
<1>3. ASSUME t[n] = t[k] PROVE m = l
  <2>1. Fin(m, q[t[n]]) = Fin(l, q[t[k]])
    BY <1>1, <1>3 DEF Holds, Fits, OnePlace
  <2> QED BY <2>1, HostsApart
<1> QED BY <1>2, <1>3

(* A name that was not linked.                                             *)
LEMMA PlainName ==
  ASSUME NEW d, NEW t, NEW L, NEW q, Fits(d, t, L, q), NEW n \in GuestNames,
         t[n] # NoContent, ~IsFaked(d, n)
  PROVE  Plain(d, t, n) /\ At(n) \in DOMAIN d /\ t[n] \in Contents
         /\ ContentOf(d, n) = t[n] /\ Links(d, n) = 1
<1>1. At(n) \in DOMAIN d /\ (Plain(d, t, n) \/ Linked(d, t, L, q, n)) /\ t[n] \in Contents
  BY DEF Fits, NamesThere, Known
<1>2. ~Linked(d, t, L, q, n) BY <1>1, FoundLink DEF Linked
<1>3. PICK x : x = t[n] /\ d[At(n)] = Content(x) BY <1>1, <1>2 DEF Plain
<1> QED BY <1>1, <1>2, <1>3, FoundPlain

LEMMA FakedName ==
  ASSUME NEW d, NEW t, NEW L, NEW q, Fits(d, t, L, q), NEW n \in GuestNames, IsFaked(d, n)
  PROVE  /\ t[n] # NoContent /\ t[n] \in Contents
         /\ \E m \in Mids : d[At(n)] = LinkTo(m) /\ Middle(d, n) = m
<1>1. At(n) \in DOMAIN d BY FoundNone
<1>2. t[n] # NoContent /\ (Plain(d, t, n) \/ Linked(d, t, L, q, n)) /\ t[n] \in Contents
  BY <1>1 DEF Fits, NamesThere, Known
<1>3. ~Plain(d, t, n) BY <1>1, FoundPlain DEF Plain
<1>4. PICK m \in Mids : d[At(n)] = LinkTo(m) BY <1>2, <1>3 DEF Linked
<1>5. Middle(d, n) = m BY <1>1, <1>4, FoundLink
<1> QED BY <1>2, <1>4, <1>5

(* An intermediate leads to the file of a live name.                       *)
LEMMA MidHolds ==
  ASSUME NEW d, NEW t, NEW L, NEW q, Fits(d, t, L, q), NEW m \in Mids, m \in DOMAIN d
  PROVE  \E k \in L : d[At(k)] = LinkTo(m) /\ Leading(d, m, q[t[k]]) /\ t[k] \in Contents
<1>1. PICK k \in L : d[At(k)] = LinkTo(m) BY DEF Fits, MidsLed
<1> QED BY <1>1, LiveLink

-----------------------------------------------------------------------------
(* What the calls of a handler leave alone.                                *)
SameAt(e, d, h) == (h \in DOMAIN e <=> h \in DOMAIN d) /\ (h \in DOMAIN d => e[h] = d[h])
SameFile(e, d, l) == SameAt(e, d, l) /\ \A k : SameAt(e, d, Fin(l, k))
OthersSame(e, d, m) == \A l \in Mids : l # m => SameFile(e, d, l)

LEMMA RelabelSame ==
  ASSUME NEW d, NEW e, NEW m \in Mids, m \in DOMAIN d, NEW b, NEW c, Relabeled(e, d, m, b, c),
         Fin(m, b) \in DOMAIN d
  PROVE  (\A n : SameAt(e, d, At(n))) /\ OthersSame(e, d, m)
<1>1. ASSUME NEW n PROVE SameAt(e, d, At(n))
  BY HostsApart DEF Relabeled, SameAt
<1>2. ASSUME NEW l \in Mids, l # m PROVE SameFile(e, d, l)
  <2>1. \A k : Fin(l, k) \notin {Fin(m, b), Fin(m, c), m} BY <1>2, HostsApart
  <2>2. l \notin {Fin(m, b), Fin(m, c), m} BY <1>2, HostsApart
  <2> QED BY <2>1, <2>2 DEF Relabeled, SameFile, SameAt
<1> QED BY <1>1, <1>2 DEF OthersSame

LEMMA DropSame ==
  ASSUME NEW d, NEW e, NEW m \in Mids, NEW b, Dropped(e, d, m, b)
  PROVE  (\A n : SameAt(e, d, At(n))) /\ OthersSame(e, d, m)
<1>1. ASSUME NEW n PROVE SameAt(e, d, At(n))
  BY HostsApart DEF Dropped, SameAt
<1>2. ASSUME NEW l \in Mids, l # m PROVE SameFile(e, d, l)
  <2>1. \A k : Fin(l, k) \notin {Fin(m, b), m} BY <1>2, HostsApart
  <2>2. l \notin {Fin(m, b), m} BY <1>2, HostsApart
  <2> QED BY <2>1, <2>2 DEF Dropped, SameFile, SameAt
<1> QED BY <1>1, <1>2 DEF OthersSame

LEMMA HideSame ==
  ASSUME NEW d, NEW e, NEW n, At(n) \in DOMAIN d, NEW m \in Mids, NEW c,
         Hidden(e, d, n, m, c)
  PROVE  (\A k : k # n => SameAt(e, d, At(k))) /\ OthersSame(e, d, m)
<1>1. ASSUME NEW k, k # n PROVE SameAt(e, d, At(k))
  BY <1>1, HostsApart DEF Hidden, SameAt
<1>2. ASSUME NEW l \in Mids, l # m PROVE SameFile(e, d, l)
  <2>1. \A k : Fin(l, k) \notin {Fin(m, c), m, At(n)} BY <1>2, HostsApart
  <2>2. l \notin {Fin(m, c), m, At(n)} BY <1>2, HostsApart
  <2> QED BY <2>1, <2>2 DEF Hidden, SameFile, SameAt
<1> QED BY <1>1, <1>2 DEF OthersSame

LEMMA HoldsSame ==
  ASSUME NEW d, NEW e, NEW l, SameFile(e, d, l), NEW x, NEW c, Holds(d, l, x, c)
  PROVE  Holds(e, l, x, c)
BY DEF SameFile, SameAt, Holds

(* A final gets another count.                                             *)
LEMMA RelabelFits ==
  ASSUME NEW d, NEW t, NEW L, NEW q, Fits(d, t, L, q), NEW m \in Mids, NEW x \in Contents,
         Holds(d, m, x, q[x]), NEW c \in Nat, NEW e, Relabeled(e, d, m, q[x], c),
         NEW r, Recount(r, q, x), r[x] = c
  PROVE  Fits(e, t, L, r)
<1>1. PICK b : b = q[x] OBVIOUS
<1>2. /\ m \in DOMAIN d /\ d[m] = LinkTo(Fin(m, b))
      /\ Fin(m, b) \in DOMAIN d /\ d[Fin(m, b)] = Content(x)
  BY <1>1 DEF Holds
<1>3. Relabeled(e, d, m, b, c) BY <1>1
<1>4. (\A n : SameAt(e, d, At(n))) /\ OthersSame(e, d, m) BY <1>2, <1>3, RelabelSame
<1>5. /\ m \in DOMAIN e /\ e[m] = LinkTo(Fin(m, c))
      /\ Fin(m, c) \in DOMAIN e /\ e[Fin(m, c)] = Content(x)
  BY <1>2, <1>3, HostsApart DEF Relabeled
<1>6. Holds(e, m, x, c) BY <1>5 DEF Holds
<1>7. NamesThere(e, t, L, r)
  <2>1. ASSUME NEW n \in GuestNames PROVE At(n) \in DOMAIN e <=> t[n] # NoContent
    BY <1>4 DEF SameAt, Fits, NamesThere
  <2>2. ASSUME NEW n \in GuestNames, t[n] # NoContent
        PROVE  Plain(e, t, n) \/ Linked(e, t, L, r, n)
    <3>1. At(n) \in DOMAIN d /\ e[At(n)] = d[At(n)]
      BY <2>2, <1>4 DEF SameAt, Fits, NamesThere
    <3>2. CASE Plain(d, t, n) BY <3>1, <3>2 DEF Plain
    <3>3. CASE Linked(d, t, L, q, n)
      <4>1. PICK l \in Mids : d[At(n)] = LinkTo(l) /\ (n \in L => Holds(d, l, t[n], q[t[n]]))
        BY <3>3 DEF Linked
      <4>2. ASSUME n \in L PROVE Holds(e, l, t[n], r[t[n]])
        <5>1. Holds(d, l, t[n], q[t[n]]) /\ t[n] \in Contents BY <4>1, <4>2, LiveLink
        <5>2. CASE l = m
          <6>0. PICK y, k : y = t[n] /\ k = q[t[n]] OBVIOUS
          <6>1a. d[m] = LinkTo(Fin(m, k)) /\ d[Fin(m, k)] = Content(y)
            BY <5>1, <5>2, <6>0 DEF Holds
          <6>1b. Fin(m, k) = Fin(m, b) BY <6>1a, <1>2, NodesApart
          <6>1. t[n] = x BY <6>0, <6>1a, <6>1b, <1>2, NodesApart
          <6> QED BY <6>1, <5>2, <1>6
        <5>3. CASE l # m
          <6>1. t[n] # x
            <7>1. SUFFICES ASSUME t[n] = x PROVE FALSE OBVIOUS
            <7>2. Fin(l, b) \in DOMAIN d /\ d[Fin(l, b)] = Content(x)
              BY <7>1, <5>1, <1>1 DEF Holds
            <7>3. Fin(l, b) = Fin(m, b) BY <7>2, <1>2 DEF Fits, OnePlace
            <7> QED BY <7>3, <5>3, HostsApart
          <6>2. r[t[n]] = q[t[n]] BY <6>1, <5>1 DEF Recount
          <6>3. SameFile(e, d, l) BY <5>3, <1>4 DEF OthersSame
          <6> QED BY <6>2, <6>3, <5>1, HoldsSame
        <5> QED BY <5>2, <5>3
      <4> QED BY <4>1, <4>2, <3>1 DEF Linked
    <3> QED BY <2>2, <3>2, <3>3 DEF Fits, NamesThere
  <2> QED BY <2>1, <2>2 DEF NamesThere
<1>8. MidsLed(e, L)
  <2>1. ASSUME NEW l \in Mids, l \in DOMAIN e PROVE l \in DOMAIN d
    BY <2>1, <1>2, <1>4 DEF OthersSame, SameFile, SameAt
  <2>2. ASSUME NEW n \in L PROVE e[At(n)] = d[At(n)]
    BY <1>4 DEF SameAt, Fits, NamesThere, Known
  <2> QED BY <2>1, <2>2 DEF MidsLed, Fits
<1>9. FinsLed(e)
  <2>1. ASSUME NEW l \in Mids, NEW k \in Nat, Fin(l, k) \in DOMAIN e
        PROVE  l \in DOMAIN e /\ e[l] = LinkTo(Fin(l, k))
    <3>1. CASE l = m
      <4>1. CASE Fin(m, k) \in DOMAIN d
        <5>1. Fin(m, k) = Fin(m, b) BY <4>1, <1>2, NodesApart DEF Fits, FinsLed
        <5> QED BY <5>1, <3>1, <2>1, <1>3, <1>5 DEF Relabeled
      <4>2. CASE Fin(m, k) \notin DOMAIN d BY <4>2, <3>1, <2>1, <1>3, <1>5 DEF Relabeled
      <4> QED BY <4>1, <4>2
    <3>2. CASE l # m
      <4>1. SameAt(e, d, l) /\ SameAt(e, d, Fin(l, k)) BY <3>2, <1>4 DEF OthersSame, SameFile
      <4> QED BY <4>1, <2>1 DEF SameAt, Fits, FinsLed
    <3> QED BY <3>1, <3>2
  <2> QED BY <2>1 DEF FinsLed
<1>10. OnePlace(e)
  <2>1. ASSUME NEW h \in DOMAIN e, NEW y \in Contents, e[h] = Content(y)
        PROVE  \/ h = Fin(m, c) /\ y = x
               \/ h \in DOMAIN d /\ d[h] = Content(y) /\ h # Fin(m, b)
    <3>1. h # m BY <2>1, <1>5, NodesApart
    <3>2. CASE h = Fin(m, c) BY <3>2, <2>1, <1>5, NodesApart
    <3>3. CASE h # Fin(m, c)
      <4>1. h \in DOMAIN d /\ h # Fin(m, b) BY <3>3, <1>3 DEF Relabeled
      <4> QED BY <4>1, <3>1, <3>3, <2>1, <1>3 DEF Relabeled
    <3> QED BY <3>2, <3>3
  <2>2. ASSUME NEW h \in DOMAIN d, d[h] = Content(x) PROVE h = Fin(m, b)
    BY <2>2, <1>2 DEF Fits, OnePlace
  <2>3. ASSUME NEW g \in DOMAIN e, NEW h \in DOMAIN e, NEW y \in Contents,
               e[g] = Content(y), e[h] = Content(y)
        PROVE  g = h
    BY <2>1, <2>2, <2>3 DEF Fits, OnePlace
  <2> QED BY <2>3 DEF OnePlace
<1> QED BY <1>7, <1>8, <1>9, <1>10 DEF Fits

(* A directory that differs in one name.                                   *)
NamesOnly(e, d) == (\A l \in Mids : SameFile(e, d, l))

Named(e, d, n, node) ==
  /\ NamesOnly(e, d) /\ DOMAIN e = DOMAIN d \cup {At(n)} /\ e[At(n)] = node
  /\ \A h \in DOMAIN d : h # At(n) => e[h] = d[h]
Unnamed(e, d, n) ==
  /\ NamesOnly(e, d) /\ DOMAIN e = DOMAIN d \ {At(n)}
  /\ \A h \in DOMAIN e : e[h] = d[h]

LEMMA PutSame ==
  ASSUME NEW d, NEW n, NEW node, NEW e, e = Put(d, At(n), node)
  PROVE  Named(e, d, n, node)
<1>2. /\ DOMAIN e = DOMAIN d \cup {At(n)} /\ e[At(n)] = node
      /\ \A h \in DOMAIN d : h # At(n) => e[h] = d[h]
  BY DEF Put
<1>3. ASSUME NEW l \in Mids PROVE SameFile(e, d, l)
  <2>1. l # At(n) /\ \A k : Fin(l, k) # At(n) BY HostsApart
  <2> QED BY <2>1, <1>2 DEF SameFile, SameAt
<1> QED BY <1>2, <1>3 DEF NamesOnly, Named

LEMMA ExceptSame ==
  ASSUME NEW d, NEW n, NEW e, e = Except(d, At(n))
  PROVE  Unnamed(e, d, n)
<1>2. DOMAIN e = DOMAIN d \ {At(n)} /\ \A h \in DOMAIN e : e[h] = d[h]
  BY DEF Except
<1>3. ASSUME NEW l \in Mids PROVE SameFile(e, d, l)
  <2>1. l # At(n) /\ \A k : Fin(l, k) # At(n) BY HostsApart
  <2> QED BY <2>1, <1>2 DEF SameFile, SameAt
<1> QED BY <1>2, <1>3 DEF NamesOnly, Unnamed

LEMMA FinsSame ==
  ASSUME NEW d, NEW e, NamesOnly(e, d), FinsLed(d)
  PROVE  FinsLed(e)
BY DEF NamesOnly, SameFile, SameAt, FinsLed

(* A new file.                                                             *)
LEMMA NewFileFits ==
  ASSUME NEW d, NEW t, NEW L, NEW q, Fits(d, t, L, q), NEW n \in GuestNames,
         t[n] = NoContent, NEW x \in Contents, x \notin {t[k] : k \in GuestNames},
         \A h \in DOMAIN d : d[h] # Content(x), NEW r, Recount(r, q, x)
  PROVE  Fits(Put(d, At(n), Content(x)), [t EXCEPT ![n] = x], L \cup {n}, r)
<1>1. PICK e : e = Put(d, At(n), Content(x)) OBVIOUS
<1>2. PICK u : u = [t EXCEPT ![n] = x] OBVIOUS
<1>3. PICK K : K = L \cup {n} OBVIOUS
<1>4. /\ NamesOnly(e, d) /\ DOMAIN e = DOMAIN d \cup {At(n)} /\ e[At(n)] = Content(x)
      /\ \A h \in DOMAIN d : h # At(n) => e[h] = d[h]
  <2>1. Named(e, d, n, Content(x)) BY <1>1, PutSame, Zenon
  <2> QED BY <2>1 DEF Named
<1>5. /\ t \in [GuestNames -> Contents \cup {NoContent}] /\ L \subseteq GuestNames
      /\ (\A k \in L : t[k] # NoContent) /\ NoContent \notin Contents
  BY DEF Fits, Known
<1>6. u[n] = x /\ \A k \in GuestNames : k # n => u[k] = t[k] BY <1>2, <1>5
<1>7. At(n) \notin DOMAIN d /\ n \notin L BY <1>5 DEF Fits, NamesThere
<1>8. Known(u, K) BY <1>2, <1>3, <1>5, <1>6 DEF Known
<1>9. NamesThere(e, u, K, r)
  <2>1. ASSUME NEW k \in GuestNames, k # n
        PROVE  /\ At(k) \in DOMAIN e <=> u[k] # NoContent
               /\ u[k] # NoContent => Plain(e, u, k) \/ Linked(e, u, K, r, k)
    <3>1. At(k) # At(n) BY <2>1, HostsApart
    <3>2. At(k) \in DOMAIN e <=> u[k] # NoContent
      BY <2>1, <3>1, <1>4, <1>6 DEF Fits, NamesThere
    <3>3. ASSUME u[k] # NoContent PROVE Plain(e, u, k) \/ Linked(e, u, K, r, k)
      <4>1. u[k] = t[k] /\ e[At(k)] = d[At(k)] /\ t[k] # x /\ t[k] \in Contents
        BY <3>1, <3>2, <3>3, <2>1, <1>4, <1>5, <1>6
      <4>2. CASE Plain(d, t, k) BY <4>1, <4>2, <1>6 DEF Plain
      <4>3. CASE Linked(d, t, L, q, k)
        <5>1. PICK l \in Mids : d[At(k)] = LinkTo(l) /\ (k \in L => Holds(d, l, t[k], q[t[k]]))
          BY <4>3 DEF Linked
        <5>2. r[t[k]] = q[t[k]] BY <4>1 DEF Recount
        <5>3. k \in L => Holds(e, l, u[k], r[u[k]])
          BY <5>1, <5>2, <4>1, <1>4, HoldsSame DEF NamesOnly
        <5> QED BY <5>1, <5>3, <4>1, <1>3, <2>1 DEF Linked
      <4> QED BY <3>3, <4>1, <4>2, <4>3 DEF Fits, NamesThere
    <3> QED BY <3>2, <3>3
  <2>2. At(n) \in DOMAIN e /\ u[n] # NoContent BY <1>4, <1>5, <1>6
  <2>3. Plain(e, u, n)
    <3>1. ASSUME NEW k \in GuestNames, u[k] = u[n] PROVE k = n BY <3>1, <1>6
    <3> QED BY <3>1, <1>4, <1>6 DEF Plain
  <2> QED BY <2>1, <2>2, <2>3 DEF NamesThere
<1>10. MidsLed(e, K)
  <2>1. ASSUME NEW l \in Mids, l \in DOMAIN e PROVE \E k \in K : e[At(k)] = LinkTo(l)
    <3>1. l \in DOMAIN d BY <2>1, <1>4, HostsApart
    <3>2. PICK k \in L : d[At(k)] = LinkTo(l) BY <3>1 DEF Fits, MidsLed
    <3>3. At(k) # At(n) /\ At(k) \in DOMAIN d BY <3>2, <1>7, LiveLink, HostsApart
    <3> QED BY <3>2, <3>3, <1>3, <1>4
  <2> QED BY <2>1 DEF MidsLed
<1>11. FinsLed(e) BY <1>4, FinsSame DEF Fits
<1>12. OnePlace(e)
  <2>1. ASSUME NEW h \in DOMAIN e, NEW y \in Contents, e[h] = Content(y)
        PROVE  \/ h = At(n) /\ y = x
               \/ h \in DOMAIN d /\ d[h] = Content(y) /\ y # x
    BY <2>1, <1>4, NodesApart
  <2> QED BY <2>1 DEF OnePlace, Fits
<1> QED BY <1>1, <1>2, <1>3, <1>8, <1>9, <1>10, <1>11, <1>12 DEF Fits

(* Another name of a linked file.                                          *)
LEMMA AddNameFits ==
  ASSUME NEW d, NEW t, NEW L, NEW q, Fits(d, t, L, q), NEW n \in L, NEW m \in Mids,
         d[At(n)] = LinkTo(m), NEW new \in GuestNames, t[new] = NoContent
  PROVE  Fits(Put(d, At(new), LinkTo(m)), [t EXCEPT ![new] = t[n]], L \cup {new}, q)
<1>1. PICK e : e = Put(d, At(new), LinkTo(m)) OBVIOUS
<1>2. PICK u : u = [t EXCEPT ![new] = t[n]] OBVIOUS
<1>3. PICK K : K = L \cup {new} OBVIOUS
<1>4. /\ NamesOnly(e, d) /\ DOMAIN e = DOMAIN d \cup {At(new)} /\ e[At(new)] = LinkTo(m)
      /\ \A h \in DOMAIN d : h # At(new) => e[h] = d[h]
  <2>1. Named(e, d, new, LinkTo(m)) BY <1>1, PutSame, Zenon
  <2> QED BY <2>1 DEF Named
<1>5. /\ t \in [GuestNames -> Contents \cup {NoContent}] /\ L \subseteq GuestNames
      /\ (\A k \in L : t[k] # NoContent) /\ NoContent \notin Contents
  BY DEF Fits, Known
<1>6. u[new] = t[n] /\ \A k \in GuestNames : k # new => u[k] = t[k] BY <1>2, <1>5
<1>7. At(new) \notin DOMAIN d /\ new \notin L BY <1>5 DEF Fits, NamesThere
<1>8. Known(u, K)
  <2>1. u \in [GuestNames -> Contents \cup {NoContent}] BY <1>2, <1>5
  <2> QED BY <2>1, <1>3, <1>5, <1>6 DEF Known
<1>9. NamesThere(e, u, K, q)
  <2>1. ASSUME NEW k \in GuestNames, k # new
        PROVE  /\ At(k) \in DOMAIN e <=> u[k] # NoContent
               /\ u[k] # NoContent => Plain(e, u, k) \/ Linked(e, u, K, q, k)
    <3>1. At(k) # At(new) BY <2>1, HostsApart
    <3>2. At(k) \in DOMAIN e <=> u[k] # NoContent
      BY <2>1, <3>1, <1>4, <1>6 DEF Fits, NamesThere
    <3>3. ASSUME u[k] # NoContent PROVE Plain(e, u, k) \/ Linked(e, u, K, q, k)
      <4>1. u[k] = t[k] /\ e[At(k)] = d[At(k)]
        BY <3>1, <3>2, <3>3, <2>1, <1>4, <1>5, <1>6
      <4>2. CASE Plain(d, t, k)
        <5>1. t[n] # t[k] BY <4>2, <1>5, NodesApart DEF Plain
        <5> QED BY <5>1, <4>1, <4>2, <1>6 DEF Plain
      <4>3. CASE Linked(d, t, L, q, k)
        <5>1. PICK l \in Mids : d[At(k)] = LinkTo(l) /\ (k \in L => Holds(d, l, t[k], q[t[k]]))
          BY <4>3 DEF Linked
        <5>3. k \in L => Holds(e, l, u[k], q[u[k]])
          BY <5>1, <4>1, <1>4, HoldsSame DEF NamesOnly
        <5> QED BY <5>1, <5>3, <4>1, <1>3, <2>1 DEF Linked
      <4> QED BY <3>3, <4>1, <4>2, <4>3 DEF Fits, NamesThere
    <3> QED BY <3>2, <3>3
  <2>2. At(new) \in DOMAIN e /\ u[new] # NoContent BY <1>4, <1>5, <1>6
  <2>3. Linked(e, u, K, q, new)
    <3>1. Holds(d, m, t[n], q[t[n]]) BY LiveLink
    <3>2. Holds(e, m, t[n], q[t[n]]) BY <3>1, <1>4, HoldsSame DEF NamesOnly
    <3> QED BY <3>2, <1>4, <1>6 DEF Linked
  <2> QED BY <2>1, <2>2, <2>3 DEF NamesThere
<1>10. MidsLed(e, K)
  <2>1. ASSUME NEW l \in Mids, l \in DOMAIN e PROVE \E k \in K : e[At(k)] = LinkTo(l)
    <3>1. l \in DOMAIN d BY <2>1, <1>4, HostsApart
    <3>2. PICK k \in L : d[At(k)] = LinkTo(l) BY <3>1 DEF Fits, MidsLed
    <3>3. At(k) # At(new) /\ At(k) \in DOMAIN d BY <3>2, <1>7, LiveLink, HostsApart
    <3> QED BY <3>2, <3>3, <1>3, <1>4
  <2> QED BY <2>1 DEF MidsLed
<1>11. FinsLed(e) BY <1>4, FinsSame DEF Fits
<1>12. OnePlace(e)
  <2>1. ASSUME NEW h \in DOMAIN e, NEW y \in Contents, e[h] = Content(y)
        PROVE  h \in DOMAIN d /\ d[h] = Content(y)
    BY <2>1, <1>4, NodesApart
  <2> QED BY <2>1 DEF OnePlace, Fits
<1> QED BY <1>1, <1>2, <1>3, <1>8, <1>9, <1>10, <1>11, <1>12 DEF Fits

(* A file is moved behind an intermediate.                                 *)
LEMMA HideFits ==
  ASSUME NEW d, NEW t, NEW L, NEW q, Fits(d, t, L, q), NEW n \in L, Plain(d, t, n),
         NEW m \in Mids, m \notin DOMAIN d, NEW c \in Nat, NEW e, Hidden(e, d, n, m, c),
         NEW r, Recount(r, q, t[n]), r[t[n]] = c
  PROVE  Fits(e, t, L, r)
<1>1. /\ t \in [GuestNames -> Contents \cup {NoContent}] /\ L \subseteq GuestNames
      /\ (\A k \in L : t[k] # NoContent) /\ NoContent \notin Contents
  BY DEF Fits, Known
<1>2. PICK x : x = t[n] OBVIOUS
<1>3. /\ n \in GuestNames /\ x \in Contents /\ At(n) \in DOMAIN d /\ d[At(n)] = Content(x)
      /\ \A k \in GuestNames : t[k] = x => k = n
  BY <1>1, <1>2 DEF Plain, Fits, NamesThere
<1>4. (\A k : k # n => SameAt(e, d, At(k))) /\ OthersSame(e, d, m) BY <1>3, HideSame
<1>5. /\ DOMAIN e = DOMAIN d \cup {m, Fin(m, c)}
      /\ e[At(n)] = LinkTo(m) /\ e[m] = LinkTo(Fin(m, c)) /\ e[Fin(m, c)] = Content(x)
      /\ \A h \in DOMAIN d : h # At(n) => e[h] = d[h]
  BY <1>3 DEF Hidden
<1>6. Holds(e, m, x, c) BY <1>5 DEF Holds
<1>7. NamesThere(e, t, L, r)
  <2>1. ASSUME NEW k \in GuestNames, k # n
        PROVE  /\ At(k) \in DOMAIN e <=> t[k] # NoContent
               /\ t[k] # NoContent => Plain(e, t, k) \/ Linked(e, t, L, r, k)
    <3>1. SameAt(e, d, At(k)) BY <2>1, <1>4
    <3>2. At(k) \in DOMAIN e <=> t[k] # NoContent
      BY <3>1 DEF SameAt, Fits, NamesThere
    <3>3. ASSUME t[k] # NoContent PROVE Plain(e, t, k) \/ Linked(e, t, L, r, k)
      <4>1. e[At(k)] = d[At(k)] /\ t[k] # x /\ t[k] \in Contents
        BY <3>1, <3>2, <3>3, <2>1, <1>1, <1>3 DEF SameAt
      <4>2. CASE Plain(d, t, k) BY <4>1, <4>2 DEF Plain
      <4>3. CASE Linked(d, t, L, q, k)
        <5>1. PICK l \in Mids : d[At(k)] = LinkTo(l) /\ (k \in L => Holds(d, l, t[k], q[t[k]]))
          BY <4>3 DEF Linked
        <5>2. r[t[k]] = q[t[k]] BY <4>1, <1>2 DEF Recount
        <5>3. ASSUME k \in L PROVE Holds(e, l, t[k], r[t[k]])
          <6>1. Holds(d, l, t[k], q[t[k]]) BY <5>1, <5>3
          <6>2. l # m BY <6>1 DEF Holds
          <6> QED BY <6>1, <6>2, <5>2, <1>4, HoldsSame DEF OthersSame
        <5> QED BY <5>1, <5>3, <4>1 DEF Linked
      <4> QED BY <3>3, <4>2, <4>3 DEF Fits, NamesThere
    <3> QED BY <3>2, <3>3
  <2>2. At(n) \in DOMAIN e /\ t[n] # NoContent BY <1>1, <1>3, <1>5
  <2>3. Linked(e, t, L, r, n) BY <1>2, <1>5, <1>6 DEF Linked
  <2> QED BY <2>1, <2>2, <2>3 DEF NamesThere
<1>8. MidsLed(e, L)
  <2>1. ASSUME NEW l \in Mids, l \in DOMAIN e PROVE \E k \in L : e[At(k)] = LinkTo(l)
    <3>1. CASE l = m BY <3>1, <1>5
    <3>2. CASE l # m
      <4>1. l \in DOMAIN d BY <3>2, <2>1, <1>4 DEF OthersSame, SameFile, SameAt
      <4>2. PICK k \in L : d[At(k)] = LinkTo(l) BY <4>1 DEF Fits, MidsLed
      <4>3. k # n /\ At(k) \in DOMAIN d BY <4>2, <1>3, LiveLink, NodesApart
      <4>4. e[At(k)] = d[At(k)] BY <4>3, <1>4 DEF SameAt
      <4> QED BY <4>2, <4>4
    <3> QED BY <3>1, <3>2
  <2> QED BY <2>1 DEF MidsLed
<1>9. FinsLed(e)
  <2>1. ASSUME NEW l \in Mids, NEW k \in Nat, Fin(l, k) \in DOMAIN e
        PROVE  l \in DOMAIN e /\ e[l] = LinkTo(Fin(l, k))
    <3>1. CASE l = m
      <4>1. Fin(m, k) \notin DOMAIN d BY DEF Fits, FinsLed
      <4>2. Fin(m, k) = Fin(m, c) BY <4>1, <3>1, <2>1, <1>5, HostsApart
      <4> QED BY <4>2, <3>1, <1>5
    <3>2. CASE l # m
      <4>1. SameAt(e, d, l) /\ SameAt(e, d, Fin(l, k)) BY <3>2, <1>4 DEF OthersSame, SameFile
      <4> QED BY <4>1, <2>1 DEF SameAt, Fits, FinsLed
    <3> QED BY <3>1, <3>2
  <2> QED BY <2>1 DEF FinsLed
<1>10. OnePlace(e)
  <2>1. ASSUME NEW h \in DOMAIN e, NEW y \in Contents, e[h] = Content(y)
        PROVE  \/ h = Fin(m, c) /\ y = x
               \/ h \in DOMAIN d /\ d[h] = Content(y) /\ h # At(n)
    <3>1. h # m /\ h # At(n) BY <2>1, <1>5, NodesApart
    <3>2. CASE h = Fin(m, c) BY <3>2, <2>1, <1>5, NodesApart
    <3>3. CASE h # Fin(m, c) BY <3>1, <3>3, <2>1, <1>5
    <3> QED BY <3>2, <3>3
  <2>2. ASSUME NEW h \in DOMAIN d, d[h] = Content(x) PROVE h = At(n)
    BY <2>2, <1>3 DEF Fits, OnePlace
  <2>3. ASSUME NEW g \in DOMAIN e, NEW h \in DOMAIN e, NEW y \in Contents,
               e[g] = Content(y), e[h] = Content(y)
        PROVE  g = h
    BY <2>1, <2>2, <2>3 DEF Fits, OnePlace
  <2> QED BY <2>3 DEF OnePlace
<1> QED BY <1>7, <1>8, <1>9, <1>10 DEF Fits

(* A name is gone for the guest: another leads to its intermediate, or it  *)
(* led to none.                                                            *)
LEMMA ForgetFits ==
  ASSUME NEW d, NEW t, NEW L, NEW q, Fits(d, t, L, q), NEW n \in L,
         NEW r, Recount(r, q, t[n]),
         Plain(d, t, n) \/ (r[t[n]] = q[t[n]] /\ \E k \in L : k # n /\ d[At(k)] = d[At(n)])
  PROVE  Fits(d, t, L \ {n}, r)
<1>1. /\ t \in [GuestNames -> Contents \cup {NoContent}] /\ L \subseteq GuestNames
      /\ (\A k \in L : t[k] # NoContent) /\ NoContent \notin Contents
  BY DEF Fits, Known
<1>2. PICK K : K = L \ {n} OBVIOUS
<1>3. Known(t, K) BY <1>1, <1>2 DEF Known
<1>4. NamesThere(d, t, K, r)
  <2>1. ASSUME NEW k \in GuestNames, t[k] # NoContent
        PROVE  Plain(d, t, k) \/ Linked(d, t, K, r, k)
    <3>1. CASE Linked(d, t, L, q, k)
      <4>1. PICK l \in Mids : d[At(k)] = LinkTo(l) /\ (k \in L => Holds(d, l, t[k], q[t[k]]))
        BY <3>1 DEF Linked
      <4>2. ASSUME k \in K PROVE r[t[k]] = q[t[k]]
        <5>1. k # n /\ t[k] \in Contents BY <4>2, <1>1, <1>2
        <5>2. CASE t[k] # t[n] BY <5>1, <5>2 DEF Recount
        <5>3. CASE t[k] = t[n] BY <5>1, <5>3 DEF Plain
        <5> QED BY <5>2, <5>3
      <4> QED BY <4>1, <4>2, <1>2 DEF Linked
    <3> QED BY <2>1, <3>1 DEF Fits, NamesThere
  <2> QED BY <2>1 DEF Fits, NamesThere
<1>5. MidsLed(d, K)
  <2>1. ASSUME NEW l \in Mids, l \in DOMAIN d PROVE \E k \in K : d[At(k)] = LinkTo(l)
    <3>1. PICK k \in L : d[At(k)] = LinkTo(l) BY <2>1 DEF Fits, MidsLed
    <3>2. CASE k # n BY <3>1, <3>2, <1>2
    <3>3. CASE k = n
      <4>1. ~Plain(d, t, n) BY <3>1, <3>3, NodesApart DEF Plain
      <4> QED BY <4>1, <3>1, <3>3, <1>2
    <3> QED BY <3>2, <3>3
  <2> QED BY <2>1 DEF MidsLed
<1> QED BY <1>2, <1>3, <1>4, <1>5 DEF Fits

(* The last name of a file, and the file.                                  *)
LEMMA DropFits ==
  ASSUME NEW d, NEW t, NEW L, NEW q, Fits(d, t, L, q), NEW n \in L, NEW m \in Mids,
         d[At(n)] = LinkTo(m), \A k \in L : t[k] = t[n] => k = n,
         NEW e, Dropped(e, d, m, q[t[n]]), NEW r, Recount(r, q, t[n])
  PROVE  Fits(e, t, L \ {n}, r)
<1>1. /\ t \in [GuestNames -> Contents \cup {NoContent}] /\ L \subseteq GuestNames
      /\ (\A k \in L : t[k] # NoContent) /\ NoContent \notin Contents
  BY DEF Fits, Known
<1>2. PICK K : K = L \ {n} OBVIOUS
<1>3. PICK b : b = q[t[n]] OBVIOUS
<1>4. Dropped(e, d, m, b) BY <1>3
<1>5. (\A k : SameAt(e, d, At(k))) /\ OthersSame(e, d, m) BY <1>4, DropSame
<1>6. DOMAIN e = DOMAIN d \ {m, Fin(m, b)} /\ \A h \in DOMAIN e : e[h] = d[h]
  BY <1>4 DEF Dropped
<1>7. m \in DOMAIN d /\ d[m] = LinkTo(Fin(m, b)) BY <1>3, LiveLink DEF Holds
<1>8. Known(t, K) BY <1>1, <1>2 DEF Known
<1>9. NamesThere(e, t, K, r)
  <2>1. ASSUME NEW k \in GuestNames, t[k] # NoContent
        PROVE  Plain(e, t, k) \/ Linked(e, t, K, r, k)
    <3>1. At(k) \in DOMAIN d /\ e[At(k)] = d[At(k)] /\ t[k] \in Contents
      BY <2>1, <1>1, <1>5 DEF SameAt, Fits, NamesThere
    <3>2. CASE Plain(d, t, k) BY <3>1, <3>2 DEF Plain
    <3>3. CASE Linked(d, t, L, q, k)
      <4>1. PICK l \in Mids : d[At(k)] = LinkTo(l) /\ (k \in L => Holds(d, l, t[k], q[t[k]]))
        BY <3>3 DEF Linked
      <4>2. ASSUME k \in K PROVE Holds(e, l, t[k], r[t[k]])
        <5>1. k \in L /\ k # n /\ t[k] # t[n] BY <4>2, <1>2
        <5>2. l # m BY <5>1, <4>1, SameMid
        <5>3. r[t[k]] = q[t[k]] BY <5>1, <3>1 DEF Recount
        <5> QED BY <5>1, <5>2, <5>3, <4>1, <1>5, HoldsSame DEF OthersSame
      <4> QED BY <4>1, <4>2, <3>1 DEF Linked
    <3> QED BY <2>1, <3>2, <3>3 DEF Fits, NamesThere
  <2>2. ASSUME NEW k \in GuestNames PROVE At(k) \in DOMAIN e <=> t[k] # NoContent
    BY <1>5 DEF SameAt, Fits, NamesThere
  <2> QED BY <2>1, <2>2 DEF NamesThere
<1>10. MidsLed(e, K)
  <2>1. ASSUME NEW l \in Mids, l \in DOMAIN e PROVE \E k \in K : e[At(k)] = LinkTo(l)
    <3>1. l # m /\ l \in DOMAIN d BY <2>1, <1>6
    <3>2. PICK k \in L : d[At(k)] = LinkTo(l) BY <3>1 DEF Fits, MidsLed
    <3>3. k # n BY <3>1, <3>2, NodesApart
    <3>4. e[At(k)] = d[At(k)] BY <3>2, <1>5, LiveLink DEF SameAt
    <3> QED BY <3>2, <3>3, <3>4, <1>2
  <2> QED BY <2>1 DEF MidsLed
<1>11. FinsLed(e)
  <2>1. ASSUME NEW l \in Mids, NEW k \in Nat, Fin(l, k) \in DOMAIN e
        PROVE  l \in DOMAIN e /\ e[l] = LinkTo(Fin(l, k))
    <3>1. Fin(l, k) \in DOMAIN d /\ Fin(l, k) # Fin(m, b) BY <2>1, <1>6
    <3>2. l \in DOMAIN d /\ d[l] = LinkTo(Fin(l, k)) BY <3>1 DEF Fits, FinsLed
    <3>3. l # m BY <3>1, <3>2, <1>7, NodesApart
    <3>4. SameAt(e, d, l) BY <3>3, <1>5 DEF OthersSame, SameFile
    <3> QED BY <3>2, <3>4 DEF SameAt
  <2> QED BY <2>1 DEF FinsLed
<1>12. OnePlace(e) BY <1>6 DEF Fits, OnePlace
<1> QED BY <1>2, <1>8, <1>9, <1>10, <1>11, <1>12 DEF Fits

(* The kernel removes a name that is gone.                                 *)
LEMMA RemoveFits ==
  ASSUME NEW d, NEW t, NEW L, NEW q, Fits(d, t, L, q), NEW n \in GuestNames, n \notin L
  PROVE  Fits(Except(d, At(n)), [t EXCEPT ![n] = NoContent], L, q)
<1>1. PICK e : e = Except(d, At(n)) OBVIOUS
<1>2. PICK u : u = [t EXCEPT ![n] = NoContent] OBVIOUS
<1>3. NamesOnly(e, d) /\ DOMAIN e = DOMAIN d \ {At(n)} /\ \A h \in DOMAIN e : e[h] = d[h]
  <2>1. Unnamed(e, d, n) BY <1>1, ExceptSame, Zenon
  <2> QED BY <2>1 DEF Unnamed
<1>4. /\ t \in [GuestNames -> Contents \cup {NoContent}] /\ L \subseteq GuestNames
      /\ (\A k \in L : t[k] # NoContent) /\ NoContent \notin Contents
  BY DEF Fits, Known
<1>5. u[n] = NoContent /\ \A k \in GuestNames : k # n => u[k] = t[k] BY <1>2, <1>4
<1>6. Known(u, L) BY <1>2, <1>4, <1>5 DEF Known
<1>7. NamesThere(e, u, L, q)
  <2>1. ASSUME NEW k \in GuestNames, k # n
        PROVE  /\ At(k) \in DOMAIN e <=> u[k] # NoContent
               /\ u[k] # NoContent => Plain(e, u, k) \/ Linked(e, u, L, q, k)
    <3>1. At(k) # At(n) BY <2>1, HostsApart
    <3>2. At(k) \in DOMAIN e <=> u[k] # NoContent
      BY <2>1, <3>1, <1>3, <1>5 DEF Fits, NamesThere
    <3>3. ASSUME u[k] # NoContent PROVE Plain(e, u, k) \/ Linked(e, u, L, q, k)
      <4>1. u[k] = t[k] /\ e[At(k)] = d[At(k)]
        BY <3>2, <3>3, <2>1, <1>3, <1>5
      <4>2. CASE Plain(d, t, k) BY <3>3, <4>1, <4>2, <1>5 DEF Plain
      <4>3. CASE Linked(d, t, L, q, k)
        <5>1. PICK l \in Mids : d[At(k)] = LinkTo(l) /\ (k \in L => Holds(d, l, t[k], q[t[k]]))
          BY <4>3 DEF Linked
        <5>3. k \in L => Holds(e, l, u[k], q[u[k]])
          BY <5>1, <4>1, <1>3, HoldsSame DEF NamesOnly
        <5> QED BY <5>1, <5>3, <4>1 DEF Linked
      <4> QED BY <3>3, <4>1, <4>2, <4>3 DEF Fits, NamesThere
    <3> QED BY <3>2, <3>3
  <2>2. At(n) \notin DOMAIN e /\ u[n] = NoContent BY <1>3, <1>5
  <2> QED BY <2>1, <2>2 DEF NamesThere
<1>8. MidsLed(e, L)
  <2>1. ASSUME NEW l \in Mids, l \in DOMAIN e PROVE \E k \in L : e[At(k)] = LinkTo(l)
    <3>1. PICK k \in L : d[At(k)] = LinkTo(l) BY <2>1, <1>3 DEF Fits, MidsLed
    <3>2. At(k) # At(n) /\ At(k) \in DOMAIN d BY <3>1, LiveLink, HostsApart
    <3> QED BY <3>1, <3>2, <1>3
  <2> QED BY <2>1 DEF MidsLed
<1>9. FinsLed(e) BY <1>3, FinsSame DEF Fits
<1>10. OnePlace(e) BY <1>3 DEF Fits, OnePlace
<1> QED BY <1>1, <1>2, <1>6, <1>7, <1>8, <1>9, <1>10 DEF Fits

(* Two names change places, and one of them may be of nothing.             *)
Other(a, b, k) == IF k = a THEN b ELSE IF k = b THEN a ELSE k
SwappedAt(e, d, g, h) == (g \in DOMAIN e <=> h \in DOMAIN d) /\ (h \in DOMAIN d => e[g] = d[h])
Swapped(e, d, a, b) ==
  /\ NamesOnly(e, d)
  /\ \A k \in GuestNames : SwappedAt(e, d, At(k), At(Other(a, b, k)))
  /\ \A h \in DOMAIN e : h \notin {At(a), At(b)} => h \in DOMAIN d /\ e[h] = d[h]

LEMMA SwapFits ==
  ASSUME NEW d, NEW t, NEW L, NEW q, Fits(d, t, L, q), NEW a \in GuestNames, NEW b \in GuestNames,
         NEW e, Swapped(e, d, a, b),
         NEW u, u = [k \in GuestNames |-> t[Other(a, b, k)]],
         NEW K, K = {k \in GuestNames : Other(a, b, k) \in L}
  PROVE  Fits(e, u, K, q)
<1>1. /\ t \in [GuestNames -> Contents \cup {NoContent}] /\ L \subseteq GuestNames
      /\ (\A k \in L : t[k] # NoContent) /\ NoContent \notin Contents
  BY DEF Fits, Known
<1>2. ASSUME NEW k \in GuestNames
      PROVE  Other(a, b, k) \in GuestNames /\ Other(a, b, Other(a, b, k)) = k
  BY DEF Other
<1>3. ASSUME NEW k \in GuestNames PROVE u[k] = t[Other(a, b, k)] OBVIOUS
<1>4. Known(u, K)
  <2>1. u \in [GuestNames -> Contents \cup {NoContent}] BY <1>1, <1>2
  <2> QED BY <2>1, <1>1, <1>2, <1>3 DEF Known
<1>5. NamesThere(e, u, K, q)
  <2>1. ASSUME NEW k \in GuestNames
        PROVE  /\ At(k) \in DOMAIN e <=> u[k] # NoContent
               /\ u[k] # NoContent => Plain(e, u, k) \/ Linked(e, u, K, q, k)
    <3>1. PICK j \in GuestNames : j = Other(a, b, k) BY <1>2
    <3>2. u[k] = t[j] /\ (k \in K <=> j \in L) BY <3>1, <1>3
    <3>3. SwappedAt(e, d, At(k), At(j)) BY <3>1 DEF Swapped
    <3>4. At(k) \in DOMAIN e <=> u[k] # NoContent
      BY <3>2, <3>3 DEF SwappedAt, Fits, NamesThere
    <3>5. ASSUME u[k] # NoContent PROVE Plain(e, u, k) \/ Linked(e, u, K, q, k)
      <4>1. At(j) \in DOMAIN d /\ e[At(k)] = d[At(j)]
        BY <3>2, <3>3, <3>4, <3>5 DEF SwappedAt
      <4>2. CASE Plain(d, t, j)
        <5>1. ASSUME NEW i \in GuestNames, u[i] = u[k] PROVE i = k
          <6>1. t[Other(a, b, i)] = t[j] BY <5>1, <1>3, <3>2
          <6>2. Other(a, b, i) = Other(a, b, k) BY <6>1, <4>2, <3>1, <1>2 DEF Plain
          <6> QED BY <6>2, <1>2
        <5> QED BY <5>1, <4>1, <4>2, <3>2 DEF Plain
      <4>3. CASE Linked(d, t, L, q, j)
        <5>1. PICK l \in Mids : d[At(j)] = LinkTo(l) /\ (j \in L => Holds(d, l, t[j], q[t[j]]))
          BY <4>3 DEF Linked
        <5>3. k \in K => Holds(e, l, u[k], q[u[k]])
          BY <5>1, <3>2, HoldsSame DEF Swapped, NamesOnly
        <5> QED BY <5>1, <5>3, <4>1 DEF Linked
      <4> QED BY <3>2, <3>5, <4>2, <4>3 DEF Fits, NamesThere
    <3> QED BY <3>4, <3>5
  <2> QED BY <2>1 DEF NamesThere
<1>6. MidsLed(e, K)
  <2>1. ASSUME NEW l \in Mids, l \in DOMAIN e PROVE \E k \in K : e[At(k)] = LinkTo(l)
    <3>1. l \in DOMAIN d BY <2>1 DEF Swapped, NamesOnly, SameFile, SameAt
    <3>2. PICK j \in L : d[At(j)] = LinkTo(l) BY <3>1 DEF Fits, MidsLed
    <3>3. j \in GuestNames /\ At(j) \in DOMAIN d BY <3>2, LiveLink
    <3>4. PICK k \in GuestNames : k = Other(a, b, j) BY <3>3, <1>2
    <3>5. Other(a, b, k) = j BY <3>3, <3>4, <1>2
    <3>6. SwappedAt(e, d, At(k), At(j)) BY <3>5 DEF Swapped
    <3> QED BY <3>2, <3>3, <3>5, <3>6 DEF SwappedAt
  <2> QED BY <2>1 DEF MidsLed
<1>7. FinsLed(e) BY FinsSame DEF Fits, Swapped
<1>8. OnePlace(e)
  <2>1. ASSUME NEW k \in GuestNames, At(k) \in DOMAIN e
        PROVE  LET j == Other(a, b, k)
               IN  j \in GuestNames /\ At(j) \in DOMAIN d /\ e[At(k)] = d[At(j)]
    BY <2>1, <1>2 DEF Swapped, SwappedAt
  <2>2. ASSUME NEW h \in DOMAIN e, NEW y \in Contents, e[h] = Content(y)
        PROVE  \/ h = At(a) /\ At(b) \in DOMAIN d /\ d[At(b)] = Content(y)
               \/ h = At(b) /\ At(a) \in DOMAIN d /\ d[At(a)] = Content(y)
               \/ h \notin {At(a), At(b)} /\ h \in DOMAIN d /\ d[h] = Content(y)
    <3>1. CASE h = At(a) BY <3>1, <2>1, <2>2 DEF Other
    <3>2. CASE h = At(b) BY <3>2, <2>1, <2>2 DEF Other
    <3>3. CASE h \notin {At(a), At(b)} BY <3>3, <2>2 DEF Swapped
    <3> QED BY <3>1, <3>2, <3>3
  <2>3. ASSUME NEW g \in DOMAIN e, NEW h \in DOMAIN e, NEW y \in Contents,
               e[g] = Content(y), e[h] = Content(y)
        PROVE  g = h
    <3>1. \A v, w \in DOMAIN d : d[v] = Content(y) /\ d[w] = Content(y) => v = w
      BY DEF Fits, OnePlace
    <3>2. PICK v \in DOMAIN d : d[v] = Content(y) BY <2>2, <2>3
    <3> QED BY <3>1, <2>2, <2>3
  <2> QED BY <2>3 DEF OnePlace
<1> QED BY <1>4, <1>5, <1>6, <1>7, <1>8 DEF Fits

-----------------------------------------------------------------------------
(* The names a file still has, which its final counts.                     *)
Names(t, L, x) == {n \in L : t[n] = x}
Counts(q, t, L) == \A x \in Contents : q[x] = Cardinality(Names(t, L, x))

LEMMA CountType ==
  ASSUME Few, NEW t, NEW L, L \subseteq GuestNames, NEW x
  PROVE  /\ IsFiniteSet(Names(t, L, x)) /\ Cardinality(Names(t, L, x)) \in Nat
         /\ Cardinality(Names(t, L, x)) + 1 < CountBase
         /\ \A n \in L : t[n] = x => Cardinality(Names(t, L, x)) > 0
<1>1. Names(t, L, x) \in SUBSET GuestNames BY DEF Names
<1>2. IsFiniteSet(Names(t, L, x)) /\ Cardinality(Names(t, L, x)) <= Cardinality(GuestNames)
  BY <1>1, FS_Subset DEF Few
<1>3. Cardinality(GuestNames) \in Nat /\ Cardinality(Names(t, L, x)) \in Nat
  BY <1>2, FS_CardinalityType DEF Few
<1>4. ASSUME NEW n \in L, t[n] = x PROVE Cardinality(Names(t, L, x)) # 0
  <2>1. n \in Names(t, L, x) BY <1>4 DEF Names
  <2> QED BY <2>1, <1>2, FS_EmptySet
<1> QED BY <1>2, <1>3, <1>4 DEF Few

\* The counts the code has to keep: q, for names that are few.
Good(d, t, L, q) == Fits(d, t, L, q) /\ Counts(q, t, L)

LEMMA GoodCount ==
  ASSUME Few, NEW d, NEW t, NEW L, NEW q, Good(d, t, L, q), NEW n \in L
  PROVE  /\ n \in GuestNames /\ t[n] \in Contents
         /\ q[t[n]] \in Nat /\ q[t[n]] > 0 /\ q[t[n]] + 1 < CountBase
<1>1. L \subseteq GuestNames /\ t[n] \in Contents BY DEF Good, Fits, Known
<1>2. PICK x : x = t[n] OBVIOUS
<1>3. PICK c : c = Cardinality(Names(t, L, x)) OBVIOUS
<1>4. c \in Nat /\ c > 0 /\ c + 1 < CountBase BY <1>1, <1>2, <1>3, CountType
<1>5. q[x] = c BY <1>1, <1>2, <1>3 DEF Good, Counts
<1> QED BY <1>1, <1>2, <1>4, <1>5

(* One name more, and one less.                                            *)
LEMMA CountNew ==
  ASSUME Few, NEW t, NEW L, L \subseteq GuestNames, NEW n \in GuestNames, n \notin L,
         NEW q, Counts(q, t, L), NEW x \in Contents, NEW u,
         u[n] = x, \A k \in L : u[k] = t[k], NEW r, Recount(r, q, x), r[x] = q[x] + 1
  PROVE  Counts(r, u, L \cup {n})
<1>1. ASSUME NEW y \in Contents, y # x PROVE r[y] = Cardinality(Names(u, L \cup {n}, y))
  <2>1. Names(u, L \cup {n}, y) = Names(t, L, y) BY <1>1 DEF Names
  <2> QED BY <2>1, <1>1 DEF Recount, Counts
<1>2. r[x] = Cardinality(Names(u, L \cup {n}, x))
  <2>1. Names(u, L \cup {n}, x) = Names(t, L, x) \cup {n} BY DEF Names
  <2>2. n \notin Names(t, L, x) BY DEF Names
  <2>3. IsFiniteSet(Names(t, L, x)) BY CountType
  <2>4. Cardinality(Names(t, L, x) \cup {n}) = Cardinality(Names(t, L, x)) + 1
    BY <2>2, <2>3, FS_AddElement
  <2>5. q[x] = Cardinality(Names(t, L, x)) BY DEF Counts
  <2> QED BY <2>1, <2>4, <2>5
<1> QED BY <1>1, <1>2 DEF Counts

LEMMA CountLess ==
  ASSUME Few, NEW t, NEW L, L \subseteq GuestNames, NEW n \in L, t[n] \in Contents,
         NEW q, Counts(q, t, L), NEW r, Recount(r, q, t[n]), r[t[n]] = q[t[n]] - 1
  PROVE  Counts(r, t, L \ {n})
<1> DEFINE x == t[n]
<1>1. ASSUME NEW y \in Contents, y # x PROVE r[y] = Cardinality(Names(t, L \ {n}, y))
  <2>1. Names(t, L \ {n}, y) = Names(t, L, y) BY <1>1 DEF Names
  <2> QED BY <2>1, <1>1 DEF Recount, Counts
<1>2. r[x] = Cardinality(Names(t, L \ {n}, x))
  <2>1. Names(t, L \ {n}, x) = Names(t, L, x) \ {n} BY DEF Names
  <2>2. n \in Names(t, L, x) BY DEF Names
  <2>3. IsFiniteSet(Names(t, L, x)) BY CountType
  <2>4. Cardinality(Names(t, L, x) \ {n}) = Cardinality(Names(t, L, x)) - 1
    BY <2>2, <2>3, FS_RemoveElement
  <2>5. q[x] = Cardinality(Names(t, L, x)) BY DEF Counts
  <2> QED BY <2>1, <2>4, <2>5
<1> QED BY <1>1, <1>2 DEF Counts

(* One name for another.                                                   *)
LEMMA CountSwap ==
  ASSUME Few, NEW t, NEW L, L \subseteq GuestNames, NEW a \in GuestNames, NEW b \in GuestNames,
         NEW q, Counts(q, t, L), NEW u, u = [k \in GuestNames |-> t[Other(a, b, k)]],
         NEW K, K = {k \in GuestNames : Other(a, b, k) \in L}
  PROVE  Counts(q, u, K)
<1>1. ASSUME NEW x PROVE Cardinality(Names(u, K, x)) = Cardinality(Names(t, L, x))
  <2>1. PICK S : S = Names(t, L, x) OBVIOUS
  <2>2. PICK T : T = Names(u, K, x) OBVIOUS
  <2>3. \A k \in GuestNames : k \in T <=> Other(a, b, k) \in S
    BY <2>1, <2>2 DEF Names, Other
  <2>4. S \subseteq GuestNames /\ T \subseteq GuestNames /\ IsFiniteSet(S)
    <3>1. S \subseteq GuestNames /\ T \subseteq GuestNames BY <2>1, <2>2 DEF Names
    <3>2. IsFiniteSet(S) BY <2>1, CountType
    <3> QED BY <3>1, <3>2
  <2>5. CASE a \in S /\ b \notin S /\ a # b
    <3>1. T = (S \ {a}) \cup {b} BY <2>3, <2>4, <2>5 DEF Other
    <3>2. IsFiniteSet(S \ {a}) /\ Cardinality(S \ {a}) = Cardinality(S) - 1
      BY <2>4, <2>5, FS_RemoveElement
    <3>3. Cardinality(T) = Cardinality(S \ {a}) + 1 BY <3>1, <3>2, <2>5, FS_AddElement
    <3>4. Cardinality(S) \in Nat BY <2>4, FS_CardinalityType
    <3> QED BY <3>2, <3>3, <3>4, <2>1, <2>2
  <2>6. CASE b \in S /\ a \notin S /\ a # b
    <3>1. T = (S \ {b}) \cup {a} BY <2>3, <2>4, <2>6 DEF Other
    <3>2. IsFiniteSet(S \ {b}) /\ Cardinality(S \ {b}) = Cardinality(S) - 1
      BY <2>4, <2>6, FS_RemoveElement
    <3>3. Cardinality(T) = Cardinality(S \ {b}) + 1 BY <3>1, <3>2, <2>6, FS_AddElement
    <3>4. Cardinality(S) \in Nat BY <2>4, FS_CardinalityType
    <3> QED BY <3>2, <3>3, <3>4, <2>1, <2>2
  <2>7. CASE (a \in S <=> b \in S) \/ a = b
    <3>1. T = S BY <2>3, <2>4, <2>7 DEF Other
    <3> QED BY <3>1, <2>1, <2>2
  <2> QED BY <2>5, <2>6, <2>7
<1> QED BY <1>1 DEF Counts

(* A name has an intermediate that is free: there are more numbers than    *)
(* names that could have taken them.                                       *)
LEMMA SuffixFree ==
  ASSUME Few, NEW d, NEW t, NEW L, NEW q, Fits(d, t, L, q), NEW n \in GuestNames, Plain(d, t, n)
  PROVE  LET m == <<n, FreeSuffix(d, n)>>
         IN  m \in Mids /\ m \notin DOMAIN d /\ \A c \in Nat : Fin(m, c) \notin DOMAIN d
<1> DEFINE leads(k) == <<n, k>> \in DOMAIN d /\ d[<<n, k>>].link \in DOMAIN d
           free == {k \in 1..MaxSuffix : ~leads(k)}
<1>1. MaxSuffix \in Nat /\ IsFiniteSet(GuestNames) /\ Cardinality(GuestNames) <= MaxSuffix
  BY DEF Few
<1>2. ASSUME NEW k \in 1..MaxSuffix
      PROVE  /\ <<n, k>> \in Mids
             /\ <<n, k>> \in DOMAIN d => leads(k) /\ \E j \in L : j # n /\ d[At(j)] = LinkTo(<<n, k>>)
  <2>1. <<n, k>> \in Mids BY DEF Mids
  <2>2. ASSUME <<n, k>> \in DOMAIN d
        PROVE  leads(k) /\ \E j \in L : j # n /\ d[At(j)] = LinkTo(<<n, k>>)
    <3>1. PICK m : m = <<n, k>> OBVIOUS
    <3>2. PICK j \in L : d[At(j)] = LinkTo(m) /\ Leading(d, m, q[t[j]])
      BY <2>1, <2>2, <3>1, MidHolds
    <3>3. d[m].link \in DOMAIN d BY <3>2, NodesApart DEF Leading
    <3>4. j # n BY <3>2, NodesApart DEF Plain
    <3> QED BY <3>1, <3>2, <3>3, <3>4, <2>2
  <2> QED BY <2>1, <2>2
<1>3. free # {}
  <2>1. SUFFICES ASSUME free = {} PROVE FALSE OBVIOUS
  <2>2. ASSUME NEW k \in 1..MaxSuffix
        PROVE  \E j \in GuestNames \ {n} : d[At(j)] = LinkTo(<<n, k>>)
    <3>1. <<n, k>> \in DOMAIN d BY <2>1, <2>2
    <3>2. L \subseteq GuestNames BY DEF Fits, Known
    <3> QED BY <3>1, <3>2, <1>2, <2>2
  <2>3. PICK f : f = [k \in 1..MaxSuffix |-> CHOOSE j \in GuestNames \ {n} : d[At(j)] = LinkTo(<<n, k>>)]
    OBVIOUS
  <2>4. ASSUME NEW k \in 1..MaxSuffix
        PROVE  f[k] \in GuestNames \ {n} /\ d[At(f[k])] = LinkTo(<<n, k>>)
    BY <2>2, <2>3, <2>4
  <2>5. f \in [1..MaxSuffix -> GuestNames \ {n}] BY <2>3, <2>4
  <2>6. IsFiniteSet(1..MaxSuffix) /\ Cardinality(1..MaxSuffix) = MaxSuffix
    BY <1>1, FS_Interval
  <2>7. /\ IsFiniteSet(GuestNames \ {n})
        /\ Cardinality(GuestNames \ {n}) = Cardinality(GuestNames) - 1
    BY <1>1, FS_RemoveElement
  <2>8. Cardinality(GuestNames) \in Nat BY <1>1, FS_CardinalityType
  <2>9. Cardinality(GuestNames \ {n}) < Cardinality(1..MaxSuffix) BY <1>1, <2>6, <2>7, <2>8
  <2>10. PICK k, j \in 1..MaxSuffix : k # j /\ f[k] = f[j]
    BY <2>5, <2>6, <2>7, <2>9, FS_PigeonHole, Zenon
  <2>11. <<n, k>> = <<n, j>>
    <3>1. PICK v, w : v = <<n, k>> /\ w = <<n, j>> OBVIOUS
    <3>2. LinkTo(v) = LinkTo(w) BY <2>4, <2>10, <3>1
    <3> QED BY <3>1, <3>2, NodesApart
  <2> QED BY <2>10, <2>11
<1>4. PICK k \in free : \A j \in free : k <= j
  <2>1. free \subseteq Nat BY <1>1
  <2> HIDE DEF free
  <2> QED BY <2>1, <1>3, LeastElement
<1>5. FreeSuffix(d, n) \in free
  <2>1. FreeSuffix(d, n) = CHOOSE i \in free : \A j \in free : i <= j
    BY <1>3 DEF FreeSuffix
  <2> HIDE DEF free
  <2> QED BY <1>4, <2>1
<1>6. PICK i \in 1..MaxSuffix : i = FreeSuffix(d, n) /\ ~leads(i) BY <1>5
<1>7. <<n, i>> \in Mids /\ <<n, i>> \notin DOMAIN d BY <1>2, <1>6
<1> QED BY <1>6, <1>7 DEF Fits, FinsLed

-----------------------------------------------------------------------------
(* What the handlers leave.                                                *)
Counting(q, x, c) == [y \in Contents |-> IF y = x THEN c ELSE q[y]]

LEMMA CountingIs ==
  ASSUME NEW q, NEW x \in Contents, NEW c
  PROVE  Recount(Counting(q, x, c), q, x) /\ Counting(q, x, c)[x] = c
BY DEF Counting, Recount

Calls(a) == \E S : a \in Seq(S)

Works(d, a) == Run(d, a).ok
Follows(d, a, b) == Run(d, a \o b) = Run(Run(d, a).disc, b)

LEMMA RunBoth ==
  ASSUME NEW d, NEW a, NEW b, Calls(a), Calls(b), Works(d, a)
  PROVE  Follows(d, a, b)
<1>1. PICK S : a \in Seq(S) BY DEF Calls
<1>2. PICK T : b \in Seq(T) BY DEF Calls
<1>3. a \in Seq(S \cup T) /\ b \in Seq(S \cup T) BY <1>1, <1>2
<1> QED BY <1>3, RunThen DEF Works, Follows

LEMMA FewCalls ==
  /\ \A o : Calls(<<o>>)
  /\ \A o1, o2, o3 : Calls(<<o1, o2, o3>>)
<1>1. ASSUME NEW o PROVE Calls(<<o>>)
  <2>1. <<o>> \in Seq({o}) OBVIOUS
  <2> QED BY <2>1 DEF Calls
<1>2. ASSUME NEW o1, NEW o2, NEW o3 PROVE Calls(<<o1, o2, o3>>)
  <2>1. <<o1, o2, o3>> \in Seq({o1, o2, o3}) OBVIOUS
  <2> QED BY <2>1 DEF Calls
<1> QED BY <1>1, <1>2

LEMMA LiveKind ==
  ASSUME NEW d, NEW t, NEW L, NEW q, Fits(d, t, L, q), NEW n \in L
  PROVE  Plain(d, t, n) \/ \E m \in Mids : d[At(n)] = LinkTo(m)
BY DEF Fits, Known, NamesThere, Linked

\* decrement_link_count() takes one name away.
LEMMA DecrementFits ==
  ASSUME Few, NEW d, NEW t, NEW L, NEW q, Good(d, t, L, q), NEW n \in L,
         NEW s, s = Run(d, DecrementOps(d, n))
  PROVE  /\ s.ok /\ \A k : SameAt(s.disc, d, At(k))
         /\ Good(s.disc, t, L \ {n}, Counting(q, t[n], q[t[n]] - 1))
<1>1. Fits(d, t, L, q) /\ Counts(q, t, L) BY DEF Good
<1>2. PICK x : x = t[n] OBVIOUS
<1>3. PICK c : c = q[x] OBVIOUS
<1>4. PICK r : r = Counting(q, x, c - 1) OBVIOUS
<1>5. n \in GuestNames /\ x \in Contents /\ c \in Nat /\ c > 0 /\ c + 1 < CountBase
  BY <1>2, <1>3, GoodCount
<1>6. Recount(r, q, x) /\ r[x] = c - 1 BY <1>4, <1>5, CountingIs
<1>7. L \subseteq GuestNames BY <1>1 DEF Fits, Known
<1>8. Counts(r, t, L \ {n}) BY <1>1, <1>2, <1>3, <1>5, <1>6, <1>7, CountLess
<1>9. CountBase \in Nat BY DEF Few
<1>10. SUFFICES s.ok /\ (\A k : SameAt(s.disc, d, At(k))) /\ Fits(s.disc, t, L \ {n}, r)
  BY <1>2, <1>3, <1>4, <1>8 DEF Good
<1>11. CASE Plain(d, t, n)
  <2>1. At(n) \in DOMAIN d BY <1>1, <1>2, <1>5 DEF Fits, Known, NamesThere
  <2>2. ~IsFaked(d, n) BY <1>11, <2>1, FoundPlain DEF Plain
  <2>3. s = [disc |-> d, ok |-> TRUE] BY <2>2, RunNone DEF DecrementOps
  <2>4. s.ok /\ s.disc = d BY <2>3
  <2>5. Fits(d, t, L \ {n}, r) BY <1>1, <1>2, <1>6, <1>11, ForgetFits
  <2> QED BY <2>4, <2>5 DEF SameAt
<1>12. CASE \E m \in Mids : d[At(n)] = LinkTo(m)
  <2>1. PICK m \in Mids : d[At(n)] = LinkTo(m) BY <1>12
  <2>2. /\ Holds(d, m, x, c) /\ Leading(d, m, c)
        /\ IsFaked(d, n) /\ Middle(d, n) = m /\ ~Broken(d, n) /\ Links(d, n) = c
    BY <1>1, <1>2, <1>3, <2>1, LiveLink
  <2>3. CASE c > 1
    <3>1. DecrementOps(d, n) = Renumber(d, m, c - 1) BY <2>2, <2>3 DEF DecrementOps
    <3>2. PICK b \in Nat : b = c - 1 BY <1>5
    <3>3. c # b /\ b < CountBase BY <1>5, <1>9, <3>2
    <3>4. PICK e : e = s.disc OBVIOUS
    <3>5. s.ok /\ Relabeled(e, d, m, c, b)
      BY <1>9, <2>2, <3>1, <3>2, <3>3, <3>4, RenumberRuns
    <3>6. Fits(e, t, L, r) BY <1>1, <1>3, <1>5, <1>6, <2>1, <2>2, <3>2, <3>5, RelabelFits
    <3>7. \A k : SameAt(e, d, At(k)) BY <2>2, <3>5, RelabelSame DEF Holds
    <3>8. PICK k \in L : k # n /\ t[k] = x
      <4>1. PICK N : N = Names(t, L, x) OBVIOUS
      <4>2. IsFiniteSet(N) /\ Cardinality(N) = c
        BY <1>1, <1>3, <1>5, <1>7, <4>1, CountType DEF Counts
      <4>3. N # {n} BY <4>2, <2>3, FS_Singleton
      <4>4. n \in N BY <4>1, <1>2 DEF Names
      <4> QED BY <4>1, <4>3, <4>4 DEF Names
    <3>9. PICK l \in Mids : d[At(k)] = LinkTo(l)
      <4>1. ~Plain(d, t, k) BY <1>2, <1>5, <3>8 DEF Plain
      <4> QED BY <4>1, <1>1, LiveKind
    <3>10. d[At(k)] = d[At(n)]
      <4>1. m = l BY <1>1, <1>2, <2>1, <3>8, <3>9, SameMid
      <4> QED BY <4>1, <2>1, <3>9
    <3>11. e[At(k)] = e[At(n)]
      BY <1>1, <2>1, <3>7, <3>9, <3>10, LiveLink DEF SameAt
    <3>12. Fits(e, t, L \ {n}, r)
      <4>1. Recount(r, r, t[n]) BY DEF Recount
      <4>2. r[t[n]] = r[t[n]] /\ \E j \in L : j # n /\ e[At(j)] = e[At(n)] BY <3>8, <3>11
      <4> QED BY <3>6, <4>1, <4>2, ForgetFits
    <3> QED BY <3>4, <3>5, <3>7, <3>12
  <2>4. CASE ~(c > 1)
    <3>1. c = 1 BY <1>5, <2>4
    <3>2. DecrementOps(d, n) = <<HostUnlink(m), HostUnlink(d[m].link)>>
      BY <2>2, <2>4 DEF DecrementOps
    <3>3. d[m].link = Fin(m, c) BY <2>2, NodesApart DEF Leading
    <3>4. PICK e : e = s.disc OBVIOUS
    <3>5. s.ok /\ Dropped(e, d, m, c) BY <2>2, <3>2, <3>3, <3>4, DropRuns
    <3>6. \A k \in L : t[k] = x => k = n
      <4>1. PICK N : N = Names(t, L, x) OBVIOUS
      <4>2. IsFiniteSet(N) /\ Cardinality(N) = 1
        BY <1>1, <1>3, <1>5, <1>7, <3>1, <4>1, CountType DEF Counts
      <4>3. \E k : N = {k} BY <4>2, FS_Singleton
      <4>4. n \in N BY <4>1, <1>2 DEF Names
      <4> QED BY <4>1, <4>3, <4>4 DEF Names
    <3>7. Fits(e, t, L \ {n}, r) BY <1>1, <1>2, <1>3, <1>6, <2>1, <3>5, <3>6, DropFits
    <3>8. \A k : SameAt(e, d, At(k)) BY <3>5, DropSame
    <3> QED BY <3>4, <3>5, <3>7, <3>8
  <2> QED BY <2>3, <2>4
<1> QED BY <1>1, <1>11, <1>12, LiveKind

\* A name that leads to nothing leaves nothing to count.
LEMMA DecrementNothing ==
  ASSUME NEW d, NEW n, ~IsFaked(d, n)
  PROVE  Run(d, DecrementOps(d, n)) = [disc |-> d, ok |-> TRUE]
BY RunNone DEF DecrementOps

\* move_and_symlink_path(), up to the new name: the file has its intermediate, and one
\* name more is counted.
LEMMA MoveFits ==
  ASSUME Few, NEW d, NEW t, NEW L, NEW q, Good(d, t, L, q), NEW n \in L,
         NEW s, s = Run(d, MoveOps(d, n))
  PROVE  /\ s.ok /\ \A k : k # n => SameAt(s.disc, d, At(k))
         /\ Fits(s.disc, t, L, Counting(q, t[n], q[t[n]] + 1))
         /\ \E m \in Mids : s.disc[At(n)] = LinkTo(m)
         /\ \E o1, o2, o3 : MoveOps(d, n) = <<o1, o2, o3>>
<1>1. Fits(d, t, L, q) /\ Counts(q, t, L) BY DEF Good
<1>2. PICK x : x = t[n] OBVIOUS
<1>3. PICK c : c = q[x] OBVIOUS
<1>4. PICK r : r = Counting(q, x, c + 1) OBVIOUS
<1>5. n \in GuestNames /\ x \in Contents /\ c \in Nat /\ c > 0 /\ c + 1 < CountBase
  BY <1>2, <1>3, GoodCount
<1>6. Recount(r, q, x) /\ r[x] = c + 1 BY <1>4, <1>5, CountingIs
<1>7. CountBase \in Nat BY DEF Few
<1>8. PICK e : e = s.disc OBVIOUS
<1>9. SUFFICES /\ s.ok /\ (\A k : k # n => SameAt(e, d, At(k))) /\ Fits(e, t, L, r)
               /\ \E m \in Mids : e[At(n)] = LinkTo(m)
               /\ \E o1, o2, o3 : MoveOps(d, n) = <<o1, o2, o3>>
  BY <1>2, <1>3, <1>4, <1>8
<1>10. CASE \E m \in Mids : d[At(n)] = LinkTo(m)
  <2>1. PICK m \in Mids : d[At(n)] = LinkTo(m) BY <1>10
  <2>2. /\ Holds(d, m, x, c) /\ Leading(d, m, c) /\ At(n) \in DOMAIN d
        /\ IsFaked(d, n) /\ Middle(d, n) = m /\ ~Broken(d, n) /\ Links(d, n) = c
    BY <1>1, <1>2, <1>3, <2>1, LiveLink
  <2>3. PICK b \in Nat : b = c + 1 BY <1>5
  <2>4. c # b /\ b < CountBase BY <1>5, <1>7, <2>3
  <2>5. MoveOps(d, n) = Renumber(d, m, b) BY <2>2, <2>3 DEF MoveOps
  <2>6. s.ok /\ Relabeled(e, d, m, c, b) BY <1>7, <1>8, <2>2, <2>4, <2>5, RenumberRuns
  <2>7. Fits(e, t, L, r) BY <1>1, <1>3, <1>5, <1>6, <2>1, <2>2, <2>3, <2>6, RelabelFits
  <2>8. \A k : SameAt(e, d, At(k)) BY <2>2, <2>6, RelabelSame DEF Holds
  <2>9. e[At(n)] = LinkTo(m) BY <2>1, <2>2, <2>8 DEF SameAt
  <2>10. \E o1, o2, o3 : MoveOps(d, n) = <<o1, o2, o3>> BY <2>5 DEF Renumber
  <2> QED BY <2>6, <2>7, <2>8, <2>9, <2>10
<1>11. CASE Plain(d, t, n)
  <2>1. At(n) \in DOMAIN d BY <1>1, <1>2, <1>5 DEF Fits, Known, NamesThere
  <2>2. ~IsFaked(d, n) BY <1>11, <2>1, FoundPlain DEF Plain
  <2>3. PICK m : m = <<n, FreeSuffix(d, n)>> OBVIOUS
  <2>4. m \in Mids /\ m \notin DOMAIN d /\ Fin(m, 2) \notin DOMAIN d
    BY <1>1, <1>5, <1>11, <2>3, SuffixFree
  <2>5. c = 1
    <3>1. PICK N : N = Names(t, L, x) OBVIOUS
    <3>2. N = {n} BY <1>1, <1>2, <1>11, <3>1 DEF Names, Plain, Fits, Known
    <3>3. c = Cardinality(N) BY <1>1, <1>3, <1>5, <3>1 DEF Counts
    <3> QED BY <3>2, <3>3, FS_Singleton
  <2>6. PICK F : F = Fin(m, 2) OBVIOUS
  <2>7. MoveOps(d, n) = <<HostRename(<<n>>, F), HostSymlink(F, m), HostSymlink(m, <<n>>)>>
    <3>1. Counted(Append(m, 0), 2) = F BY <1>5, <1>7, <2>4, <2>5, <2>6, CountedFin
    <3> QED BY <2>2, <2>3, <3>1 DEF MoveOps
  <2>8. s.ok /\ Hidden(e, d, n, m, 2) BY <1>8, <2>1, <2>4, <2>6, <2>7, HideRuns
  <2>9. r[t[n]] = 2 /\ Recount(r, q, t[n]) BY <1>2, <1>6, <2>5
  <2>10. Fits(e, t, L, r) BY <1>1, <1>11, <2>4, <2>8, <2>9, HideFits
  <2>11. \A k : k # n => SameAt(e, d, At(k)) BY <2>1, <2>4, <2>8, HideSame
  <2>12. e[At(n)] = LinkTo(m) BY <2>8 DEF Hidden
  <2>13. \E o1, o2, o3 : MoveOps(d, n) = <<o1, o2, o3>> BY <2>7
  <2> QED BY <2>4, <2>8, <2>10, <2>11, <2>12, <2>13
<1> QED BY <1>1, <1>10, <1>11, LiveKind

\* link(): there is a name more, or nothing but the way to the file has changed.
LinkLeaves(s, d, t, L, q, old, new) ==
  /\ s.ok /\ \A k : k \notin {old, new} => SameAt(s.disc, d, At(k))
  /\ At(new) \in DOMAIN d => Good(s.disc, t, L, q)
  /\ At(new) \notin DOMAIN d =>
       Good(s.disc, [t EXCEPT ![new] = t[old]], L \cup {new},
            Counting(q, t[old], q[t[old]] + 1))

LEMMA LinkFits ==
  ASSUME Few, NEW d, NEW t, NEW L, NEW q, Good(d, t, L, q), NEW old \in L,
         NEW new \in GuestNames, new # old, NEW s, s = Run(d, LinkOps(d, old, new))
  PROVE  LinkLeaves(s, d, t, L, q, old, new)
<1>1. Fits(d, t, L, q) /\ Counts(q, t, L) BY DEF Good
<1>2. PICK x : x = t[old] OBVIOUS
<1>3. PICK c : c = q[x] OBVIOUS
<1>4. PICK r : r = Counting(q, x, c + 1) OBVIOUS
<1>5. old \in GuestNames /\ x \in Contents /\ c \in Nat /\ c > 0 /\ c + 1 < CountBase
  BY <1>2, <1>3, GoodCount
<1>6. Recount(r, q, x) /\ r[x] = c + 1 BY <1>4, <1>5, CountingIs
<1>7. CountBase \in Nat BY DEF Few
<1>8. PICK v : v = Run(d, MoveOps(d, old)) OBVIOUS
<1>9. PICK e : e = v.disc OBVIOUS
<1>10. /\ v.ok /\ (\A k : k # old => SameAt(e, d, At(k))) /\ Fits(e, t, L, r)
       /\ \E m \in Mids : e[At(old)] = LinkTo(m)
       /\ \E o1, o2, o3 : MoveOps(d, old) = <<o1, o2, o3>>
  BY <1>2, <1>3, <1>4, <1>8, <1>9, MoveFits
<1>11. PICK m \in Mids : e[At(old)] = LinkTo(m) BY <1>10
<1>12. PICK b \in Nat : b = c + 1 BY <1>5
<1>13. /\ Holds(e, m, x, b) /\ Leading(e, m, b) /\ At(old) \in DOMAIN e
       /\ IsFaked(e, old) /\ Middle(e, old) = m /\ ~Broken(e, old) /\ Links(e, old) = b
  BY <1>2, <1>6, <1>10, <1>11, <1>12, LiveLink
<1>14. PICK A : A = MoveOps(d, old) OBVIOUS
<1>14a. Calls(A) BY <1>10, <1>14, FewCalls
<1>14b. Works(d, A) /\ Run(d, A).disc = e BY <1>8, <1>9, <1>10, <1>14 DEF Works
<1>15. SameAt(e, d, At(new)) BY <1>10
<1>16. CASE At(new) \in DOMAIN d
  <2>1. <<new>> \in DOMAIN e BY <1>15, <1>16 DEF SameAt, At
  <2>2. PICK B : B = DecrementOps(e, old) OBVIOUS
  <2>3. LinkOps(d, old, new) = MoveOps(d, old) \o B
    BY <1>8, <1>9, <1>10, <2>1, <2>2 DEF LinkOps
  <2>4. B = Renumber(e, m, c)
    <3>1. b > 1 /\ b - 1 = c BY <1>5, <1>12
    <3> QED BY <2>2, <3>1, <1>13 DEF DecrementOps
  <2>5. Calls(B) BY <2>4, FewCalls DEF Renumber
  <2>6. s = Run(e, B)
    <3>1. Follows(d, A, B) BY <1>14a, <1>14b, <2>5, RunBoth, Zenon
    <3> QED BY <1>14, <1>14b, <2>3, <3>1 DEF Follows
  <2>7. b # c /\ c < CountBase BY <1>5, <1>7, <1>12
  <2>8. PICK f : f = s.disc OBVIOUS
  <2>9. s.ok /\ Relabeled(f, e, m, b, c)
    BY <1>5, <1>7, <1>13, <2>4, <2>6, <2>7, <2>8, RenumberRuns
  <2>10. Fits(f, t, L, q)
    <3>1. Recount(q, r, x) BY <1>6 DEF Recount
    <3> QED BY <1>3, <1>5, <1>6, <1>10, <1>12, <1>13, <2>9, <3>1, RelabelFits
  <2>11. \A k : SameAt(f, e, At(k)) BY <1>13, <2>9, RelabelSame DEF Holds
  <2>12. \A k : k \notin {old, new} => SameAt(f, d, At(k)) BY <1>10, <2>11 DEF SameAt
  <2> QED BY <1>1, <1>16, <2>8, <2>9, <2>10, <2>12 DEF Good, LinkLeaves
<1>17. CASE At(new) \notin DOMAIN d
  <2>1. At(new) \notin DOMAIN e /\ <<new>> = At(new) BY <1>15, <1>17 DEF SameAt, At
  <2>2. PICK o : o = HostSymlink(m, At(new)) OBVIOUS
  <2>3. LinkOps(d, old, new) = MoveOps(d, old) \o <<o>>
    BY <1>8, <1>9, <1>10, <1>13, <2>1, <2>2 DEF LinkOps
  <2>4. Calls(<<o>>) BY FewCalls
  <2>5. s = Run(e, <<o>>)
    <3>1. Follows(d, A, <<o>>) BY <1>14a, <1>14b, <2>4, RunBoth, Zenon
    <3> QED BY <1>14, <1>14b, <2>3, <3>1 DEF Follows
  <2>6. PICK f : f = Put(e, At(new), LinkTo(m)) OBVIOUS
  <2>7. s = Well(f)
    <3>1. s = Done(Well(e), o) BY <2>5, RunOne DEF Well
    <3> QED BY <2>1, <2>2, <2>6, <3>1, DoneSymlink
  <2>8. s.ok /\ s.disc = f BY <2>7 DEF Well
  <2>9. PICK u : u = [t EXCEPT ![new] = x] OBVIOUS
  <2>10. t[new] = NoContent /\ new \notin L BY <1>1, <1>17 DEF Fits, Known, NamesThere
  <2>11. Fits(f, u, L \cup {new}, r)
    BY <1>2, <1>10, <1>11, <2>6, <2>9, <2>10, AddNameFits
  <2>12. Counts(r, u, L \cup {new})
    <3>1. L \subseteq GuestNames /\ u[new] = x /\ \A k \in L : u[k] = t[k]
      BY <1>1, <2>9, <2>10 DEF Fits, Known
    <3> QED BY <1>1, <1>3, <1>5, <1>6, <2>10, <3>1, CountNew
  <2>13. \A k : k \notin {old, new} => SameAt(f, d, At(k))
    <3>1. Named(f, e, new, LinkTo(m)) BY <2>6, PutSame, Zenon
    <3>2. ASSUME NEW k, k \notin {old, new} PROVE SameAt(f, d, At(k))
      <4>1. At(k) # At(new) BY <3>2, HostsApart
      <4>2. SameAt(e, d, At(k)) BY <1>10, <3>2
      <4> QED BY <3>1, <4>1, <4>2 DEF Named, SameAt
    <3> QED BY <3>2
  <2> QED BY <1>2, <1>3, <1>4, <1>17, <2>8, <2>9, <2>11, <2>12, <2>13 DEF Good, LinkLeaves
<1> QED BY <1>16, <1>17

-----------------------------------------------------------------------------
(* The invariant.  A name a call on its way takes away is gone for the     *)
(* guest; the others live.                                                 *)
Gone(n) == \E p \in Linkers : calling[p] # NoGuestCall /\ calling[p].goes = n
LiveNames == {n \in GuestNames : truth[n] # NoContent /\ ~Gone(n)}

DiscInv == \E q : Good(disc, truth, LiveNames, q)

(* Calls on their way are about different names, and about what was there  *)
(* when they were entered.                                                 *)
Unlinks(c) == c.op = "unlink" /\ c.names = {c.name} /\ c.goes = c.name
Moves(c, d, t) ==
  /\ c.op = "rename" /\ c.names = {c.name, c.to} /\ c.to \in GuestNames
  /\ c.flag \in {"none", "noreplace", "exchange"}
  /\ c.goes = IF c.flag = "exchange" THEN NoContent ELSE c.to
  /\ t[c.name] # t[c.to]
  /\ c.flag = "noreplace" => t[c.to] = NoContent
  /\ c.flag = "exchange" => t[c.to] # NoContent /\ d[At(c.to)] = Content(t[c.to])
CallFits(c, d, t) ==
  /\ c.name \in GuestNames /\ t[c.name] # NoContent
  /\ Unlinks(c) \/ Moves(c, d, t)

Apart == \A p, q \in Linkers :
  p # q /\ calling[p] # NoGuestCall /\ calling[q] # NoGuestCall =>
    calling[p].names \cap calling[q].names = {}
CallsInv ==
  /\ calling = [p \in Linkers |-> calling[p]]
  /\ \A p \in Linkers : calling[p] # NoGuestCall => CallFits(calling[p], disc, truth)
  /\ Apart

(* The guest sees what lives.                                              *)
ShownInv ==
  shown = [n \in GuestNames |-> IF n \in LiveNames THEN truth[n] ELSE NoContent]

RunningInv == DiscInv /\ CallsInv /\ ShownInv
LinkInv == (~halted => RunningInv) /\ ContentKept

(* What a call is about, and what it takes away.                           *)
LEMMA CallNames ==
  ASSUME LinkerAssumption, NEW c, CallFits(c, disc, truth)
  PROVE  /\ c.name \in c.names /\ c.names \subseteq GuestNames
         /\ c.goes \in GuestNames => c.goes \in c.names
BY DEF CallFits, Unlinks, Moves, LinkerAssumption

LEMMA GoneInUse ==
  ASSUME LinkerAssumption, CallsInv, NEW n \in GuestNames, Gone(n)
  PROVE  InUse(n)
<1>1. PICK p \in Linkers : calling[p] # NoGuestCall /\ calling[p].goes = n BY DEF Gone
<1>2. CallFits(calling[p], disc, truth) BY <1>1 DEF CallsInv
<1>3. n \in calling[p].names BY <1>1, <1>2, CallNames
<1> QED BY <1>1, <1>3 DEF InUse

LEMMA UnusedLives ==
  ASSUME LinkerAssumption, DiscInv, CallsInv, NEW n \in GuestNames, ~InUse(n)
  PROVE  n \in LiveNames <=> truth[n] # NoContent
BY GoneInUse DEF LiveNames

LEMMA NameThere ==
  ASSUME DiscInv, NEW n \in GuestNames
  PROVE  /\ At(n) \in DOMAIN disc <=> truth[n] # NoContent
         /\ There(n) <=> truth[n] # NoContent
<1>1. At(n) \in DOMAIN disc <=> truth[n] # NoContent
  BY DEF DiscInv, Good, Fits, NamesThere
<1> QED BY <1>1 DEF There, At

(* A call that is not touched still fits.                                  *)
LEMMA CallFitsKept ==
  ASSUME LinkerAssumption, DiscInv, NEW c, CallFits(c, disc, truth),
         \A n \in c.names : truth'[n] = truth[n] /\ SameAt(disc', disc, At(n))
  PROVE  CallFits(c, disc', truth')
<1>1. c.name \in c.names /\ c.names \subseteq GuestNames BY CallNames
<1>2. truth'[c.name] # NoContent BY <1>1 DEF CallFits
<1>3. ASSUME Moves(c, disc, truth) PROVE Moves(c, disc', truth')
  <2>1. c.to \in c.names BY <1>3 DEF Moves
  <2>2. truth'[c.to] = truth[c.to] /\ truth'[c.name] = truth[c.name] BY <1>1, <2>1
  <2>3. ASSUME c.flag = "exchange"
        PROVE  truth'[c.to] # NoContent /\ disc'[At(c.to)] = Content(truth'[c.to])
    <3>1. truth[c.to] # NoContent /\ disc[At(c.to)] = Content(truth[c.to])
      BY <1>3, <2>3 DEF Moves
    <3>2. At(c.to) \in DOMAIN disc BY <1>3, <3>1, NameThere DEF Moves
    <3>3. SameAt(disc', disc, At(c.to)) BY <2>1
    <3> QED BY <2>2, <3>1, <3>2, <3>3 DEF SameAt
  <2>4. c.flag = "noreplace" => truth'[c.to] = NoContent BY <1>3, <2>2 DEF Moves
  <2> QED BY <1>3, <2>2, <2>3, <2>4 DEF Moves
<1> QED BY <1>2, <1>3 DEF CallFits, Unlinks

(* What has lived is seen.                                                 *)
LEMMA ContentFits ==
  ASSUME NEW d, NEW t, NEW L, NEW q, Fits(d, t, L, q), NEW n \in GuestNames
  PROVE  /\ n \in L => ContentOf(d, n) = t[n]
         /\ t[n] = NoContent => ContentOf(d, n) = NoContent
<1>1. ASSUME n \in L PROVE ContentOf(d, n) = t[n]
  <2>1. t[n] # NoContent BY <1>1 DEF Fits, Known
  <2>2. CASE Plain(d, t, n)
    <3>1. PICK x : x = t[n] /\ d[At(n)] = Content(x) BY <2>2 DEF Plain
    <3>2. At(n) \in DOMAIN d BY <2>1 DEF Fits, NamesThere
    <3> QED BY <3>1, <3>2, FoundPlain
  <2>3. CASE \E m \in Mids : d[At(n)] = LinkTo(m) BY <1>1, <2>3, LiveLink
  <2> QED BY <1>1, <2>2, <2>3, LiveKind
<1>2. ASSUME t[n] = NoContent PROVE ContentOf(d, n) = NoContent
  <2>1. At(n) \notin DOMAIN d BY <1>2 DEF Fits, NamesThere
  <2> QED BY <2>1, FoundNone
<1> QED BY <1>1, <1>2

(* What Becomes() shows of a directory that fits.                          *)
LEMMA ShownFits ==
  ASSUME NEW d, NEW t, NEW L, NEW q, Good(d, t, L, q), truth' = t, L = LiveNames', Becomes(d)
  PROVE  DiscInv' /\ ShownInv'
<1>1. /\ disc' = d
      /\ shown' = [n \in GuestNames |-> IF Going(n) THEN NoContent ELSE ContentOf(d, n)]
  BY DEF Becomes
<1>2. DiscInv' BY <1>1 DEF DiscInv
<1>3. ASSUME NEW n \in GuestNames PROVE n \in L <=> t[n] # NoContent /\ ~Going(n)
  BY DEF LiveNames, Gone, Going
<1>4. ASSUME NEW n \in GuestNames
      PROVE  (IF Going(n) THEN NoContent ELSE ContentOf(d, n)) =
               (IF n \in L THEN t[n] ELSE NoContent)
  BY <1>3, ContentFits DEF Good
<1>5. shown' = [n \in GuestNames |-> IF n \in L THEN t[n] ELSE NoContent]
  BY <1>1, <1>4
<1>6. ShownInv' BY <1>5 DEF ShownInv
<1> QED BY <1>2, <1>6

-----------------------------------------------------------------------------
(* Calls that come and go.                                                 *)
LEMMA GoneEntered ==
  ASSUME NEW p \in Linkers, calling = [q \in Linkers |-> calling[q]], calling[p] = NoGuestCall,
         NEW c, calling' = [calling EXCEPT ![p] = c], NEW n
  PROVE  Gone(n)' <=> Gone(n) \/ (c # NoGuestCall /\ c.goes = n)
<1>1. calling'[p] = c /\ \A q \in Linkers : q # p => calling'[q] = calling[q] OBVIOUS
<1> QED BY <1>1 DEF Gone

LEMMA CallsEntered ==
  ASSUME LinkerAssumption, DiscInv, CallsInv, NEW p \in Linkers, calling[p] = NoGuestCall,
         NEW c, calling' = [calling EXCEPT ![p] = c],
         c # NoGuestCall => CallFits(c, disc', truth') /\ \A n \in c.names : ~InUse(n),
         \A n \in GuestNames : InUse(n) => truth'[n] = truth[n] /\ SameAt(disc', disc, At(n))
  PROVE  CallsInv'
<1>1. calling'[p] = c /\ \A q \in Linkers : q # p => calling'[q] = calling[q]
  BY DEF CallsInv
<1>2. calling' = [q \in Linkers |-> calling'[q]] BY DEF CallsInv
<1>3. ASSUME NEW q \in Linkers, calling'[q] # NoGuestCall PROVE CallFits(calling'[q], disc', truth')
  <2>1. CASE q = p
    <3>1. calling'[q] = c BY <1>1, <2>1
    <3>2. CallFits(c, disc', truth') BY <1>3, <3>1
    <3> QED BY <3>1, <3>2
  <2>2. CASE q # p
    <3>1. PICK g : g = calling[q] OBVIOUS
    <3>2. calling'[q] = g /\ g # NoGuestCall BY <1>1, <1>3, <2>2, <3>1
    <3>3. CallFits(g, disc, truth) BY <3>1, <3>2 DEF CallsInv
    <3>4. \A n \in g.names : n \in GuestNames /\ InUse(n)
      BY <3>1, <3>2, <3>3, CallNames DEF InUse
    <3>5. CallFits(g, disc', truth') BY <3>3, <3>4, CallFitsKept
    <3> QED BY <3>2, <3>5
  <2> QED BY <2>1, <2>2
<1>4. ASSUME NEW q \in Linkers, q # p, calling[q] # NoGuestCall, c # NoGuestCall
      PROVE  calling[q].names \cap c.names = {}
  BY <1>4 DEF InUse
<1>5. Apart' BY <1>1, <1>4 DEF Apart, CallsInv
<1> QED BY <1>2, <1>3, <1>5 DEF CallsInv

LEMMA GoneReturned ==
  ASSUME LinkerAssumption, CallsInv, NEW p \in Linkers, calling[p] # NoGuestCall,
         calling' = [calling EXCEPT ![p] = NoGuestCall], NEW n \in GuestNames
  PROVE  Gone(n)' <=> Gone(n) /\ n # calling[p].goes
<1>1. calling'[p] = NoGuestCall /\ \A q \in Linkers : q # p => calling'[q] = calling[q]
  BY DEF CallsInv
<1>2. ASSUME NEW q \in Linkers, q # p, calling[q] # NoGuestCall, calling[q].goes = n
      PROVE  n # calling[p].goes
  <2>1. CallFits(calling[q], disc, truth) /\ CallFits(calling[p], disc, truth) BY <1>2 DEF CallsInv
  <2>2. n \in calling[q].names BY <1>2, <2>1, CallNames
  <2>3. n = calling[p].goes => n \in calling[p].names BY <2>1, CallNames
  <2>4. calling[p].names \cap calling[q].names = {} BY <1>2 DEF CallsInv, Apart
  <2> QED BY <2>2, <2>3, <2>4
<1> QED BY <1>1, <1>2 DEF Gone

LEMMA CallsReturned ==
  ASSUME LinkerAssumption, DiscInv, CallsInv, NEW p \in Linkers, calling[p] # NoGuestCall,
         calling' = [calling EXCEPT ![p] = NoGuestCall],
         \A n \in GuestNames : n \notin calling[p].names =>
           truth'[n] = truth[n] /\ SameAt(disc', disc, At(n))
  PROVE  CallsInv'
<1>1. calling'[p] = NoGuestCall /\ \A q \in Linkers : q # p => calling'[q] = calling[q]
  BY DEF CallsInv
<1>2. calling' = [q \in Linkers |-> calling'[q]] BY DEF CallsInv
<1>3. ASSUME NEW q \in Linkers, calling'[q] # NoGuestCall PROVE CallFits(calling'[q], disc', truth')
  <2>1. q # p BY <1>1, <1>3
  <2>2. PICK g : g = calling[q] OBVIOUS
  <2>3. calling'[q] = g /\ g # NoGuestCall BY <1>1, <1>3, <2>1, <2>2
  <2>4. CallFits(g, disc, truth) BY <2>2, <2>3 DEF CallsInv
  <2>5. g.names \cap calling[p].names = {} BY <2>1, <2>2, <2>3 DEF CallsInv, Apart
  <2>6. \A n \in g.names : truth'[n] = truth[n] /\ SameAt(disc', disc, At(n))
    BY <2>4, <2>5, CallNames
  <2>7. CallFits(g, disc', truth') BY <2>4, <2>6, CallFitsKept
  <2> QED BY <2>3, <2>7
<1>4. Apart' BY <1>1 DEF Apart, CallsInv
<1> QED BY <1>2, <1>3, <1>4 DEF CallsInv

(* What a new file needs, however it comes about.                          *)
LEMMA NewFileKeeps ==
  ASSUME LinkerAssumption, Few, RunningInv, NEW p \in Linkers, Ready(p),
         NEW n \in GuestNames, NEW x \in Contents, ~There(n), ~InUse(n),
         x \notin {truth[m] : m \in GuestNames}, \A h \in DOMAIN disc : disc[h] # Content(x),
         Entered(p, NoGuestCall), Becomes(Put(disc, <<n>>, Content(x))),
         truth' = [truth EXCEPT ![n] = x]
  PROVE  RunningInv' /\ LiveNames' = LiveNames \cup {n}
<1>1. DiscInv /\ CallsInv BY DEF RunningInv
<1>2. PICK q : Good(disc, truth, LiveNames, q) BY <1>1 DEF DiscInv
<1>3. Fits(disc, truth, LiveNames, q) /\ Counts(q, truth, LiveNames) BY <1>2 DEF Good
<1>4. truth \in [GuestNames -> Contents \cup {NoContent}] BY <1>3 DEF Fits, Known
<1>5. truth[n] = NoContent /\ x # NoContent BY <1>1, NameThere DEF LinkerAssumption
<1>6. truth'[n] = x /\ \A k \in GuestNames : k # n => truth'[k] = truth[k] BY <1>4
<1>7. calling[p] = NoGuestCall /\ calling' = [calling EXCEPT ![p] = NoGuestCall]
  BY DEF Ready, Entered
<1>8. \A k : Gone(k)' <=> Gone(k) BY <1>1, <1>7, GoneEntered DEF CallsInv
<1>9. LiveNames' = LiveNames \cup {n}
  <2>1. ~Gone(n) BY <1>1, GoneInUse
  <2>2. LiveNames' = {k \in GuestNames : truth'[k] # NoContent /\ ~Gone(k)}
    BY <1>8 DEF LiveNames
  <2> QED BY <2>1, <2>2, <1>5, <1>6 DEF LiveNames
<1>10. PICK r : r = Counting(q, x, q[x] + 1) OBVIOUS
<1>11. Recount(r, q, x) /\ r[x] = q[x] + 1
  <2>1. PICK c : c = q[x] + 1 OBVIOUS
  <2>2. Recount(Counting(q, x, c), q, x) /\ Counting(q, x, c)[x] = c BY CountingIs
  <2> QED BY <1>10, <2>1, <2>2
<1>12. PICK d : d = Put(disc, At(n), Content(x)) OBVIOUS
<1>13. PICK t : t = [truth EXCEPT ![n] = x] OBVIOUS
<1>14. PICK L : L = LiveNames \cup {n} OBVIOUS
<1>15. Fits(d, t, L, r) BY <1>3, <1>5, <1>11, <1>12, <1>13, <1>14, NewFileFits
<1>16. Counts(r, t, L)
  <2>1. LiveNames \subseteq GuestNames /\ n \notin LiveNames BY <1>5 DEF LiveNames
  <2>2. t[n] = x /\ \A k \in LiveNames : t[k] = truth[k] BY <1>4, <1>13, <2>1
  <2> QED BY <1>3, <1>11, <1>14, <2>1, <2>2, CountNew
<1>17. Good(d, t, L, r) BY <1>15, <1>16 DEF Good
<1>18. Becomes(d) /\ disc' = d BY <1>12 DEF At, Becomes
<1>19. DiscInv' /\ ShownInv' BY <1>9, <1>13, <1>14, <1>17, <1>18, ShownFits
<1>20. CallsInv'
  <2>1. Named(d, disc, n, Content(x)) BY <1>12, PutSame, Zenon
  <2>2. ASSUME NEW k \in GuestNames, InUse(k)
        PROVE  truth'[k] = truth[k] /\ SameAt(disc', disc, At(k))
    <3>1. k # n BY <2>2
    <3>2. At(k) # At(n) BY <3>1, HostsApart
    <3> QED BY <1>6, <1>18, <2>1, <3>1, <3>2 DEF Named, SameAt
  <2> QED BY <1>1, <1>7, <2>2, CallsEntered
<1> QED BY <1>9, <1>19, <1>20 DEF RunningInv

LEMMA CreateKeeps ==
  ASSUME LinkerAssumption, Few, Careless = {}, RunningInv, NEW p \in Linkers,
         NEW n \in GuestNames, NEW x \in Contents, CreateFile(p, n, x)
  PROVE  RunningInv' /\ LiveNames' = LiveNames \cup {n}
BY NewFileKeeps DEF CreateFile

LEMMA OpenedKeeps ==
  ASSUME LinkerAssumption, Few, Careless = {}, RunningInv, NEW p \in Linkers,
         NEW n \in GuestNames, NEW x \in Contents, LinkOpened(p, n, x)
  PROVE  RunningInv' /\ LiveNames' = LiveNames \cup {n}
<1>1. Put(Except(disc, <<n>>), <<n>>, Content(x)) = Put(disc, <<n>>, Content(x))
  BY DEF Put, Except
<1> QED BY <1>1, NewFileKeeps DEF LinkOpened

LEMMA LinkKeeps ==
  ASSUME LinkerAssumption, Few, Careless = {}, RunningInv, NEW p \in Linkers,
         NEW old \in GuestNames, NEW new \in GuestNames, LinkFile(p, old, new)
  PROVE  /\ RunningInv' /\ old \in LiveNames
         /\ \/ truth' = truth /\ LiveNames' = LiveNames
            \/ /\ truth[new] = NoContent /\ truth' = [truth EXCEPT ![new] = truth[old]]
               /\ LiveNames' = LiveNames \cup {new}
<1>1. DiscInv /\ CallsInv BY DEF RunningInv
<1>2. PICK q : Good(disc, truth, LiveNames, q) BY <1>1 DEF DiscInv
<1>3. Fits(disc, truth, LiveNames, q) BY <1>2 DEF Good
<1>4. truth \in [GuestNames -> Contents \cup {NoContent}] BY <1>3 DEF Fits, Known
<1>5. There(old) /\ old # new /\ ~InUse(old) /\ ~InUse(new) BY DEF LinkFile
<1>6. old \in LiveNames BY <1>1, <1>5, NameThere, UnusedLives
<1>7. calling[p] = NoGuestCall /\ calling' = [calling EXCEPT ![p] = NoGuestCall]
  BY DEF Ready, Entered, LinkFile
<1>8. \A k : Gone(k)' <=> Gone(k) BY <1>1, <1>7, GoneEntered DEF CallsInv
<1>9. PICK s : s = Run(disc, LinkOps(disc, old, new)) OBVIOUS
<1>10. /\ Becomes(s.disc)
       /\ truth' = IF s.ok /\ ~There(new) THEN [truth EXCEPT ![new] = truth[old]] ELSE truth
  BY <1>9 DEF LinkFile
<1>11. /\ s.ok /\ (\A k : k \notin {old, new} => SameAt(s.disc, disc, At(k)))
       /\ At(new) \in DOMAIN disc => Good(s.disc, truth, LiveNames, q)
       /\ At(new) \notin DOMAIN disc =>
            Good(s.disc, [truth EXCEPT ![new] = truth[old]], LiveNames \cup {new},
                 Counting(q, truth[old], q[truth[old]] + 1))
  <2>1. LinkLeaves(s, disc, truth, LiveNames, q, old, new)
    BY <1>2, <1>5, <1>6, <1>9, LinkFits
  <2> QED BY <2>1 DEF LinkLeaves
<1>12. disc' = s.disc BY <1>10 DEF Becomes
<1>13. CallsInv'
  <2>1. ASSUME NEW k \in GuestNames, InUse(k)
        PROVE  truth'[k] = truth[k] /\ SameAt(disc', disc, At(k))
    <3>1. k \notin {old, new} BY <1>5, <2>1
    <3> QED BY <1>4, <1>10, <1>11, <1>12, <3>1
  <2> QED BY <1>1, <1>7, <2>1, CallsEntered
<1>14. PICK d : d = s.disc OBVIOUS
<1>15. CASE There(new)
  <2>1. truth' = truth /\ At(new) \in DOMAIN disc BY <1>10, <1>15 DEF There, At
  <2>2. LiveNames' = LiveNames BY <1>8, <2>1 DEF LiveNames
  <2>3. Good(d, truth, LiveNames, q) BY <1>11, <1>14, <2>1
  <2>4. DiscInv' /\ ShownInv' BY <1>10, <1>14, <2>1, <2>2, <2>3, ShownFits
  <2> QED BY <1>6, <1>13, <2>1, <2>2, <2>4 DEF RunningInv
<1>16. CASE ~There(new)
  <2>1. PICK t : t = [truth EXCEPT ![new] = truth[old]] OBVIOUS
  <2>2. truth' = t /\ At(new) \notin DOMAIN disc /\ truth[new] = NoContent
    BY <1>1, <1>10, <1>11, <1>16, <2>1, NameThere
  <2>3. PICK L : L = LiveNames \cup {new} OBVIOUS
  <2>4. L = LiveNames'
    <3>1. ~Gone(new) /\ truth[old] # NoContent BY <1>1, <1>5, <1>6, GoneInUse DEF LiveNames
    <3>2. t[new] = truth[old] /\ \A k \in GuestNames : k # new => t[k] = truth[k]
      BY <1>4, <2>1
    <3> QED BY <1>8, <2>2, <2>3, <3>1, <3>2 DEF LiveNames
  <2>5. PICK r : Good(d, t, L, r) BY <1>11, <1>14, <2>1, <2>2, <2>3
  <2>6. DiscInv' /\ ShownInv' BY <1>10, <1>14, <2>2, <2>4, <2>5, ShownFits
  <2> QED BY <1>6, <1>13, <2>1, <2>2, <2>3, <2>4, <2>6 DEF RunningInv
<1> QED BY <1>15, <1>16

LEMMA UnlinkKeeps ==
  ASSUME LinkerAssumption, Few, Careless = {}, RunningInv, NEW p \in Linkers,
         NEW n \in GuestNames, EnterUnlink(p, n)
  PROVE  RunningInv' /\ truth' = truth /\ LiveNames' = LiveNames \ {n}
<1>1. DiscInv /\ CallsInv BY DEF RunningInv
<1>2. PICK q : Good(disc, truth, LiveNames, q) BY <1>1 DEF DiscInv
<1>3. There(n) /\ ~InUse(n) /\ truth' = truth BY DEF EnterUnlink
<1>4. n \in LiveNames /\ truth[n] # NoContent BY <1>1, <1>3, NameThere, UnusedLives
<1>5. PICK s : s = Run(disc, DecrementOps(disc, n)) OBVIOUS
<1>6. PICK r : /\ s.ok /\ \A k : SameAt(s.disc, disc, At(k))
               /\ Good(s.disc, truth, LiveNames \ {n}, r)
  BY <1>2, <1>4, <1>5, DecrementFits
<1>7. PICK c : c = [op |-> "unlink", names |-> {n}, name |-> n, goes |-> n] OBVIOUS
<1>8. calling[p] = NoGuestCall /\ calling' = [calling EXCEPT ![p] = c] /\ Becomes(s.disc)
  BY <1>5, <1>6, <1>7 DEF EnterUnlink, Entered, Ready
<1>9. c # NoGuestCall /\ c.goes = n /\ c.names = {n} /\ c.name = n /\ c.op = "unlink"
  BY <1>7 DEF NoGuestCall
<1>10. \A k : Gone(k)' <=> Gone(k) \/ k = n BY <1>1, <1>8, <1>9, GoneEntered DEF CallsInv
<1>11. PICK L : L = LiveNames \ {n} OBVIOUS
<1>12. L = LiveNames' BY <1>3, <1>10, <1>11 DEF LiveNames
<1>13. PICK d : d = s.disc OBVIOUS
<1>14. DiscInv' /\ ShownInv' BY <1>3, <1>6, <1>8, <1>11, <1>12, <1>13, ShownFits
<1>15. CallsInv'
  <2>1. CallFits(c, disc', truth') BY <1>3, <1>4, <1>9 DEF CallFits, Unlinks
  <2>2. disc' = s.disc BY <1>8 DEF Becomes
  <2> QED BY <1>1, <1>3, <1>6, <1>8, <1>9, <2>1, <2>2, CallsEntered
<1> QED BY <1>3, <1>11, <1>12, <1>14, <1>15 DEF RunningInv

LEMMA EnterRenameKeeps ==
  ASSUME LinkerAssumption, Few, Careless = {}, RunningInv, NEW p \in Linkers,
         NEW old \in GuestNames, NEW new \in GuestNames, NEW flag \in RenameFlags,
         EnterRename(p, old, new, flag)
  PROVE  /\ RunningInv' /\ truth' = truth
         /\ LiveNames' = IF flag = "exchange" THEN LiveNames ELSE LiveNames \ {new}
<1>1. DiscInv /\ CallsInv BY DEF RunningInv
<1>2. PICK q : Good(disc, truth, LiveNames, q) BY <1>1 DEF DiscInv
<1>3. Sound(old, new, flag) /\ truth' = truth BY DEF EnterRename
<1>4. /\ There(old) /\ truth[old] # truth[new] /\ ~InUse(old) /\ ~InUse(new)
      /\ flag = "noreplace" => ~There(new)
      /\ flag = "exchange" => There(new) /\ ~IsFaked(disc, new)
  BY <1>3 DEF Sound
<1>5. truth[old] # NoContent /\ (There(new) <=> truth[new] # NoContent)
      /\ (At(new) \in DOMAIN disc <=> truth[new] # NoContent)
  BY <1>1, <1>4, NameThere
<1>6. flag \in {"none", "noreplace", "exchange"} BY DEF LinkerAssumption
<1>7. PICK s : s = Run(disc, DecrementOps(disc, new)) OBVIOUS
<1>8. PICK L : L = IF flag = "exchange" THEN LiveNames ELSE LiveNames \ {new} OBVIOUS
<1>9. s.ok /\ (\A k : SameAt(s.disc, disc, At(k))) /\ \E r : Good(s.disc, truth, L, r)
  <2>1. CASE truth[new] # NoContent /\ flag # "exchange"
    <3>1. new \in LiveNames BY <1>1, <1>4, <2>1, UnusedLives
    <3> QED BY <1>2, <1>7, <1>8, <2>1, <3>1, DecrementFits
  <2>2. CASE truth[new] = NoContent \/ flag = "exchange"
    <3>1. ~IsFaked(disc, new) BY <1>4, <1>5, <2>2, FoundNone
    <3>2. s = [disc |-> disc, ok |-> TRUE] BY <1>7, <3>1, DecrementNothing
    <3>3. s.ok /\ s.disc = disc BY <3>2
    <3>4. L = LiveNames BY <1>8, <2>2 DEF LiveNames
    <3> QED BY <1>2, <3>3, <3>4 DEF SameAt
  <2> QED BY <2>1, <2>2
<1>10. PICK g : g = IF flag = "exchange" THEN NoContent ELSE new OBVIOUS
<1>11. PICK c : c = [op |-> "rename", names |-> {old, new}, name |-> old, to |-> new,
                     flag |-> flag, goes |-> g]
  OBVIOUS
<1>12. calling[p] = NoGuestCall /\ calling' = [calling EXCEPT ![p] = c] /\ Becomes(s.disc)
  BY <1>7, <1>9, <1>10, <1>11 DEF EnterRename, Entered, Ready
<1>13. /\ c # NoGuestCall /\ c.goes = g /\ c.names = {old, new} /\ c.name = old /\ c.to = new
       /\ c.flag = flag /\ c.op = "rename"
  BY <1>11 DEF NoGuestCall
<1>14. \A k : Gone(k)' <=> Gone(k) \/ k = g BY <1>1, <1>12, <1>13, GoneEntered DEF CallsInv
<1>15. L = LiveNames' BY <1>3, <1>8, <1>10, <1>14 DEF LiveNames, LinkerAssumption
<1>16. PICK d : d = s.disc OBVIOUS
<1>17. DiscInv' /\ ShownInv' BY <1>3, <1>9, <1>12, <1>15, <1>16, ShownFits
<1>18. CallsInv'
  <2>1. disc' = s.disc BY <1>12 DEF Becomes
  <2>2. ASSUME flag = "exchange"
        PROVE  truth'[new] # NoContent /\ disc'[At(new)] = Content(truth'[new])
    <3>1. truth[new] # NoContent /\ ~IsFaked(disc, new) BY <1>4, <1>5, <2>2
    <3>2. Plain(disc, truth, new) BY <1>2, <3>1, PlainName DEF Good
    <3>3. disc[At(new)] = Content(truth[new]) BY <3>2 DEF Plain
    <3> QED BY <1>3, <1>5, <1>9, <2>1, <3>1, <3>3 DEF SameAt
  <2>3. CallFits(c, disc', truth')
    BY <1>3, <1>4, <1>5, <1>6, <1>10, <1>13, <2>2 DEF CallFits, Moves
  <2> QED BY <1>1, <1>3, <1>4, <1>9, <1>12, <1>13, <2>1, <2>3, CallsEntered
<1> QED BY <1>3, <1>8, <1>15, <1>17, <1>18 DEF RunningInv

(* What the kernel's part leaves of a directory.                           *)
LEMMA RemoveGood ==
  ASSUME NEW d, NEW t, NEW L, NEW q, Good(d, t, L, q), NEW n \in GuestNames, n \notin L
  PROVE  Good(Except(d, At(n)), [t EXCEPT ![n] = NoContent], L, q)
<1>1. PICK u : u = [t EXCEPT ![n] = NoContent] OBVIOUS
<1>2. Fits(Except(d, At(n)), u, L, q) BY <1>1, RemoveFits DEF Good
<1>3. \A k \in L : u[k] = t[k] BY <1>1 DEF Good, Fits, Known
<1>4. \A x : Names(u, L, x) = Names(t, L, x) BY <1>3 DEF Names
<1>5. Counts(q, u, L) BY <1>4 DEF Good, Counts
<1> QED BY <1>1, <1>2, <1>5 DEF Good

Trades(u, t, K, L, a, b) ==
  /\ u = [k \in GuestNames |-> t[Other(a, b, k)]]
  /\ K = {k \in GuestNames : Other(a, b, k) \in L}

LEMMA SwapGood ==
  ASSUME Few, NEW d, NEW t, NEW L, NEW q, Good(d, t, L, q),
         NEW a \in GuestNames, NEW b \in GuestNames, NEW e, Swapped(e, d, a, b),
         NEW u, NEW K, Trades(u, t, K, L, a, b)
  PROVE  Good(e, u, K, q)
<1>1. Fits(d, t, L, q) /\ Counts(q, t, L) /\ L \subseteq GuestNames BY DEF Good, Fits, Known
<1>2. Fits(e, u, K, q) BY <1>1, SwapFits DEF Trades
<1>3. Counts(q, u, K) BY <1>1, CountSwap DEF Trades
<1> QED BY <1>2, <1>3 DEF Good

LEMMA KernelUnlinkKeeps ==
  ASSUME LinkerAssumption, RunningInv, NEW p \in Linkers, KernelUnlink(p)
  PROVE  RunningInv' /\ LiveNames' = LiveNames /\ \A k \in LiveNames : truth'[k] = truth[k]
<1>1. DiscInv /\ CallsInv BY DEF RunningInv
<1>2. PICK q : Good(disc, truth, LiveNames, q) BY <1>1 DEF DiscInv
<1>3. truth \in [GuestNames -> Contents \cup {NoContent}] BY <1>2 DEF Good, Fits, Known
<1>4. PICK c : c = calling[p] OBVIOUS
<1>5. c # NoGuestCall /\ c.op = "unlink" /\ CallFits(c, disc, truth)
  <2>1. c.op = "unlink" BY <1>4 DEF KernelUnlink
  <2>2. c # NoGuestCall
    <3>1. NoGuestCall.op = "none" BY DEF NoGuestCall
    <3>2. "none" # "unlink" OBVIOUS
    <3> QED BY <2>1, <3>1, <3>2
  <2> QED BY <1>1, <1>4, <2>1, <2>2 DEF CallsInv
<1>6. PICK n \in GuestNames : n = c.name BY <1>5 DEF CallFits
<1>7. truth[n] # NoContent /\ c.names = {n} /\ c.goes = n
  BY <1>5, <1>6 DEF CallFits, Unlinks, Moves
<1>8. Gone(n) /\ n \notin LiveNames BY <1>4, <1>5, <1>7 DEF Gone, LiveNames
<1>9. There(n) BY <1>1, <1>7, NameThere
<1>10. PICK d : d = Except(disc, At(n)) OBVIOUS
<1>11. PICK t : t = [truth EXCEPT ![n] = NoContent] OBVIOUS
<1>12. calling' = [calling EXCEPT ![p] = NoGuestCall] /\ Becomes(d) /\ truth' = t
  BY <1>4, <1>6, <1>9, <1>10, <1>11 DEF KernelUnlink, Returns, At
<1>13. t[n] = NoContent /\ \A k \in GuestNames : k # n => t[k] = truth[k] BY <1>3, <1>11
<1>14. \A k \in GuestNames : Gone(k)' <=> Gone(k) /\ k # n
  BY <1>1, <1>4, <1>5, <1>7, <1>12, GoneReturned
<1>15. PICK L : L = LiveNames OBVIOUS
<1>16. L = LiveNames' BY <1>8, <1>12, <1>13, <1>14, <1>15 DEF LiveNames
<1>17. Good(d, t, L, q) BY <1>2, <1>8, <1>10, <1>11, <1>15, RemoveGood
<1>18. DiscInv' /\ ShownInv' BY <1>12, <1>16, <1>17, ShownFits
<1>19. CallsInv'
  <2>1. disc' = d BY <1>12 DEF Becomes
  <2>2. Unnamed(d, disc, n) BY <1>10, ExceptSame, Zenon
  <2>3. ASSUME NEW k \in GuestNames, k \notin c.names
        PROVE  truth'[k] = truth[k] /\ SameAt(disc', disc, At(k))
    <3>1. k # n BY <1>7, <2>3
    <3>2. At(k) # At(n) BY <3>1, HostsApart
    <3> QED BY <1>12, <1>13, <2>1, <2>2, <3>1, <3>2 DEF Unnamed, SameAt
  <2> QED BY <1>1, <1>4, <1>5, <1>12, <2>3, CallsReturned
<1>20. \A k \in LiveNames : truth'[k] = truth[k] BY <1>8, <1>12, <1>13 DEF LiveNames
<1> QED BY <1>15, <1>16, <1>18, <1>19, <1>20 DEF RunningInv

(* The directory after a rename, and after an exchange.                    *)
LEMMA MovedSwaps ==
  ASSUME NEW d, NEW a, NEW b, At(a) \in DOMAIN d, a # b, NEW e,
         e = Put(Except(d, At(a)), At(b), d[At(a)])
  PROVE  Swapped(e, Except(d, At(b)), a, b)
<1>1. PICK f : f = Except(d, At(b)) OBVIOUS
<1>2. At(a) # At(b) BY HostsApart
<1>3. /\ DOMAIN e = (DOMAIN d \ {At(a)}) \cup {At(b)} /\ e[At(b)] = d[At(a)]
      /\ \A h \in DOMAIN d : h # At(a) /\ h # At(b) => e[h] = d[h]
  BY DEF Put, Except
<1>4. DOMAIN f = DOMAIN d \ {At(b)} /\ \A h \in DOMAIN f : f[h] = d[h]
  BY <1>1 DEF Except
<1>5. ASSUME NEW h, h \notin {At(a), At(b)} PROVE SameAt(e, f, h)
  BY <1>3, <1>4, <1>5 DEF SameAt
<1>6. NamesOnly(e, f)
  <2>1. \A l \in Mids : l \notin {At(a), At(b)} /\ \A k : Fin(l, k) \notin {At(a), At(b)}
    BY HostsApart
  <2> QED BY <1>5, <2>1 DEF NamesOnly, SameFile
<1>7. ASSUME NEW k \in GuestNames PROVE SwappedAt(e, f, At(k), At(Other(a, b, k)))
  <2>1. CASE k = a BY <1>2, <1>3, <1>4, <2>1 DEF SwappedAt, Other
  <2>2. CASE k = b BY <1>2, <1>3, <1>4, <2>2 DEF SwappedAt, Other
  <2>3. CASE k # a /\ k # b
    <3>1. At(k) \notin {At(a), At(b)} BY <2>3, HostsApart
    <3>2. Other(a, b, k) = k BY <2>3 DEF Other
    <3>3. SameAt(e, f, At(k)) BY <1>5, <3>1
    <3> QED BY <3>2, <3>3 DEF SwappedAt, SameAt
  <2> QED BY <2>1, <2>2, <2>3
<1>8. \A h \in DOMAIN e : h \notin {At(a), At(b)} => h \in DOMAIN f /\ e[h] = f[h]
  BY <1>5 DEF SameAt
<1> QED BY <1>1, <1>6, <1>7, <1>8 DEF Swapped

LEMMA ExchangedSwaps ==
  ASSUME NEW d, NEW a, NEW b, At(a) \in DOMAIN d, At(b) \in DOMAIN d, a # b, NEW e,
         e = Put(Put(Except(d, At(a)), At(b), d[At(a)]), At(a), d[At(b)])
  PROVE  Swapped(e, d, a, b)
<1>2. At(a) # At(b) BY HostsApart
<1>3. /\ DOMAIN e = DOMAIN d /\ e[At(b)] = d[At(a)] /\ e[At(a)] = d[At(b)]
      /\ \A h \in DOMAIN d : h # At(a) /\ h # At(b) => e[h] = d[h]
  BY <1>2 DEF Put, Except
<1>5. ASSUME NEW h, h \notin {At(a), At(b)} PROVE SameAt(e, d, h)
  BY <1>3, <1>5 DEF SameAt
<1>6. NamesOnly(e, d)
  <2>1. \A l \in Mids : l \notin {At(a), At(b)} /\ \A k : Fin(l, k) \notin {At(a), At(b)}
    BY HostsApart
  <2> QED BY <1>5, <2>1 DEF NamesOnly, SameFile
<1>7. ASSUME NEW k \in GuestNames PROVE SwappedAt(e, d, At(k), At(Other(a, b, k)))
  <2>1. CASE k = a BY <1>2, <1>3, <2>1 DEF SwappedAt, Other
  <2>2. CASE k = b BY <1>2, <1>3, <2>2 DEF SwappedAt, Other
  <2>3. CASE k # a /\ k # b
    <3>1. At(k) \notin {At(a), At(b)} BY <2>3, HostsApart
    <3>2. Other(a, b, k) = k BY <2>3 DEF Other
    <3>3. SameAt(e, d, At(k)) BY <1>5, <3>1
    <3> QED BY <3>2, <3>3 DEF SwappedAt, SameAt
  <2> QED BY <2>1, <2>2, <2>3
<1>8. \A h \in DOMAIN e : h \notin {At(a), At(b)} => h \in DOMAIN d /\ e[h] = d[h]
  BY <1>5 DEF SameAt
<1> QED BY <1>6, <1>7, <1>8 DEF Swapped

LEMMA KernelRenameKeeps ==
  ASSUME LinkerAssumption, Few, RunningInv, NEW p \in Linkers, KernelRename(p)
  PROVE  /\ RunningInv'
         /\ \E old \in LiveNames, new \in GuestNames : old # new /\
              \/ /\ new \in LiveNames /\ LiveNames' = LiveNames
                 /\ truth' = [truth EXCEPT ![new] = truth[old], ![old] = truth[new]]
              \/ /\ new \notin LiveNames /\ LiveNames' = (LiveNames \ {old}) \cup {new}
                 /\ truth' = [truth EXCEPT ![new] = truth[old], ![old] = NoContent]
<1>1. DiscInv /\ CallsInv BY DEF RunningInv
<1>2. PICK q : Good(disc, truth, LiveNames, q) BY <1>1 DEF DiscInv
<1>3. truth \in [GuestNames -> Contents \cup {NoContent}] BY <1>2 DEF Good, Fits, Known
<1>4. PICK c : c = calling[p] OBVIOUS
<1>5. c # NoGuestCall /\ c.op = "rename" /\ CallFits(c, disc, truth)
  <2>1. c.op = "rename" BY <1>4 DEF KernelRename
  <2>2. c # NoGuestCall
    <3>1. NoGuestCall.op = "none" BY DEF NoGuestCall
    <3>2. "none" # "rename" OBVIOUS
    <3> QED BY <2>1, <3>1, <3>2
  <2> QED BY <1>1, <1>4, <2>1, <2>2 DEF CallsInv
<1>6. Moves(c, disc, truth) /\ c.name \in GuestNames /\ c.to \in GuestNames
  BY <1>5 DEF CallFits, Unlinks, Moves
<1>7. PICK old \in GuestNames, new \in GuestNames : old = c.name /\ new = c.to BY <1>6
<1>8. /\ truth[old] # NoContent /\ truth[old] # truth[new] /\ old # new
      /\ c.names = {old, new}
      /\ c.goes = IF c.flag = "exchange" THEN NoContent ELSE new
      /\ c.flag \in {"none", "noreplace", "exchange"}
      /\ c.flag = "noreplace" => truth[new] = NoContent
      /\ c.flag = "exchange" => truth[new] # NoContent
  BY <1>5, <1>6, <1>7 DEF Moves, CallFits
<1>9. /\ At(old) \in DOMAIN disc /\ There(old)
      /\ There(new) <=> truth[new] # NoContent
      /\ At(new) \in DOMAIN disc <=> truth[new] # NoContent
  BY <1>1, <1>8, NameThere
<1>10. \A k \in {old, new} : Gone(k) <=> k = c.goes
  <2>1. ASSUME NEW k \in {old, new}, NEW g \in Linkers, calling[g] # NoGuestCall,
               calling[g].goes = k, g # p
        PROVE  FALSE
    <3>1. CallFits(calling[g], disc, truth) BY <1>1, <2>1 DEF CallsInv
    <3>2. k \in calling[g].names BY <2>1, <3>1, CallNames
    <3>3. calling[p].names \cap calling[g].names = {}
      BY <1>1, <1>4, <1>5, <2>1 DEF CallsInv, Apart
    <3> QED BY <1>4, <1>8, <2>1, <3>2, <3>3
  <2> QED BY <1>4, <1>5, <2>1 DEF Gone
<1>11. old \in LiveNames
  <2>1. old # c.goes BY <1>8 DEF LinkerAssumption
  <2> QED BY <1>8, <1>10, <2>1 DEF LiveNames
<1>12. calling' = [calling EXCEPT ![p] = NoGuestCall] BY DEF KernelRename, Returns
<1>13. \A k \in GuestNames : Gone(k)' <=> Gone(k) /\ k # c.goes
  BY <1>1, <1>4, <1>5, <1>12, GoneReturned
<1>14. ~(~There(old) \/ old = new \/ (c.flag # "none" /\ (There(new) <=> c.flag = "noreplace")))
  BY <1>8, <1>9
<1>15. PICK d : d = Put(Except(disc, At(old)), At(new), disc[At(old)]) OBVIOUS
<1>16. CASE c.flag = "exchange"
  <2>1. PICK e : e = Put(d, At(old), disc[At(new)]) OBVIOUS
  <2>2. PICK t : t = [truth EXCEPT ![new] = truth[old], ![old] = truth[new]] OBVIOUS
  <2>3. Becomes(e) /\ truth' = t
    BY <1>4, <1>7, <1>14, <1>15, <1>16, <2>1, <2>2 DEF KernelRename, At
  <2>4. PICK L : L = LiveNames OBVIOUS
  <2>5. new \in LiveNames BY <1>8, <1>10, <1>16 DEF LiveNames, LinkerAssumption
  <2>6. Swapped(e, disc, old, new)
    <3>1. e = Put(Put(Except(disc, At(old)), At(new), disc[At(old)]), At(old), disc[At(new)])
      BY <1>15, <2>1
    <3>2. At(new) \in DOMAIN disc BY <1>8, <1>9, <1>16
    <3> QED BY <1>8, <1>9, <3>1, <3>2, ExchangedSwaps
  <2>7. t = [k \in GuestNames |-> truth[Other(old, new, k)]] BY <1>3, <1>8, <2>2 DEF Other
  <2>8. L = {k \in GuestNames : Other(old, new, k) \in LiveNames}
    BY <1>11, <2>4, <2>5 DEF Other, LiveNames
  <2>9. Good(e, t, L, q)
    <3>1. Trades(t, truth, L, LiveNames, old, new) BY <2>7, <2>8 DEF Trades
    <3> QED BY <1>2, <2>6, <3>1, SwapGood
  <2>10. L = LiveNames'
    <3>1. \A k \in GuestNames : Gone(k)' <=> Gone(k)
      BY <1>8, <1>13, <1>16 DEF LinkerAssumption
    <3>2. t[new] = truth[old] /\ t[old] = truth[new]
          /\ \A k \in GuestNames : k \notin {old, new} => t[k] = truth[k]
      BY <1>3, <1>8, <2>2
    <3>3. ~Gone(old) /\ ~Gone(new) BY <1>11, <2>5 DEF LiveNames
    <3> QED BY <1>8, <1>16, <2>3, <2>4, <3>1, <3>2, <3>3 DEF LiveNames
  <2>11. DiscInv' /\ ShownInv' BY <2>3, <2>9, <2>10, ShownFits
  <2>12. CallsInv'
    <3>1. disc' = e BY <2>3 DEF Becomes
    <3>2. ASSUME NEW k \in GuestNames, k \notin c.names
          PROVE  truth'[k] = truth[k] /\ SameAt(disc', disc, At(k))
      <4>1. k \notin {old, new} BY <1>8, <3>2
      <4>2. Other(old, new, k) = k BY <4>1 DEF Other
      <4>3. SwappedAt(e, disc, At(k), At(k)) BY <2>6, <4>2 DEF Swapped
      <4> QED BY <1>3, <2>2, <2>3, <3>1, <4>1, <4>3 DEF SwappedAt, SameAt
    <3> QED BY <1>1, <1>4, <1>5, <1>12, <3>2, CallsReturned
  <2>13. RunningInv' BY <2>11, <2>12 DEF RunningInv
  <2>14. new \in LiveNames /\ LiveNames' = LiveNames
         /\ truth' = [truth EXCEPT ![new] = truth[old], ![old] = truth[new]]
    BY <2>2, <2>3, <2>4, <2>5, <2>10
  <2> QED BY <1>8, <1>11, <2>13, <2>14
<1>17. CASE c.flag # "exchange"
  <2>1. c.goes = new /\ Gone(new) /\ new \notin LiveNames BY <1>8, <1>10, <1>17 DEF LiveNames
  <2>2. PICK t : t = [truth EXCEPT ![new] = truth[old], ![old] = NoContent] OBVIOUS
  <2>3. Becomes(d) /\ truth' = t
    BY <1>4, <1>7, <1>14, <1>15, <1>17, <2>2 DEF KernelRename, At
  <2>4. PICK f : f = Except(disc, At(new)) OBVIOUS
  <2>5. PICK u : u = [truth EXCEPT ![new] = NoContent] OBVIOUS
  <2>6. Good(f, u, LiveNames, q) BY <1>2, <2>1, <2>4, <2>5, RemoveGood
  <2>7. Swapped(d, f, old, new) BY <1>8, <1>9, <1>15, <2>4, MovedSwaps
  <2>8. t = [k \in GuestNames |-> u[Other(old, new, k)]]
    BY <1>3, <1>8, <2>2, <2>5 DEF Other
  <2>9. PICK L : L = {k \in GuestNames : Other(old, new, k) \in LiveNames} OBVIOUS
  <2>10. L = (LiveNames \ {old}) \cup {new}
    BY <1>8, <1>11, <2>1, <2>9 DEF Other, LiveNames
  <2>11. Good(d, t, L, q)
    <3>1. Trades(t, u, L, LiveNames, old, new) BY <2>8, <2>9 DEF Trades
    <3> QED BY <2>6, <2>7, <3>1, SwapGood
  <2>12. L = LiveNames'
    <3>2. t[new] = truth[old] /\ t[old] = NoContent
          /\ \A k \in GuestNames : k \notin {old, new} => t[k] = truth[k]
      BY <1>3, <1>8, <2>2
    <3> QED BY <1>8, <1>13, <2>1, <2>3, <2>10, <3>2 DEF LiveNames
  <2>13. DiscInv' /\ ShownInv' BY <2>3, <2>11, <2>12, ShownFits
  <2>14. CallsInv'
    <3>1. disc' = d BY <2>3 DEF Becomes
    <3>2. ASSUME NEW k \in GuestNames, k \notin c.names
          PROVE  truth'[k] = truth[k] /\ SameAt(disc', disc, At(k))
      <4>1. k \notin {old, new} BY <1>8, <3>2
      <4>2. Other(old, new, k) = k BY <4>1 DEF Other
      <4>3. SwappedAt(d, f, At(k), At(k)) BY <2>7, <4>2 DEF Swapped
      <4>4. At(k) # At(new) BY <4>1, HostsApart
      <4>5. SameAt(f, disc, At(k)) BY <2>4, <4>4 DEF Except, SameAt
      <4> QED BY <1>3, <2>2, <2>3, <3>1, <4>1, <4>3, <4>5 DEF SwappedAt, SameAt
    <3> QED BY <1>1, <1>4, <1>5, <1>12, <3>2, CallsReturned
  <2>15. RunningInv' BY <2>13, <2>14 DEF RunningInv
  <2>16. new \notin LiveNames /\ LiveNames' = (LiveNames \ {old}) \cup {new}
         /\ truth' = [truth EXCEPT ![new] = truth[old], ![old] = NoContent]
    BY <2>1, <2>2, <2>3, <2>10, <2>12
  <2> QED BY <1>8, <1>11, <2>15, <2>16
<1> QED BY <1>16, <1>17

-----------------------------------------------------------------------------
(* What is left when a handler is cut off: every content, wherever it is.  *)
InIt(x, d) == \E h \in DOMAIN d : d[h] = Content(x)
Kept(e, d) == \A x : InIt(x, d) => InIt(x, e)

\* Whatever the calls have come to, nothing is lost; and until the last of them.
Safe(d, ops) == \A k \in 1..Len(ops) : Kept(Run(d, SubSeq(ops, 1, k)).disc, d)
CutSafe(d, ops) == \A k \in 1..(Len(ops) - 1) : Kept(Run(d, SubSeq(ops, 1, k)).disc, d)

LEMMA KeptRename ==
  ASSUME NEW d, NEW from \in DOMAIN d, NEW to, to \notin DOMAIN d, NEW e,
         e = Put(Except(d, from), to, d[from])
  PROVE  Kept(e, d)
<1>1. /\ DOMAIN e = (DOMAIN d \ {from}) \cup {to} /\ e[to] = d[from]
      /\ \A h \in DOMAIN d : h # from => e[h] = d[h]
  BY DEF Put, Except
<1>2. ASSUME NEW x, NEW h \in DOMAIN d, d[h] = Content(x) PROVE InIt(x, e)
  BY <1>1, <1>2 DEF InIt
<1> QED BY <1>2 DEF Kept, InIt

LEMMA KeptSymlink ==
  ASSUME NEW d, NEW at, at \notin DOMAIN d, NEW node, NEW e, e = Put(d, at, node)
  PROVE  Kept(e, d)
<1>1. DOMAIN e = DOMAIN d \cup {at} /\ \A h \in DOMAIN d : e[h] = d[h]
  BY DEF Put
<1>2. ASSUME NEW x, NEW h \in DOMAIN d, d[h] = Content(x) PROVE InIt(x, e)
  BY <1>1, <1>2 DEF InIt
<1> QED BY <1>2 DEF Kept, InIt

LEMMA KeptUnlink ==
  ASSUME NEW d, NEW h, NEW target, d[h] = LinkTo(target), NEW e, e = Except(d, h)
  PROVE  Kept(e, d)
<1>1. DOMAIN e = DOMAIN d \ {h} /\ \A g \in DOMAIN e : e[g] = d[g] BY DEF Except
<1>2. ASSUME NEW x, NEW g \in DOMAIN d, d[g] = Content(x) PROVE InIt(x, e)
  <2>1. g # h BY <1>2, NodesApart
  <2> QED BY <1>1, <1>2, <2>1 DEF InIt
<1> QED BY <1>2 DEF Kept, InIt

LEMMA KeptAll ==
  ASSUME NEW d, NEW e, NEW f, Kept(e, d), Kept(f, e)
  PROVE  Kept(f, d)
BY DEF Kept

LEMMA FirstCalls ==
  ASSUME NEW S, NEW ops \in Seq(S), NEW n \in Nat, n <= Len(ops), NEW first \in Seq(S),
         Len(first) = n, \A i \in 1..n : first[i] = ops[i]
  PROVE  SubSeq(ops, 1, n) = first
<1>1. PICK v : v = SubSeq(ops, 1, n) OBVIOUS
<1>2. v \in Seq(S) /\ Len(v) = n /\ \A i \in 1..n : v[i] = ops[i] BY <1>1
<1> QED BY <1>1, <1>2, SeqEqual

LEMMA OneSafe ==
  ASSUME NEW d, NEW e, NEW o, Done(Well(d), o) = Well(e), Kept(e, d)
  PROVE  Safe(d, <<o>>)
<1>1. Run(d, <<o>>) = Well(e) BY RunOne DEF Well
<1>2. Run(d, <<o>>).disc = e BY <1>1 DEF Well
<1>3. PICK ops : ops = <<o>> OBVIOUS
<1>4. ops \in Seq({o}) /\ Len(ops) = 1 BY <1>3
<1>5. SubSeq(ops, 1, 1) = ops BY <1>4, FirstCalls
<1>6. Kept(Run(d, SubSeq(ops, 1, 1)).disc, d) BY <1>2, <1>3, <1>5
<1>7. Safe(d, ops)
  <2>1. ASSUME NEW k \in 1..1 PROVE k = 1 OBVIOUS
  <2> QED BY <1>4, <1>6, <2>1 DEF Safe
<1> QED BY <1>3, <1>7

LEMMA ThreeSafe ==
  ASSUME NEW d, NEW e, NEW f, NEW g, NEW o1, NEW o2, NEW o3,
         Done(Well(d), o1) = Well(e), Done(Well(e), o2) = Well(f), Done(Well(f), o3) = Well(g),
         Kept(e, d), Kept(f, e), Kept(g, f)
  PROVE  Safe(d, <<o1, o2, o3>>)
<1>1. Run(d, <<o1>>) = Well(e) BY RunOne DEF Well
<1>2. Run(d, <<o1, o2>>) = Well(f) BY <1>1, RunTwo
<1>3. Run(d, <<o1, o2, o3>>) = Well(g) BY <1>2, RunThree
<1>4. Kept(f, d) /\ Kept(g, d) BY KeptAll
<1>5. /\ SubSeq(<<o1, o2, o3>>, 1, 1) = <<o1>>
      /\ SubSeq(<<o1, o2, o3>>, 1, 2) = <<o1, o2>>
      /\ SubSeq(<<o1, o2, o3>>, 1, 3) = <<o1, o2, o3>>
  <2>1. PICK S : S = {o1, o2, o3} OBVIOUS
  <2>2. PICK a1, a2, a3 : a1 = <<o1>> /\ a2 = <<o1, o2>> /\ a3 = <<o1, o2, o3>> OBVIOUS
  <2>3. a1 \in Seq(S) /\ Len(a1) = 1 /\ a1[1] = o1 BY <2>1, <2>2
  <2>4. a2 \in Seq(S) /\ Len(a2) = 2 /\ a2[1] = o1 /\ a2[2] = o2 BY <2>1, <2>2
  <2>5. a3 \in Seq(S) /\ Len(a3) = 3 /\ a3[1] = o1 /\ a3[2] = o2 /\ a3[3] = o3
    BY <2>1, <2>2
  <2>6. SubSeq(a3, 1, 1) = a1
    <3>1. \A i \in 1..1 : a1[i] = a3[i] BY <2>3, <2>5
    <3> QED BY <2>3, <2>5, <3>1, FirstCalls
  <2>7. SubSeq(a3, 1, 2) = a2
    <3>1. \A i \in 1..2 : a2[i] = a3[i]
      <4>1. \A i \in 1..2 : i = 1 \/ i = 2 OBVIOUS
      <4> QED BY <2>4, <2>5, <4>1
    <3> QED BY <2>4, <2>5, <3>1, FirstCalls
  <2>8. SubSeq(a3, 1, 3) = a3 BY <2>5, FirstCalls
  <2> QED BY <2>2, <2>6, <2>7, <2>8
<1>6. Well(e).disc = e /\ Well(f).disc = f /\ Well(g).disc = g BY DEF Well
<1>7. PICK ops : ops = <<o1, o2, o3>> OBVIOUS
<1>8. Len(ops) = 3 BY <1>7
<1>9. ASSUME NEW k \in 1..3 PROVE Kept(Run(d, SubSeq(ops, 1, k)).disc, d)
  <2>1. k = 1 \/ k = 2 \/ k = 3 OBVIOUS
  <2> QED BY <1>1, <1>2, <1>3, <1>4, <1>5, <1>6, <1>7, <2>1
<1>10. Safe(d, ops) BY <1>8, <1>9 DEF Safe
<1> QED BY <1>7, <1>10

LEMMA BothSafe ==
  ASSUME NEW d, NEW a, NEW b, Calls(a), Calls(b), Works(d, a), NEW e, e = Run(d, a).disc,
         Safe(d, a), Safe(e, b), Len(a) > 0
  PROVE  Safe(d, a \o b)
<1>1. PICK S : a \in Seq(S) BY DEF Calls
<1>2. PICK T : b \in Seq(T) BY DEF Calls
<1>3. PICK U : U = S \cup T OBVIOUS
<1>4. a \in Seq(U) /\ b \in Seq(U) BY <1>1, <1>2, <1>3
<1>5. PICK n \in Nat : n = Len(a) BY <1>4
<1>6. PICK m \in Nat : m = Len(b) BY <1>4
<1>7. PICK ab : ab = a \o b OBVIOUS
<1>8. ab \in Seq(U) /\ Len(ab) = n + m
      /\ \A i \in 1..(n + m) : ab[i] = IF i <= n THEN a[i] ELSE b[i - n]
  BY <1>4, <1>5, <1>6, <1>7, ConcatProperties
<1>9. Kept(e, d)
  <2>1. SubSeq(a, 1, n) = a BY <1>4, <1>5, SubSeqFull
  <2>2. n \in 1..Len(a) BY <1>5
  <2>3. Kept(Run(d, SubSeq(a, 1, n)).disc, d) BY <2>2 DEF Safe
  <2> QED BY <2>1, <2>3
<1>10. ASSUME NEW k \in 1..(n + m) PROVE Kept(Run(d, SubSeq(ab, 1, k)).disc, d)
  <2>1. CASE k <= n
    <3>1. SubSeq(ab, 1, k) = SubSeq(a, 1, k)
      <4>1. PICK v, w : v = SubSeq(ab, 1, k) /\ w = SubSeq(a, 1, k) OBVIOUS
      <4>2. /\ v \in Seq(U) /\ Len(v) = k /\ \A i \in 1..k : v[i] = ab[i]
            /\ w \in Seq(U) /\ Len(w) = k /\ \A i \in 1..k : w[i] = a[i]
        BY <1>4, <1>5, <1>8, <2>1, <4>1
      <4>3. \A i \in 1..k : v[i] = w[i] BY <1>8, <2>1, <4>2
      <4> QED BY <4>1, <4>2, <4>3, SeqEqual
    <3>2. k \in 1..Len(a) BY <1>5, <2>1
    <3> QED BY <3>1, <3>2 DEF Safe
  <2>2. CASE k > n
    <3>1. PICK j \in Nat : k = n + j /\ j \in 1..m BY <2>2
    <3>2. PICK c : c = SubSeq(b, 1, j) OBVIOUS
    <3>3. c \in Seq(U) /\ Len(c) = j /\ \A i \in 1..j : c[i] = b[i]
      BY <1>4, <1>6, <3>1, <3>2
    <3>4. SubSeq(ab, 1, k) = a \o c
      <4>1. PICK v, w : v = SubSeq(ab, 1, k) /\ w = a \o c OBVIOUS
      <4>2. v \in Seq(U) /\ Len(v) = k /\ \A i \in 1..k : v[i] = ab[i]
        BY <1>8, <4>1
      <4>3. w \in Seq(U) /\ Len(w) = k /\ \A i \in 1..k : w[i] = IF i <= n THEN a[i] ELSE c[i - n]
        <5>1. /\ a \o c \in Seq(U) /\ Len(a \o c) = Len(a) + Len(c)
              /\ \A i \in 1..(Len(a) + Len(c)) :
                   (a \o c)[i] = IF i <= Len(a) THEN a[i] ELSE c[i - Len(a)]
          BY <1>4, <3>3, ConcatProperties
        <5>2. Len(a) + Len(c) = k BY <1>5, <3>1, <3>3
        <5> QED BY <1>5, <4>1, <5>1, <5>2
      <4>4. ASSUME NEW i \in 1..k PROVE v[i] = w[i]
        <5>1. i \in Nat /\ i \in 1..(n + m) /\ v[i] = ab[i] BY <3>1, <4>2
        <5>2. CASE i <= n BY <1>8, <4>3, <5>1, <5>2
        <5>3. CASE i > n
          <6>1. i - n \in 1..j BY <3>1, <5>1, <5>3
          <6>2. ab[i] = b[i - n] /\ w[i] = c[i - n] BY <1>8, <4>3, <5>1, <5>3
          <6> QED BY <3>3, <5>1, <6>1, <6>2
        <5> QED BY <5>1, <5>2, <5>3
      <4> QED BY <4>1, <4>2, <4>3, <4>4, SeqEqual
    <3>5. Calls(c) BY <3>3 DEF Calls
    <3>6. Follows(d, a, c) BY <3>5, RunBoth, Zenon
    <3>7. Run(d, a \o c) = Run(e, c) BY <3>6 DEF Follows
    <3>8. Kept(Run(e, c).disc, e)
      <4>1. j \in 1..Len(b) BY <1>6, <3>1
      <4> QED BY <3>2, <4>1 DEF Safe
    <3> QED BY <1>9, <3>4, <3>7, <3>8, KeptAll
  <2> QED BY <2>1, <2>2
<1> QED BY <1>7, <1>8, <1>10 DEF Safe

LEMMA RenumberSafe ==
  ASSUME NEW d, NEW m, NEW b, NEW c \in Nat, Leading(d, m, b), Fin(m, c) \notin DOMAIN d,
         CountBase \in Nat, c < CountBase
  PROVE  Safe(d, Renumber(d, m, c))
<1>1. PICK F, N : F = Fin(m, b) /\ N = Fin(m, c) OBVIOUS
<1>2. m # F /\ m # N BY <1>1, HostsApart DEF Leading
<1>3. m \in DOMAIN d /\ F \in DOMAIN d /\ N \notin DOMAIN d /\ d[m] = LinkTo(F)
  BY <1>1 DEF Leading
<1>4. Renumber(d, m, c) = <<HostRename(F, N), HostUnlink(m), HostSymlink(N, m)>>
  BY <1>1, RenumberCalls
<1>5. PICK e : e = Put(Except(d, F), N, d[F]) OBVIOUS
<1>6. PICK f : f = Except(e, m) OBVIOUS
<1>7. PICK g : g = Put(f, m, LinkTo(N)) OBVIOUS
<1>8. m \in DOMAIN e /\ e[m] = LinkTo(F) BY <1>2, <1>3, <1>5 DEF Put, Except
<1>9. m \notin DOMAIN f BY <1>6 DEF Except
<1>10. Done(Well(d), HostRename(F, N)) = Well(e) BY <1>3, <1>5, DoneRename
<1>11. Done(Well(e), HostUnlink(m)) = Well(f) BY <1>6, <1>8, DoneUnlink
<1>12. Done(Well(f), HostSymlink(N, m)) = Well(g) BY <1>7, <1>9, DoneSymlink
<1>13. Kept(e, d) BY <1>3, <1>5, KeptRename
<1>14. Kept(f, e) BY <1>6, <1>8, KeptUnlink
<1>15. Kept(g, f) BY <1>7, <1>9, KeptSymlink
<1> QED BY <1>4, <1>10, <1>11, <1>12, <1>13, <1>14, <1>15, ThreeSafe

LEMMA HideSafe ==
  ASSUME NEW d, NEW n, NEW m \in Mids, At(n) \in DOMAIN d,
         m \notin DOMAIN d, NEW F, NEW c, F = Fin(m, c), F \notin DOMAIN d
  PROVE  Safe(d, <<HostRename(<<n>>, F), HostSymlink(F, m), HostSymlink(m, <<n>>)>>)
<1>1. PICK a : a = At(n) OBVIOUS
<1>2. a = <<n>> BY <1>1 DEF At
<1>3. a # m /\ a # F /\ m # F /\ a \in DOMAIN d BY <1>1, HostsApart
<1>4. PICK e : e = Put(Except(d, a), F, d[a]) OBVIOUS
<1>5. PICK f : f = Put(e, m, LinkTo(F)) OBVIOUS
<1>6. PICK g : g = Put(f, a, LinkTo(m)) OBVIOUS
<1>7. m \notin DOMAIN e BY <1>3, <1>4 DEF Put, Except
<1>8. a \notin DOMAIN f BY <1>3, <1>4, <1>5 DEF Put, Except
<1>9. Done(Well(d), HostRename(a, F)) = Well(e) BY <1>3, <1>4, DoneRename
<1>10. Done(Well(e), HostSymlink(F, m)) = Well(f) BY <1>5, <1>7, DoneSymlink
<1>11. Done(Well(f), HostSymlink(m, a)) = Well(g) BY <1>6, <1>8, DoneSymlink
<1>12. Kept(e, d) BY <1>3, <1>4, KeptRename
<1>13. Kept(f, e) BY <1>5, <1>7, KeptSymlink
<1>14. Kept(g, f) BY <1>6, <1>8, KeptSymlink
<1> QED BY <1>2, <1>9, <1>10, <1>11, <1>12, <1>13, <1>14, ThreeSafe

LEMMA SafeIsCutSafe ==
  ASSUME NEW d, NEW S, NEW ops \in Seq(S), Safe(d, ops)
  PROVE  CutSafe(d, ops)
BY DEF Safe, CutSafe

(* Where a name leads that is linked, and whose intermediate is there.     *)
LEMMA LedName ==
  ASSUME Few, NEW d, NEW t, NEW L, NEW q, Good(d, t, L, q), NEW n \in GuestNames,
         IsFaked(d, n), ~Broken(d, n)
  PROVE  \E m \in Mids, c \in Nat, x \in Contents :
           /\ At(n) \in DOMAIN d /\ d[At(n)] = LinkTo(m) /\ Middle(d, n) = m
           /\ Holds(d, m, x, c) /\ Leading(d, m, c) /\ Links(d, n) = c
           /\ c > 0 /\ c + 1 < CountBase
<1>1. Fits(d, t, L, q) BY DEF Good
<1>2. At(n) \in DOMAIN d BY FoundNone
<1>3. PICK m \in Mids : d[At(n)] = LinkTo(m) /\ Middle(d, n) = m BY <1>1, FakedName
<1>4. m \in DOMAIN d BY <1>3 DEF Broken
<1>5. PICK k \in L : d[At(k)] = LinkTo(m) BY <1>1, <1>4, MidHolds
<1>6. PICK c \in Nat : c = q[t[k]] /\ c > 0 /\ c + 1 < CountBase BY GoodCount
<1>7. PICK x \in Contents : x = t[k] BY GoodCount
<1>8. Holds(d, m, x, c) /\ Leading(d, m, c) BY <1>1, <1>5, <1>6, <1>7, LiveLink
<1>9. Links(d, n) = c
  <2>1. /\ m \in DOMAIN d /\ d[m] = LinkTo(Fin(m, c)) /\ Fin(m, c) \in DOMAIN d
        /\ d[Fin(m, c)] = Content(x)
    BY <1>8 DEF Holds
  <2> QED BY <1>2, <1>3, <2>1, FoundFile
<1> QED BY <1>2, <1>3, <1>6, <1>8, <1>9

LEMMA DecrementCutSafe ==
  ASSUME Few, NEW d, NEW t, NEW L, NEW q, Good(d, t, L, q), NEW n \in GuestNames
  PROVE  CutSafe(d, DecrementOps(d, n))
<1>1. CASE ~IsFaked(d, n) \/ Broken(d, n)
  <2>1. PICK ops : ops = DecrementOps(d, n) OBVIOUS
  <2>2. Len(ops) = 0 BY <1>1, <2>1 DEF DecrementOps
  <2>3. CutSafe(d, ops) BY <2>2 DEF CutSafe
  <2> QED BY <2>1, <2>3
<1>2. CASE IsFaked(d, n) /\ ~Broken(d, n)
  <2>1. PICK m \in Mids, c \in Nat, x \in Contents :
          /\ Middle(d, n) = m /\ Holds(d, m, x, c) /\ Leading(d, m, c) /\ Links(d, n) = c
          /\ c > 0 /\ c + 1 < CountBase
    BY <1>2, LedName
  <2>2. CASE c > 1
    <3>1. PICK b \in Nat : b = c - 1 BY <2>2
    <3>2. DecrementOps(d, n) = Renumber(d, m, b) BY <1>2, <2>1, <2>2, <3>1 DEF DecrementOps
    <3>3. CountBase \in Nat /\ b < CountBase /\ b # c BY <2>1, <3>1 DEF Few
    <3>4. Fin(m, b) \notin DOMAIN d
      <4>1. Fin(m, b) # Fin(m, c) BY <3>3, HostsApart
      <4> QED BY <2>1, <4>1, NodesApart DEF Leading, Good, Fits, FinsLed
    <3>5. Safe(d, Renumber(d, m, b)) BY <2>1, <3>3, <3>4, RenumberSafe
    <3>6. PICK o1, o2, o3 : Renumber(d, m, b) = <<o1, o2, o3>> BY DEF Renumber
    <3>7. <<o1, o2, o3>> \in Seq({o1, o2, o3}) OBVIOUS
    <3> QED BY <3>2, <3>5, <3>6, <3>7, SafeIsCutSafe
  <2>3. CASE ~(c > 1)
    <3>1. PICK o1, o2 : o1 = HostUnlink(m) /\ o2 = HostUnlink(d[m].link) OBVIOUS
    <3>2. PICK ops : ops = <<o1, o2>> OBVIOUS
    <3>3. DecrementOps(d, n) = ops BY <1>2, <2>1, <2>3, <3>1, <3>2 DEF DecrementOps
    <3>4. ops \in Seq({o1, o2}) /\ Len(ops) = 2 /\ ops[1] = o1 BY <3>2
    <3>5. PICK e : e = Except(d, m) OBVIOUS
    <3>6. PICK first : first = <<o1>> OBVIOUS
    <3>7. Run(d, first).disc = e
      <4>1. m \in DOMAIN d BY <2>1 DEF Leading
      <4>2. Run(d, first) = Done(Well(d), HostUnlink(m)) BY <3>1, <3>6, RunOne DEF Well
      <4>3. Run(d, first) = Well(e) BY <3>5, <4>1, <4>2, DoneUnlink
      <4> QED BY <4>3 DEF Well
    <3>8. Kept(e, d) BY <2>1, <3>5, KeptUnlink DEF Leading
    <3>9. SubSeq(ops, 1, 1) = first
      <4>1. first \in Seq({o1, o2}) /\ Len(first) = 1 /\ first[1] = o1 BY <3>6
      <4>2. \A i \in 1..1 : first[i] = ops[i] BY <3>4, <4>1
      <4> QED BY <3>4, <4>1, <4>2, FirstCalls
    <3>10. \A k \in 1..(Len(ops) - 1) : k = 1 BY <3>4
    <3>11. CutSafe(d, ops) BY <3>7, <3>8, <3>9, <3>10 DEF CutSafe
    <3> QED BY <3>3, <3>11
  <2> QED BY <2>2, <2>3
<1> QED BY <1>1, <1>2

(* The first half of link(), cut off, and what the other half begins with. *)
Halfway(d, n, e, m, b) ==
  /\ Works(d, MoveOps(d, n)) /\ e = Run(d, MoveOps(d, n)).disc /\ Safe(d, MoveOps(d, n))
  /\ \E o1, o2, o3 : MoveOps(d, n) = <<o1, o2, o3>>
  /\ IsFaked(e, n) /\ Middle(e, n) = m /\ ~Broken(e, n) /\ Links(e, n) = b + 1
  /\ Leading(e, m, b + 1) /\ Fin(m, b) \notin DOMAIN e
  /\ b > 0 /\ b < CountBase

LEMMA MoveSafe ==
  ASSUME Few, NEW d, NEW t, NEW L, NEW q, Good(d, t, L, q), NEW n \in GuestNames,
         t[n] # NoContent, ~(IsFaked(d, n) /\ Broken(d, n))
  PROVE  \E e, m : \E b \in Nat : Halfway(d, n, e, m, b)
<1>1. Fits(d, t, L, q) BY DEF Good
<1>2. CountBase \in Nat BY DEF Few
<1>3. PICK s : s = Run(d, MoveOps(d, n)) OBVIOUS
<1>4. PICK e : e = s.disc OBVIOUS
<1>5. CASE IsFaked(d, n)
  <2>1. PICK m \in Mids, b \in Nat, x \in Contents :
          /\ At(n) \in DOMAIN d /\ d[At(n)] = LinkTo(m) /\ Middle(d, n) = m
          /\ Holds(d, m, x, b) /\ Leading(d, m, b) /\ Links(d, n) = b
          /\ b > 0 /\ b + 1 < CountBase
    BY <1>5, LedName
  <2>2. PICK c \in Nat : c = b + 1 OBVIOUS
  <2>3. b # c /\ c < CountBase /\ b < CountBase BY <1>2, <2>1, <2>2
  <2>4. MoveOps(d, n) = Renumber(d, m, c) BY <1>5, <2>1, <2>2 DEF MoveOps
  <2>5. s.ok /\ Relabeled(e, d, m, b, c) BY <1>2, <1>3, <1>4, <2>1, <2>3, <2>4, RenumberRuns
  <2>6. Fin(m, b) # Fin(m, c) /\ m # Fin(m, b) BY <2>3, HostsApart
  <2>7. Fin(m, c) \notin DOMAIN d
    BY <2>1, <2>6, <1>1, NodesApart DEF Leading, Fits, FinsLed
  <2>8. Safe(d, MoveOps(d, n)) BY <1>2, <2>1, <2>3, <2>4, <2>7, RenumberSafe
  <2>9. /\ m \in DOMAIN e /\ e[m] = LinkTo(Fin(m, c)) /\ Fin(m, c) \in DOMAIN e
        /\ e[Fin(m, c)] = Content(x) /\ Fin(m, b) \notin DOMAIN e
    BY <2>1, <2>5, <2>6 DEF Relabeled, Leading, Holds
  <2>10. At(n) \in DOMAIN e /\ e[At(n)] = LinkTo(m)
    <3>1. m \in DOMAIN d /\ Fin(m, b) \in DOMAIN d BY <2>1 DEF Leading
    <3>2. SameAt(e, d, At(n)) BY <2>5, <3>1, RelabelSame
    <3> QED BY <2>1, <3>2 DEF SameAt
  <2>11. IsFaked(e, n) /\ Middle(e, n) = m /\ ~Broken(e, n) /\ Links(e, n) = c
    BY <2>9, <2>10, FoundFile
  <2>12. Leading(e, m, c) BY <2>9 DEF Leading
  <2>13. \E o1, o2, o3 : MoveOps(d, n) = <<o1, o2, o3>> BY <2>4 DEF Renumber
  <2>14. Halfway(d, n, e, m, b)
    BY <1>3, <1>4, <2>1, <2>2, <2>3, <2>5, <2>8, <2>9, <2>11, <2>12, <2>13 DEF Halfway, Works
  <2> QED BY <2>14
<1>6. CASE ~IsFaked(d, n)
  <2>1. Plain(d, t, n) /\ At(n) \in DOMAIN d BY <1>1, <1>6, PlainName
  <2>2. PICK x : d[At(n)] = Content(x) BY <2>1 DEF Plain
  <2>3. PICK m : m = <<n, FreeSuffix(d, n)>> OBVIOUS
  <2>4. m \in Mids /\ m \notin DOMAIN d /\ \A c \in Nat : Fin(m, c) \notin DOMAIN d
    BY <1>1, <2>1, <2>3, SuffixFree
  <2>5. PICK F : F = Fin(m, 2) OBVIOUS
  <2>6. F \notin DOMAIN d BY <2>4, <2>5
  <2>7. 2 < CountBase
    <3>1. Cardinality(GuestNames) \in Nat /\ Cardinality(GuestNames) # 0
      BY FS_CardinalityType, FS_EmptySet DEF Few
    <3> QED BY <1>2, <3>1 DEF Few
  <2>8. MoveOps(d, n) = <<HostRename(<<n>>, F), HostSymlink(F, m), HostSymlink(m, <<n>>)>>
    <3>1. Counted(Append(m, 0), 2) = F BY <1>2, <2>4, <2>5, <2>7, CountedFin
    <3> QED BY <1>6, <2>3, <3>1 DEF MoveOps
  <2>9. s.ok /\ Hidden(e, d, n, m, 2) BY <1>3, <1>4, <2>1, <2>4, <2>5, <2>6, <2>8, HideRuns
  <2>10. Safe(d, MoveOps(d, n)) BY <2>1, <2>4, <2>5, <2>6, <2>8, HideSafe
  <2>11. /\ m \in DOMAIN e /\ e[m] = LinkTo(Fin(m, 2)) /\ Fin(m, 2) \in DOMAIN e
         /\ e[Fin(m, 2)] = Content(x) /\ At(n) \in DOMAIN e /\ e[At(n)] = LinkTo(m)
    BY <2>1, <2>2, <2>9 DEF Hidden
  <2>12. Fin(m, 1) \notin DOMAIN e
    <3>1. Fin(m, 1) # Fin(m, 2) /\ Fin(m, 1) # m BY <2>4, HostsApart
    <3> QED BY <2>4, <2>9, <3>1 DEF Hidden
  <2>13. IsFaked(e, n) /\ Middle(e, n) = m /\ ~Broken(e, n) /\ Links(e, n) = 2
    BY <2>4, <2>11, FoundFile
  <2>14. Leading(e, m, 2) BY <2>4, <2>11 DEF Leading
  <2>15. \E o1, o2, o3 : MoveOps(d, n) = <<o1, o2, o3>> BY <2>8
  <2>16. PICK b \in Nat : b = 1 /\ b + 1 = 2 OBVIOUS
  <2>17. Links(e, n) = b + 1 /\ Leading(e, m, b + 1) /\ Fin(m, b) \notin DOMAIN e
         /\ b > 0 /\ b < CountBase
    BY <1>2, <2>7, <2>12, <2>13, <2>14, <2>16
  <2>18. Halfway(d, n, e, m, b)
    BY <1>3, <1>4, <2>9, <2>10, <2>13, <2>15, <2>17 DEF Halfway, Works
  <2> QED BY <2>18
<1> QED BY <1>5, <1>6

LEMMA RenumberCallsAre ==
  ASSUME NEW d, NEW m, NEW c
  PROVE  /\ Calls(Renumber(d, m, c))
         /\ \E o1, o2, o3 : Renumber(d, m, c) = <<o1, o2, o3>>
<1>1. PICK o1, o2, o3 : Renumber(d, m, c) = <<o1, o2, o3>> BY DEF Renumber
<1> QED BY <1>1, FewCalls

LEMMA CallsCutSafe ==
  ASSUME NEW d, NEW ops, Calls(ops), Safe(d, ops)
  PROVE  CutSafe(d, ops)
<1>1. PICK S : ops \in Seq(S) BY DEF Calls
<1> QED BY <1>1, SafeIsCutSafe

LEMMA BothCutSafe ==
  ASSUME NEW d, NEW a, NEW b, Calls(a), Calls(b), Works(d, a), NEW e, e = Run(d, a).disc,
         Safe(d, a), Safe(e, b), Len(a) > 0
  PROVE  CutSafe(d, a \o b)
<1>1. Safe(d, a \o b) BY BothSafe
<1>2. PICK S : a \in Seq(S) BY DEF Calls
<1>3. PICK T : b \in Seq(T) BY DEF Calls
<1>4. PICK U : U = S \cup T OBVIOUS
<1>5. a \in Seq(U) /\ b \in Seq(U) BY <1>2, <1>3, <1>4
<1>6. a \o b \in Seq(U) BY <1>5
<1>7. PICK ab : ab = a \o b OBVIOUS
<1>8. CutSafe(d, ab) BY <1>1, <1>6, <1>7, SafeIsCutSafe
<1> QED BY <1>7, <1>8

LEMMA BrokenCutSafe ==
  ASSUME NEW d, NEW a, NEW b, IsFaked(d, a), Broken(d, a)
  PROVE  CutSafe(d, LinkOps(d, a, b))
<1>1. PICK o : o = HostUnlink(Middle(d, a)) OBVIOUS
<1>2. PICK ops : ops = <<o>> OBVIOUS
<1>3. MoveOps(d, a) = ops BY <1>1, <1>2 DEF MoveOps
<1>4. ~Run(d, ops).ok
  <2>1. Run(d, ops) = Done(Well(d), o) BY <1>2, RunOne DEF Well
  <2>2. o.op = "unlink" /\ o.from \notin DOMAIN d BY <1>1 DEF Broken, HostUnlink
  <2>3. ~Done(Well(d), o).ok
    <3>1. Well(d).disc = d /\ Well(d).ok = TRUE BY DEF Well
    <3>2. "unlink" # "symlink" OBVIOUS
    <3>3. Done(Well(d), o) = [Well(d) EXCEPT !.ok = FALSE] BY <2>2, <3>1, <3>2 DEF Done
    <3> QED BY <3>3 DEF Well
  <2> QED BY <2>1, <2>3
<1>5. LinkOps(d, a, b) = ops BY <1>3, <1>4 DEF LinkOps
<1>6. Len(ops) = 1 BY <1>2
<1>7. CutSafe(d, ops) BY <1>6 DEF CutSafe
<1> QED BY <1>5, <1>7

LEMMA LinkCutSafe ==
  ASSUME Few, NEW d, NEW t, NEW L, NEW q, Good(d, t, L, q), NEW a \in GuestNames,
         NEW b \in GuestNames, At(a) \in DOMAIN d
  PROVE  CutSafe(d, LinkOps(d, a, b))
<1>1. CASE IsFaked(d, a) /\ Broken(d, a) BY <1>1, BrokenCutSafe
<1>2. CASE ~(IsFaked(d, a) /\ Broken(d, a))
  <2>1. t[a] # NoContent BY DEF Good, Fits, NamesThere
  <2>2. PICK e, m : \E c \in Nat : Halfway(d, a, e, m, c) BY <1>2, <2>1, MoveSafe
  <2>3. PICK c \in Nat : Halfway(d, a, e, m, c) BY <2>2
  <2>4. PICK A : A = MoveOps(d, a) OBVIOUS
  <2>5. /\ Works(d, A) /\ e = Run(d, A).disc /\ Safe(d, A)
        /\ \E o1, o2, o3 : A = <<o1, o2, o3>>
        /\ IsFaked(e, a) /\ Middle(e, a) = m /\ ~Broken(e, a) /\ Links(e, a) = c + 1
        /\ Leading(e, m, c + 1) /\ Fin(m, c) \notin DOMAIN e
        /\ c > 0 /\ c < CountBase
    BY <2>3, <2>4 DEF Halfway
  <2>6. Calls(A) /\ Len(A) > 0
    <3>1. PICK o1, o2, o3 : A = <<o1, o2, o3>> BY <2>5
    <3>2. Len(A) = 3 BY <3>1
    <3> QED BY <3>1, <3>2, FewCalls
  <2>7. CASE At(b) \in DOMAIN e
    <3>1. PICK B : B = DecrementOps(e, a) OBVIOUS
    <3>2. PICK f \in Nat : f = c + 1 /\ f > 1 /\ f - 1 = c /\ f # c BY <2>5
    <3>3. B = Renumber(e, m, c) BY <2>5, <3>1, <3>2 DEF DecrementOps
    <3>4. LinkOps(d, a, b) = A \o B BY <2>4, <2>5, <2>7, <3>1 DEF LinkOps, Works, At
    <3>5. Calls(B) BY <3>3, RenumberCallsAre
    <3>6. Safe(e, B)
      <4>1. CountBase \in Nat BY DEF Few
      <4> QED BY <2>5, <3>2, <3>3, <4>1, RenumberSafe
    <3>7. CutSafe(d, A \o B) BY <2>5, <2>6, <3>5, <3>6, BothCutSafe
    <3> QED BY <3>4, <3>7
  <2>8. CASE At(b) \notin DOMAIN e
    <3>1. PICK o : o = HostSymlink(m, At(b)) OBVIOUS
    <3>2. PICK B : B = <<o>> OBVIOUS
    <3>3. LinkOps(d, a, b) = A \o B
      <4>1. <<b>> \notin DOMAIN e BY <2>8 DEF At
      <4> QED BY <2>4, <2>5, <4>1, <3>1, <3>2 DEF LinkOps, Works, At
    <3>4. Calls(B) BY <3>2, FewCalls
    <3>5. PICK f : f = Put(e, At(b), LinkTo(m)) OBVIOUS
    <3>6. Kept(f, e) BY <2>8, <3>5, KeptSymlink
    <3>7. Done(Well(e), o) = Well(f) BY <2>8, <3>1, <3>5, DoneSymlink
    <3>8. Safe(e, B) BY <3>2, <3>6, <3>7, OneSafe
    <3>9. CutSafe(d, A \o B) BY <2>5, <2>6, <3>4, <3>8, BothCutSafe
    <3> QED BY <3>3, <3>9
  <2> QED BY <2>7, <2>8
<1> QED BY <1>1, <1>2

-----------------------------------------------------------------------------
(* What PRoot leaves when it is killed.                                    *)
LEMMA CrashKeeps ==
  ASSUME Few, RunningInv, ContentKept, Crash
  PROVE  ContentKept' /\ halted'
<1>1. PICK q : Good(disc, truth, LiveNames, q) BY DEF RunningInv, DiscInv
<1>2. PICK ops :
        /\ \E k \in 1..(Len(ops) - 1) : disc' = Run(disc, SubSeq(ops, 1, k)).disc
        /\ \/ \E a, b \in GuestNames : There(a) /\ ops = LinkOps(disc, a, b)
           \/ \E n \in GuestNames : ops = DecrementOps(disc, n)
  BY DEF Crash
<1>3. CutSafe(disc, ops)
  <2>1. ASSUME NEW a \in GuestNames, NEW b \in GuestNames, There(a)
        PROVE  CutSafe(disc, LinkOps(disc, a, b))
    <3>1. At(a) \in DOMAIN disc BY <2>1 DEF There, At
    <3> QED BY <1>1, <3>1, LinkCutSafe
  <2>2. ASSUME NEW n \in GuestNames PROVE CutSafe(disc, DecrementOps(disc, n))
    BY <1>1, DecrementCutSafe
  <2> QED BY <1>2, <2>1, <2>2
<1>4. Kept(disc', disc) BY <1>2, <1>3 DEF CutSafe
<1>5. truth' = truth /\ calling' = calling /\ halted' = TRUE BY DEF Crash
<1>6. ASSUME NEW n \in GuestNames, truth[n] # NoContent, ~InUse(n)
      PROVE  Content(truth[n]) \in Range(disc')
  <2>1. Content(truth[n]) \in Range(disc) BY <1>6 DEF ContentKept
  <2>2. InIt(truth[n], disc) BY <2>1 DEF InIt, Range
  <2>3. InIt(truth[n], disc') BY <1>4, <2>2 DEF Kept
  <2> QED BY <2>3 DEF InIt, Range
<1> QED BY <1>5, <1>6 DEF ContentKept, InUse

-----------------------------------------------------------------------------
(* Nothing that lives is lost, and where no call is on its way the count   *)
(* in a final's name is that of the names.                                 *)
LEMMA ContentsThere ==
  ASSUME LinkerAssumption, DiscInv, CallsInv
  PROVE  ContentKept
<1>1. PICK q : Good(disc, truth, LiveNames, q) BY DEF DiscInv
<1>2. Fits(disc, truth, LiveNames, q) BY <1>1 DEF Good
<1>3. ASSUME NEW n \in GuestNames, truth[n] # NoContent, ~InUse(n)
      PROVE  Content(truth[n]) \in Range(disc)
  <2>1. n \in LiveNames BY <1>3, UnusedLives
  <2>2. InIt(truth[n], disc)
    <3>1. CASE Plain(disc, truth, n)
      <4>1. At(n) \in DOMAIN disc BY <1>2, <1>3 DEF Fits, NamesThere
      <4> QED BY <3>1, <4>1 DEF Plain, InIt
    <3>2. CASE \E m \in Mids : disc[At(n)] = LinkTo(m)
      <4>1. PICK m \in Mids : disc[At(n)] = LinkTo(m) BY <3>2
      <4>2. Holds(disc, m, truth[n], q[truth[n]]) BY <1>2, <2>1, <4>1, LiveLink
      <4> QED BY <4>2 DEF Holds, InIt
    <3> QED BY <1>2, <2>1, <3>1, <3>2, LiveKind
  <2> QED BY <2>2 DEF InIt, Range
<1> QED BY <1>3 DEF ContentKept

CountIs(d, t, n) == Links(d, n) = Cardinality({m \in GuestNames : t[m] = t[n]})

LEMMA CountIsNames ==
  ASSUME NEW d, NEW t, NEW L, NEW q, Good(d, t, L, q), NEW n \in L,
         L = {m \in GuestNames : t[m] # NoContent}
  PROVE  CountIs(d, t, n)
<1>1. Fits(d, t, L, q) /\ Counts(q, t, L) BY DEF Good
<1>2. PICK x : x = t[n] OBVIOUS
<1>3. PICK N : N = {m \in GuestNames : t[m] = x} OBVIOUS
<1>4. n \in GuestNames /\ x # NoContent BY <1>2
<1>5. N = Names(t, L, x) BY <1>3, <1>4 DEF Names
<1>6. CASE Plain(d, t, n)
  <2>1. At(n) \in DOMAIN d BY <1>1, <1>2, <1>4 DEF Fits, NamesThere
  <2>2. Links(d, n) = 1 BY <1>6, <2>1, FoundPlain DEF Plain
  <2>3. N = {n} BY <1>2, <1>3, <1>4, <1>6 DEF Plain
  <2> QED BY <1>2, <1>3, <2>2, <2>3, FS_Singleton DEF CountIs
<1>7. CASE \E m \in Mids : d[At(n)] = LinkTo(m)
  <2>1. PICK m \in Mids : d[At(n)] = LinkTo(m) BY <1>7
  <2>2. Links(d, n) = q[x] /\ x \in Contents BY <1>1, <1>2, <2>1, LiveLink
  <2>3. q[x] = Cardinality(N) BY <1>1, <1>5, <2>2 DEF Counts
  <2> QED BY <1>2, <1>3, <2>2, <2>3 DEF CountIs
<1> QED BY <1>1, <1>6, <1>7, LiveKind

LEMMA CountsRight ==
  ASSUME LinkerAssumption, DiscInv
  PROVE  CountsAreNames
<1>1. PICK q : Good(disc, truth, LiveNames, q) BY DEF DiscInv
<1>2. ASSUME \A p \in Linkers : calling[p] = NoGuestCall, NEW n \in GuestNames,
             truth[n] # NoContent
      PROVE  CountIs(disc, truth, n)
  <2>1. LiveNames = {m \in GuestNames : truth[m] # NoContent} BY <1>2 DEF LiveNames, Gone
  <2>2. n \in LiveNames BY <1>2, <2>1
  <2> QED BY <1>1, <2>1, <2>2, CountIsNames
<1> QED BY <1>2 DEF CountsAreNames, CountIs

LEMMA LinkInvKeeps ==
  ASSUME LinkerAssumption, LinkInv
  PROVE  LinksKept
<1>1. ~halted => CountsAreNames BY CountsRight DEF LinkInv, RunningInv
<1>2. CountsAreNames BY <1>1 DEF CountsAreNames
<1>3. NamesLead
  <2> SUFFICES ASSUME ~halted, NEW n \in GuestNames, ~InUse(n) PROVE shown[n] = truth[n]
    BY DEF NamesLead
  <2>1. DiscInv /\ CallsInv /\ ShownInv BY DEF LinkInv, RunningInv
  <2>2. n \in LiveNames <=> truth[n] # NoContent BY <2>1, UnusedLives
  <2> QED BY <2>1, <2>2 DEF ShownInv
<1> QED BY <1>2, <1>3 DEF LinksKept, LinkInv

LEMMA LinkStart ==
  ASSUME LinkerAssumption, Few, LinkerInit
  PROVE  LinkInv
<1>1. /\ DOMAIN disc = {} /\ \A n \in GuestNames : truth[n] = NoContent
      /\ truth = [n \in GuestNames |-> NoContent] /\ shown = truth
      /\ calling = [p \in Linkers |-> NoGuestCall]
  BY DEF LinkerInit
<1>2. LiveNames = {} BY <1>1 DEF LiveNames
<1>3. PICK q : q = [y \in Contents |-> 0] OBVIOUS
<1>4. Good(disc, truth, LiveNames, q)
  <2>1. Counts(q, truth, LiveNames)
    <3>1. \A x : Names(truth, LiveNames, x) = {} BY <1>2 DEF Names
    <3>2. \A x \in Contents : q[x] = 0 BY <1>3
    <3> QED BY <3>1, <3>2, FS_EmptySet DEF Counts
  <2>2. Known(truth, LiveNames) BY <1>1, <1>2 DEF Known, LinkerAssumption
  <2>3. \A h : h \notin DOMAIN disc BY <1>1
  <2> QED BY <1>1, <2>1, <2>2, <2>3 DEF Good, Fits, NamesThere, MidsLed, FinsLed, OnePlace
<1>5. DiscInv BY <1>4 DEF DiscInv
<1>6. CallsInv
  <2>1. \A p \in Linkers : calling[p] = NoGuestCall BY <1>1
  <2>2. calling = [p \in Linkers |-> calling[p]] BY <1>1
  <2> QED BY <2>1, <2>2 DEF CallsInv, Apart
<1>7. ShownInv BY <1>1, <1>2 DEF ShownInv
<1>8. ContentKept BY <1>5, <1>6, ContentsThere
<1> QED BY <1>5, <1>6, <1>7, <1>8 DEF LinkInv, RunningInv

-----------------------------------------------------------------------------
LEMMA LinkHalted ==
  ASSUME halted, [LinkerNext]_linkVars
  PROVE  UNCHANGED linkVars
<1>1. ~Crash BY DEF Crash
<1>2. ASSUME NEW p \in Linkers
      PROVE  ~KernelUnlink(p) /\ ~KernelRename(p) /\ ~Ready(p)
  BY DEF KernelUnlink, KernelRename, Ready
<1>3. ASSUME NEW p \in Linkers, NEW n \in GuestNames
      PROVE  /\ ~EnterUnlink(p, n)
             /\ \A x : ~CreateFile(p, n, x) /\ ~LinkOpened(p, n, x)
             /\ \A new : ~LinkFile(p, n, new) /\ \A flag : ~EnterRename(p, n, new, flag)
  BY <1>2 DEF EnterUnlink, CreateFile, LinkOpened, LinkFile, EnterRename
<1> QED BY <1>1, <1>2, <1>3 DEF LinkerNext

(* Each step keeps the directory, the calls and what is seen in agreement. *)
LEMMA LinkNextKeeps ==
  ASSUME LinkerAssumption, Few, Careless = {}, LinkInv, [LinkerNext]_linkVars
  PROVE  LinkInv'
<1>1. CASE UNCHANGED linkVars
  <2>1. /\ disc' = disc /\ calling' = calling /\ truth' = truth /\ shown' = shown
        /\ halted' = halted
    BY <1>1 DEF linkVars
  <2>2. \A n : Gone(n)' <=> Gone(n) BY <2>1 DEF Gone
  <2>3. LiveNames' = LiveNames BY <2>1, <2>2 DEF LiveNames
  <2>4. DiscInv => DiscInv' BY <2>1, <2>3 DEF DiscInv
  <2>5. CallsInv => CallsInv' BY <2>1 DEF CallsInv, Apart
  <2>6. ShownInv => ShownInv' BY <2>1, <2>3 DEF ShownInv
  <2>7. ContentKept => ContentKept' BY <2>1 DEF ContentKept, InUse
  <2> QED BY <2>1, <2>4, <2>5, <2>6, <2>7 DEF LinkInv, RunningInv
<1>2. CASE ~halted /\ LinkerNext
  <2>1. RunningInv /\ ContentKept BY <1>2 DEF LinkInv
  <2>2. RunningInv' => LinkInv'
    <3>1. RunningInv' => ContentKept' BY ContentsThere, PTL DEF RunningInv
    <3> QED BY <3>1 DEF LinkInv
  <2>3. CASE Crash BY <2>1, <2>3, CrashKeeps DEF LinkInv
  <2>4. ASSUME NEW p \in Linkers, KernelUnlink(p) PROVE RunningInv'
    BY <2>1, <2>4, KernelUnlinkKeeps
  <2>5. ASSUME NEW p \in Linkers, KernelRename(p) PROVE RunningInv'
    BY <2>1, <2>5, KernelRenameKeeps
  <2>6. ASSUME NEW p \in Linkers, NEW n \in GuestNames, EnterUnlink(p, n) PROVE RunningInv'
    BY <2>1, <2>6, UnlinkKeeps
  <2>7. ASSUME NEW p \in Linkers, NEW n \in GuestNames, NEW x \in Contents, CreateFile(p, n, x)
        PROVE  RunningInv'
    BY <2>1, <2>7, CreateKeeps
  <2>8. ASSUME NEW p \in Linkers, NEW n \in GuestNames, NEW x \in Contents, LinkOpened(p, n, x)
        PROVE  RunningInv'
    BY <2>1, <2>8, OpenedKeeps
  <2>9. ASSUME NEW p \in Linkers, NEW n \in GuestNames, NEW new \in GuestNames,
               LinkFile(p, n, new)
        PROVE  RunningInv'
    BY <2>1, <2>9, LinkKeeps
  <2>10. ASSUME NEW p \in Linkers, NEW n \in GuestNames, NEW new \in GuestNames,
                NEW flag \in RenameFlags, EnterRename(p, n, new, flag)
         PROVE  RunningInv'
    BY <2>1, <2>10, EnterRenameKeeps
  <2> QED
    BY <1>2, <2>2, <2>3, <2>4, <2>5, <2>6, <2>7, <2>8, <2>9, <2>10 DEF LinkerNext
<1>3. CASE halted BY <1>1, <1>3, LinkHalted
<1> QED BY <1>1, <1>2, <1>3

(* Whatever is linked, unlinked and renamed where no call fails and none   *)
(* meets another on a name: a file has as many links as it has names, each *)
(* name leads to what it was last given, and nothing that has a name is    *)
(* lost, not even when PRoot is killed half-way through a handler          *)
(* (link2symlink.c: move_and_symlink_path(), decrement_link_count()).  The *)
(* names are fewer than the suffixes and the counts there are.             *)
THEOREM LinksAlwaysKept ==
    ASSUME Careless = {}, Few
    PROVE  LinkerSpec => []LinksKept
<1>1. LinkerInit => LinkInv BY LinkerAssumption, LinkStart
<1>2. LinkInv /\ [LinkerNext]_linkVars => LinkInv' BY LinkerAssumption, LinkNextKeeps
<1>3. LinkInv => LinksKept BY LinkerAssumption, LinkInvKeeps
<1> QED BY <1>1, <1>2, <1>3, PTL DEF LinkerSpec

-----------------------------------------------------------------------------
(* A step of the emulation is one of hard links, or none the guest sees.   *)
LEMMA LinkStepActs ==
  ASSUME LinkerAssumption, Few, Careless = {}, LinkInv, [LinkerNext]_linkVars
  PROVE  [Links_!LinkNext]_shown
<1>1. CASE UNCHANGED linkVars BY <1>1 DEF linkVars
<1>2. CASE ~halted /\ LinkerNext
  <2> SUFFICES ASSUME shown' # shown PROVE Links_!LinkNext OBVIOUS
  <2>1. RunningInv BY <1>2 DEF LinkInv
  <2>2. shown = [k \in GuestNames |-> IF k \in LiveNames THEN truth[k] ELSE NoContent]
    BY <2>1 DEF RunningInv, ShownInv
  <2>3. RunningInv' =>
          shown' = [k \in GuestNames |-> IF k \in LiveNames' THEN truth'[k] ELSE NoContent]
    BY DEF RunningInv, ShownInv
  <2>4. truth \in [GuestNames -> Contents \cup {NoContent}]
    BY <2>1 DEF RunningInv, DiscInv, Good, Fits, Known
  <2>5. truth = [k \in GuestNames |-> truth[k]] BY <2>4
  <2>6. LiveNames \subseteq GuestNames /\ \A n \in LiveNames : truth[n] # NoContent
    BY DEF LiveNames
  <2>7. \A n \in GuestNames : shown[n] = IF n \in LiveNames THEN truth[n] ELSE NoContent
    BY <2>2
  <2>8. CASE Crash BY <2>8 DEF Crash
  <2>9. ASSUME NEW p \in Linkers, KernelUnlink(p) PROVE FALSE
    <3>1. RunningInv' /\ LiveNames' = LiveNames /\ \A k \in LiveNames : truth'[k] = truth[k]
      BY <2>1, <2>9, KernelUnlinkKeeps
    <3> QED BY <2>2, <2>3, <3>1
  <2>10. ASSUME NEW p \in Linkers, KernelRename(p) PROVE Links_!LinkNext
    <3>1. /\ RunningInv'
          /\ \E old \in LiveNames, new \in GuestNames : old # new /\
               \/ /\ new \in LiveNames /\ LiveNames' = LiveNames
                  /\ truth' = [truth EXCEPT ![new] = truth[old], ![old] = truth[new]]
               \/ /\ new \notin LiveNames /\ LiveNames' = (LiveNames \ {old}) \cup {new}
                  /\ truth' = [truth EXCEPT ![new] = truth[old], ![old] = NoContent]
      BY <2>1, <2>10, KernelRenameKeeps
    <3>2. PICK old \in LiveNames, new \in GuestNames : old # new /\
               \/ /\ new \in LiveNames /\ LiveNames' = LiveNames
                  /\ truth' = [truth EXCEPT ![new] = truth[old], ![old] = truth[new]]
               \/ /\ new \notin LiveNames /\ LiveNames' = (LiveNames \ {old}) \cup {new}
                  /\ truth' = [truth EXCEPT ![new] = truth[old], ![old] = NoContent]
      BY <3>1
    <3>3. old \in GuestNames /\ shown[old] # NoContent BY <2>6, <2>7
    <3>4. CASE /\ new \in LiveNames /\ LiveNames' = LiveNames
               /\ truth' = [truth EXCEPT ![new] = truth[old], ![old] = truth[new]]
      <4>1. shown' = [shown EXCEPT ![new] = shown[old], ![old] = shown[new]]
        <5>1. /\ truth'[new] = truth[old] /\ truth'[old] = truth[new]
              /\ \A k \in GuestNames : k \notin {old, new} => truth'[k] = truth[k]
          BY <2>5, <3>2, <3>3, <3>4
        <5>2. shown'[new] = shown[old] /\ shown'[old] = shown[new]
          BY <2>2, <2>3, <3>1, <3>2, <3>3, <3>4, <5>1
        <5>3. \A k \in GuestNames : k \notin {old, new} => shown'[k] = shown[k]
          BY <2>2, <2>3, <3>1, <3>4, <5>1
        <5> QED BY <2>2, <2>3, <3>1, <3>2, <3>3, <5>2, <5>3
      <4>2. Links_!Exchange(old, new)
        BY <2>6, <2>7, <3>3, <3>4, <4>1 DEF Links_!Exchange, Links_!Taken
      <4> QED BY <3>3, <4>2 DEF Links_!LinkNext
    <3>5. CASE /\ new \notin LiveNames /\ LiveNames' = (LiveNames \ {old}) \cup {new}
               /\ truth' = [truth EXCEPT ![new] = truth[old], ![old] = NoContent]
      <4>1. shown' = [shown EXCEPT ![new] = shown[old], ![old] = NoContent]
        <5>1. /\ truth'[new] = truth[old]
              /\ \A k \in GuestNames : k \notin {old, new} => truth'[k] = truth[k]
          BY <2>5, <3>2, <3>3, <3>5
        <5>2. /\ new \in LiveNames' /\ old \notin LiveNames'
              /\ \A k \in GuestNames : k \notin {old, new} => (k \in LiveNames' <=> k \in LiveNames)
          BY <3>2, <3>5
        <5>3. shown'[new] = shown[old] /\ shown'[old] = NoContent
          BY <2>2, <2>3, <3>1, <3>2, <3>3, <5>1, <5>2
        <5>4. \A k \in GuestNames : k \notin {old, new} => shown'[k] = shown[k]
          BY <2>2, <2>3, <3>1, <5>1, <5>2
        <5> QED BY <2>2, <2>3, <3>1, <3>2, <5>3, <5>4
      <4>2. Links_!Rename(old, new)
        BY <2>7, <3>3, <3>5, <4>1 DEF Links_!Rename, Links_!Taken
      <4> QED BY <3>3, <4>2 DEF Links_!LinkNext
    <3> QED BY <3>2, <3>4, <3>5
  <2>11. ASSUME NEW p \in Linkers, NEW n \in GuestNames, EnterUnlink(p, n)
         PROVE  Links_!LinkNext
    <3>1. RunningInv' /\ truth' = truth /\ LiveNames' = LiveNames \ {n}
      BY <2>1, <2>11, UnlinkKeeps
    <3>2. shown' = [shown EXCEPT ![n] = NoContent] BY <2>2, <2>3, <3>1
    <3>3. Links_!Unlink(n) BY <3>2 DEF Links_!Unlink
    <3> QED BY <3>3 DEF Links_!LinkNext
  <2>12. ASSUME NEW p \in Linkers, NEW n \in GuestNames, NEW new \in GuestNames,
                NEW flag \in RenameFlags, EnterRename(p, n, new, flag)
         PROVE  Links_!LinkNext
    <3>1. /\ RunningInv' /\ truth' = truth
          /\ LiveNames' = IF flag = "exchange" THEN LiveNames ELSE LiveNames \ {new}
      BY <2>1, <2>12, EnterRenameKeeps
    <3>2. flag # "exchange" BY <2>2, <2>3, <3>1
    <3>3. shown' = [shown EXCEPT ![new] = NoContent] BY <2>2, <2>3, <3>1, <3>2
    <3>4. Links_!Unlink(new) BY <3>3 DEF Links_!Unlink
    <3> QED BY <3>4 DEF Links_!LinkNext
  <2>13. ASSUME NEW p \in Linkers, NEW n \in GuestNames, NEW x \in Contents,
                CreateFile(p, n, x) \/ LinkOpened(p, n, x)
         PROVE  Links_!LinkNext
    <3>1. RunningInv' /\ LiveNames' = LiveNames \cup {n}
      BY <2>1, <2>13, CreateKeeps, OpenedKeeps
    <3>2. x \notin {truth[m] : m \in GuestNames} /\ truth' = [truth EXCEPT ![n] = x]
      BY <2>13 DEF CreateFile, LinkOpened
    <3>3. ~There(n) BY <2>13 DEF CreateFile, LinkOpened
    <3>4. truth[n] = NoContent BY <2>1, <3>3, NameThere DEF RunningInv
    <3>5. shown[n] = NoContent /\ \A m \in GuestNames : shown[m] # x
      BY <2>6, <2>7, <3>2, <3>4 DEF LinkerAssumption
    <3>6. shown' = [shown EXCEPT ![n] = x]
      <4>1. truth'[n] = x /\ \A k \in GuestNames : k # n => truth'[k] = truth[k]
        BY <2>5, <3>2
      <4> QED BY <2>2, <2>3, <3>1, <4>1
    <3>7. Links_!Create(n, x) BY <3>5, <3>6 DEF Links_!Create, Links_!Taken
    <3> QED BY <3>7 DEF Links_!LinkNext
  <2>14. ASSUME NEW p \in Linkers, NEW n \in GuestNames, NEW new \in GuestNames,
                LinkFile(p, n, new)
         PROVE  Links_!LinkNext
    <3>1. /\ RunningInv' /\ n \in LiveNames
          /\ \/ truth' = truth /\ LiveNames' = LiveNames
             \/ /\ truth[new] = NoContent /\ truth' = [truth EXCEPT ![new] = truth[n]]
                /\ LiveNames' = LiveNames \cup {new}
      BY <2>1, <2>14, LinkKeeps
    <3>2. /\ truth[new] = NoContent /\ truth' = [truth EXCEPT ![new] = truth[n]]
          /\ LiveNames' = LiveNames \cup {new}
      <4>1. ~(truth' = truth /\ LiveNames' = LiveNames) BY <2>2, <2>3, <3>1
      <4> QED BY <3>1, <4>1
    <3>3. shown[n] = truth[n] /\ shown[n] # NoContent /\ shown[new] = NoContent
      BY <2>6, <2>7, <3>1, <3>2
    <3>4. shown' = [shown EXCEPT ![new] = shown[n]]
      <4>1. truth'[new] = truth[n] /\ \A k \in GuestNames : k # new => truth'[k] = truth[k]
        BY <2>5, <3>2
      <4> QED BY <2>2, <2>3, <3>1, <3>2, <3>3, <4>1
    <3>5. Links_!Link(n, new) BY <3>3, <3>4 DEF Links_!Link, Links_!Taken
    <3> QED BY <3>5 DEF Links_!LinkNext
  <2> QED
    BY <1>2, <2>8, <2>9, <2>10, <2>11, <2>12, <2>13, <2>14 DEF LinkerNext
<1>3. CASE halted BY <1>1, <1>3, LinkHalted
<1> QED BY <1>1, <1>2, <1>3

(* What the guest sees of its names is what it would see of hard links: a  *)
(* name comes with open() or link(), goes with unlink() or as the target   *)
(* of rename(), and a file stays as long as it has a name, although each   *)
(* step of link2symlink.c moves files and links about and the kernel's     *)
(* part comes later.                                                       *)
THEOREM HardLinksImplemented ==
    ASSUME Careless = {}, Few
    PROVE  LinkerSpec => ActsAsHardLinks
<1>1. LinkerInit => LinkInv BY LinkerAssumption, LinkStart
<1>2. LinkInv /\ [LinkerNext]_linkVars => LinkInv' BY LinkerAssumption, LinkNextKeeps
<1>3. LinkerInit => Links_!LinkInit BY DEF LinkerInit, Links_!LinkInit
<1>4. LinkInv /\ [LinkerNext]_linkVars => [Links_!LinkNext]_shown
  BY LinkerAssumption, LinkStepActs
<1> QED BY <1>1, <1>2, <1>3, <1>4, PTL DEF LinkerSpec, ActsAsHardLinks, Links_!LinkSpec
=============================================================================
