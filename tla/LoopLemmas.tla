----------------------------- MODULE LoopLemmas ------------------------------
(***************************************************************************)
(* What the proofs need of loops and of lists.  A loop of the code is a    *)
(* function f on 0..n with f[i] defined from f[i - 1]; the first lemmas    *)
(* show that such a function exists and carry a fact from f[0] to f[n].    *)
(* A list of the code is a sequence; the others say what unlinking an      *)
(* element leaves, and how many of its elements are of a kind.             *)
(***************************************************************************)
EXTENDS Integers, Sequences, FiniteSetTheorems, WellFoundedInduction, TLAPS

(* Every non-empty set of naturals has a least element.                    *)
LEMMA LeastElement ==
  ASSUME NEW T, T \subseteq Nat, T # {}
  PROVE  \E n \in T : \A m \in T : n <= m
<1> DEFINE R == {ss \in Nat \X Nat : ss[1] < ss[2]}
<1>1. R = OpToRel(<, Nat)
  BY Zenon DEF OpToRel
<1>2. IsWellFoundedOn(R, Nat)
  BY NatLessThanWellFounded, <1>1, Zenon
<1>3. \E x \in T : \A y \in T : ~(<<y, x>> \in R)
  <2> HIDE DEF R
  <2> QED BY <1>2, WFMin, Zenon
<1>4. PICK x \in T : \A y \in T : ~(<<y, x>> \in R)
  BY <1>3
<1>5. ASSUME NEW y \in T PROVE x <= y
  <2>1. <<y, x>> \notin R BY <1>4
  <2>2. y \in Nat /\ x \in Nat OBVIOUS
  <2> QED BY <2>1, <2>2
<1> QED BY <1>5

(* Induction up to n, for membership in a set of numbers.                  *)
LEMMA UpTo ==
  ASSUME NEW n \in Nat, NEW S, 0 \in S,
         \A i \in 1..n : i - 1 \in S => i \in S
  PROVE  \A i \in 0..n : i \in S
<1> SUFFICES ASSUME NEW j \in 0..n, j \notin S PROVE FALSE
  OBVIOUS
<1> DEFINE T == {i \in 0..n : i \notin S}
<1>1. T \subseteq Nat /\ T # {}
  OBVIOUS
<1>2. PICK m \in T : \A k \in T : m <= k
  <2> HIDE DEF T
  <2> QED BY <1>1, LeastElement
<1>3. m # 0 /\ m \in 1..n
  BY <1>2
<1>4. m - 1 \in 0..n /\ m - 1 \notin T
  BY <1>2, <1>3
<1> QED BY <1>2, <1>3, <1>4

(* f is the history of a loop of n iterations from x: F[i] is iteration i. *)
IsLoop(f, n, X, x, F) ==
  /\ f \in [0..n -> X]
  /\ f[0] = x
  /\ \A i \in 1..n : f[i] = F[i][f[i - 1]]

(* Every loop has a history.                                               *)
LEMMA Iterate ==
  ASSUME NEW n \in Nat, NEW X, NEW x \in X, NEW F \in [1..n -> [X -> X]]
  PROVE  \E f : IsLoop(f, n, X, x, F)
<1> DEFINE S == {m \in 0..n : \E f : IsLoop(f, m, X, x, F)}
<1>1. 0 \in S
  <2> DEFINE g == [i \in 0..0 |-> x]
  <2>1. g \in [0..0 -> X] /\ g[0] = x /\ 1..0 = {}
    OBVIOUS
  <2>2. IsLoop(g, 0, X, x, F)
    BY <2>1 DEF IsLoop
  <2> HIDE DEF g
  <2> QED BY <2>2
<1>2. ASSUME NEW m \in 1..n, m - 1 \in S PROVE m \in S
  <2>1. PICK f : IsLoop(f, m - 1, X, x, F)
    BY <1>2
  <2> DEFINE g == [i \in 0..m |-> IF i = m THEN F[m][f[m - 1]] ELSE f[i]]
  <2>2. g \in [0..m -> X]
    <3>1. f[m - 1] \in X BY <2>1 DEF IsLoop
    <3>2. F[m] \in [X -> X] OBVIOUS
    <3>3. F[m][f[m - 1]] \in X BY <3>1, <3>2
    <3>4. ASSUME NEW i \in 0..m, i # m PROVE f[i] \in X
      BY <2>1, <3>4 DEF IsLoop
    <3> QED BY <3>3, <3>4
  <2>3. g[0] = x
    BY <2>1 DEF IsLoop
  <2>4. ASSUME NEW i \in 1..m PROVE g[i] = F[i][g[i - 1]]
    <3>1. i - 1 \in 0..m /\ i - 1 # m OBVIOUS
    <3>2. g[i - 1] = f[i - 1] BY <3>1
    <3>3. CASE i = m
      <4>1. g[m] = F[m][f[m - 1]] OBVIOUS
      <4> QED BY <3>2, <3>3, <4>1
    <3>4. CASE i # m
      <4>1. i \in 1..(m - 1) BY <3>4
      <4> QED BY <4>1, <3>2, <2>1, <3>4 DEF IsLoop
    <3> QED BY <3>3, <3>4
  <2>5. IsLoop(g, m, X, x, F)
    <3> HIDE DEF g
    <3> QED BY <2>2, <2>3, <2>4 DEF IsLoop
  <2> QED BY <2>5
<1>3. n \in S
  <2>1. \A i \in 0..n : i \in S
    <3> HIDE DEF S
    <3> QED BY <1>1, <1>2, UpTo
  <2> QED BY <2>1
<1> QED BY <1>3

-----------------------------------------------------------------------------
(* Lists.                                                                  *)

(* Unlinking the k-th element moves those after it up by one.              *)
LEMMA UnlinkedList ==
  ASSUME NEW S, NEW q \in Seq(S), NEW k \in 1..Len(q)
  PROVE  LET r == SubSeq(q, 1, k - 1) \o SubSeq(q, k + 1, Len(q))
         IN  /\ r \in Seq(S) /\ Len(r) = Len(q) - 1
             /\ \A j \in 1..(k - 1) : r[j] = q[j]
             /\ \A j \in k..(Len(q) - 1) : r[j] = q[j + 1]
<1> DEFINE a == SubSeq(q, 1, k - 1)
           b == SubSeq(q, k + 1, Len(q))
<1>1. /\ a \in Seq(S) /\ Len(a) = k - 1
      /\ \A i \in 1..(k - 1) : a[i] = q[i]
  OBVIOUS
<1>2. /\ b \in Seq(S) /\ Len(b) = Len(q) - k
      /\ \A i \in 1..(Len(q) - k) : b[i] = q[k + i]
  OBVIOUS
<1> HIDE DEF a, b
<1> DEFINE r == a \o b
<1>3. r \in Seq(S) /\ Len(r) = Len(q) - 1
  <2>1. r \in Seq(S) /\ Len(r) = Len(a) + Len(b)
    <3>1. a \in Seq(S) /\ b \in Seq(S) BY <1>1, <1>2
    <3> QED BY <3>1, Z3
  <2>2. Len(q) \in Nat OBVIOUS
  <2> HIDE DEF r
  <2> QED BY <1>1, <1>2, <2>1, <2>2
<1>4. ASSUME NEW j \in 1..(k - 1) PROVE r[j] = q[j]
  <2>1. r[j] = a[j] BY <1>1, <1>2
  <2> HIDE DEF r
  <2> QED BY <1>1, <2>1
<1>5. ASSUME NEW j \in k..(Len(q) - 1) PROVE r[j] = q[j + 1]
  <2>1. /\ j - (k - 1) \in 1..(Len(q) - k) /\ ~(j <= k - 1)
        /\ j \in 1..(Len(q) - 1)
    OBVIOUS
  <2>2. r[j] = b[j - (k - 1)] BY <1>1, <1>2, <2>1
  <2>3. b[j - (k - 1)] = q[k + (j - (k - 1))] BY <1>2, <2>1
  <2>4. k + (j - (k - 1)) = j + 1 OBVIOUS
  <2> HIDE DEF r
  <2> QED BY <2>2, <2>3, <2>4
<1> QED BY <1>3, <1>4, <1>5 DEF a, b

(* The positions of the elements of a kind T.                              *)
Positions(s, T) == {k \in 1..Len(s) : s[k] \in T}

(* There are finitely many.                                                *)
LEMMA PositionsFinite ==
  ASSUME NEW S, NEW s \in Seq(S), NEW T
  PROVE  /\ IsFiniteSet(Positions(s, T))
         /\ Cardinality(Positions(s, T)) \in Nat
         /\ Cardinality(Positions(s, T)) <= Len(s)
<1>1. Len(s) \in Nat /\ 1 \in Int /\ Len(s) \in Int
  OBVIOUS
<1>2. /\ IsFiniteSet(1..Len(s))
      /\ Cardinality(1..Len(s)) = IF 1 > Len(s) THEN 0 ELSE Len(s) - 1 + 1
  BY <1>1, FS_Interval
<1>3. Positions(s, T) \in SUBSET (1..Len(s))
  BY DEF Positions
<1>4. /\ IsFiniteSet(Positions(s, T))
      /\ Cardinality(Positions(s, T)) <= Cardinality(1..Len(s))
  BY <1>2, <1>3, FS_Subset
<1>5. Cardinality(Positions(s, T)) \in Nat
  BY <1>4, FS_CardinalityType
<1> QED BY <1>1, <1>2, <1>4, <1>5

(* Elements that only change their places are as many as before.           *)
LEMMA Renumbered ==
  ASSUME NEW P, NEW Q, IsFiniteSet(P), NEW f \in [P -> Q],
         \A x, y \in P : f[x] = f[y] => x = y,
         \A z \in Q : \E x \in P : f[x] = z
  PROVE  IsFiniteSet(Q) /\ Cardinality(Q) = Cardinality(P)
<1>1. f \in Bijection(P, Q)
  BY DEF Bijection, Injection, IsInjective, Surjection
<1>2. ExistsBijection(P, Q)
  BY <1>1 DEF ExistsBijection
<1> QED BY <1>2, FS_Bijection

(* Appending an element.                                                   *)
LEMMA CountAppended ==
  ASSUME NEW S, NEW s \in Seq(S), NEW x \in S, NEW T
  PROVE  Cardinality(Positions(Append(s, x), T)) =
           Cardinality(Positions(s, T)) + (IF x \in T THEN 1 ELSE 0)
<1> DEFINE r == Append(s, x)
<1>1. /\ Len(r) = Len(s) + 1 /\ r[Len(s) + 1] = x /\ Len(s) \in Nat
      /\ \A k \in 1..Len(s) : r[k] = s[k]
  OBVIOUS
<1> HIDE DEF r
<1>2. 1..Len(r) = (1..Len(s)) \cup {Len(s) + 1} /\ Len(s) + 1 \notin 1..Len(s)
  BY <1>1
<1>3. /\ IsFiniteSet(Positions(s, T)) /\ Cardinality(Positions(s, T)) \in Nat
  BY PositionsFinite
<1>4. CASE x \in T
  <2>1. Positions(r, T) = Positions(s, T) \cup {Len(s) + 1}
    BY <1>1, <1>2, <1>4 DEF Positions
  <2>2. Len(s) + 1 \notin Positions(s, T)
    BY <1>2 DEF Positions
  <2>3. Cardinality(Positions(s, T) \cup {Len(s) + 1}) =
          Cardinality(Positions(s, T)) + 1
    BY <1>3, <2>2, FS_AddElement
  <2> QED BY <1>4, <2>1, <2>3 DEF r
<1>5. CASE x \notin T
  <2>1. Positions(r, T) = Positions(s, T)
    BY <1>1, <1>2, <1>5 DEF Positions
  <2> QED BY <1>3, <1>5, <2>1 DEF r
<1> QED BY <1>4, <1>5

(* The list s without its k-th element.                                    *)
ListWithout(s, k) == SubSeq(s, 1, k - 1) \o SubSeq(s, k + 1, Len(s))

(* Unlinking an element.                                                   *)
LEMMA CountUnlinked ==
  ASSUME NEW S, NEW s \in Seq(S), NEW k \in 1..Len(s), NEW T,
         NEW r, r = ListWithout(s, k)
  PROVE  Cardinality(Positions(r, T)) =
           Cardinality(Positions(s, T)) - (IF s[k] \in T THEN 1 ELSE 0)
<1> DEFINE P == Positions(s, T) \ {k}
           Q == Positions(r, T)
           f == [j \in P |-> IF j < k THEN j ELSE j - 1]
<1>1. PICK n : n = Len(s)
  OBVIOUS
<1>2. /\ n \in Nat /\ k \in 1..n /\ 1..Len(s) = 1..n /\ 1..Len(r) = 1..(n - 1)
      /\ \A j \in 1..(k - 1) : r[j] = s[j]
      /\ \A j \in k..(n - 1) : r[j] = s[j + 1]
  <2>1. /\ Len(r) = Len(s) - 1 /\ Len(s) \in Nat
        /\ \A j \in 1..(k - 1) : r[j] = s[j]
        /\ \A j \in k..(Len(s) - 1) : r[j] = s[j + 1]
    <3> DEFINE u == SubSeq(s, 1, k - 1) \o SubSeq(s, k + 1, Len(s))
    <3>1. /\ Len(u) = Len(s) - 1
          /\ \A j \in 1..(k - 1) : u[j] = s[j]
          /\ \A j \in k..(Len(s) - 1) : u[j] = s[j + 1]
      BY UnlinkedList
    <3>2. r = u /\ Len(s) \in Nat BY DEF ListWithout
    <3> HIDE DEF u
    <3> QED BY <3>1, <3>2
  <2> QED BY <1>1, <2>1
<1>3. IsFiniteSet(Positions(s, T)) /\ Cardinality(Positions(s, T)) \in Nat
  BY PositionsFinite
<1>4. IsFiniteSet(P) /\ Cardinality(P) = IF k \in Positions(s, T)
                                         THEN Cardinality(Positions(s, T)) - 1
                                         ELSE Cardinality(Positions(s, T))
  BY <1>3, FS_RemoveElement
<1>5. P = {j \in 1..n : s[j] \in T /\ j # k} /\ Q = {j \in 1..(n - 1) : r[j] \in T}
  BY <1>2 DEF Positions
<1> HIDE DEF P, Q
<1>6. \A j \in P : (IF j < k THEN j ELSE j - 1) \in Q
  BY ONLY <1>2, <1>5
<1>7. \A z \in Q : \E x \in P : (IF x < k THEN x ELSE x - 1) = z
  <2> SUFFICES ASSUME NEW z \in Q
               PROVE  \E x \in P : (IF x < k THEN x ELSE x - 1) = z
    OBVIOUS
  <2>1. CASE z < k
    <3>1. z \in P BY ONLY z \in Q, <1>2, <1>5, <2>1
    <3> QED BY <2>1, <3>1
  <2>2. CASE ~(z < k)
    <3>1. z + 1 \in P /\ ~(z + 1 < k) /\ (z + 1) - 1 = z
      BY ONLY z \in Q, <1>2, <1>5, <2>2
    <3> QED BY <3>1
  <2> QED BY <2>1, <2>2
<1>8. \A x, y \in P : (IF x < k THEN x ELSE x - 1) = (IF y < k THEN y ELSE y - 1)
                        => x = y
  BY ONLY <1>2, <1>5
<1>9. Cardinality(Q) = Cardinality(P)
  <2>1. f \in [P -> Q] BY <1>6
  <2>2. \A x, y \in P : f[x] = f[y] => x = y BY <1>8
  <2>3. \A z \in Q : \E x \in P : f[x] = z BY <1>7
  <2> HIDE DEF f
  <2> QED BY <1>4, <2>1, <2>2, <2>3, Renumbered
<1>10. k \in Positions(s, T) <=> s[k] \in T
  BY DEF Positions
<1> QED BY <1>3, <1>4, <1>9, <1>10 DEF Q

(* Linking an element in at the head.                                      *)
LEMMA CountPushed ==
  ASSUME NEW S, NEW s \in Seq(S), NEW x \in S, NEW T,
         NEW r, r = <<x>> \o s
  PROVE  Cardinality(Positions(r, T)) =
           Cardinality(Positions(s, T)) + (IF x \in T THEN 1 ELSE 0)
<1>1. /\ r \in Seq(S) /\ 1 \in 1..Len(r) /\ r[1] = x
      /\ s = ListWithout(r, 1)
  BY DEF ListWithout
<1>2. Cardinality(Positions(s, T)) =
        Cardinality(Positions(r, T)) - (IF r[1] \in T THEN 1 ELSE 0)
  BY ONLY <1>1, CountUnlinked
<1>3. Cardinality(Positions(r, T)) \in Nat
  BY <1>1, PositionsFinite
<1> QED BY <1>1, <1>2, <1>3

(* Taking the head off.                                                    *)
LEMMA CountTail ==
  ASSUME NEW S, NEW s \in Seq(S), s # <<>>, NEW T
  PROVE  Cardinality(Positions(Tail(s), T)) =
           Cardinality(Positions(s, T)) - (IF Head(s) \in T THEN 1 ELSE 0)
<1>1. PICK r : r = Tail(s)
  OBVIOUS
<1>2. PICK x : x = Head(s)
  OBVIOUS
<1>3. r \in Seq(S) /\ x \in S /\ s = <<x>> \o r
  BY <1>1, <1>2
<1>4. Cardinality(Positions(s, T)) =
        Cardinality(Positions(r, T)) + (IF x \in T THEN 1 ELSE 0)
  BY ONLY <1>3, CountPushed
<1>5. Cardinality(Positions(r, T)) \in Nat
  BY <1>3, PositionsFinite
<1> QED BY <1>1, <1>2, <1>4, <1>5

-----------------------------------------------------------------------------
(* Sums.                                                                   *)

(* The recursion of MapThenSumSet: g[T] is the sum of f over T.            *)
Chosen(T) == CHOOSE x \in T : TRUE
IsSum(g, f, S) ==
  g = [T \in SUBSET S |->
         IF T = {} THEN 0 ELSE f[Chosen(T)] + g[T \ {Chosen(T)}]]

(* The values are integers.                                                *)
IntOn(f, S) == \A x \in S : f[x] \in Int

(* The sum of f over S.                                                    *)
SumOver(f, S) == (CHOOSE g : IsSum(g, f, S))[S]

(* What the recursion says of a set and its chosen element.                *)
LEMMA SumStep ==
  ASSUME NEW S, NEW f, NEW g, IsSum(g, f, S), NEW T \in SUBSET S, T # {}
  PROVE  /\ Chosen(T) \in T
         /\ g[T] = f[Chosen(T)] + g[T \ {Chosen(T)}]
<1>1. g[T] = IF T = {} THEN 0 ELSE f[Chosen(T)] + g[T \ {Chosen(T)}]
  BY DEF IsSum
<1>2. Chosen(T) \in T BY DEF Chosen
<1> QED BY <1>1, <1>2

(* A finite set has finite subsets, and taking one element off one of them *)
(* makes it smaller by one.                                                *)
LEMMA Smaller ==
  ASSUME NEW S, IsFiniteSet(S), NEW T \in SUBSET S
  PROVE  /\ IsFiniteSet(T) /\ Cardinality(T) \in Nat
         /\ Cardinality(T) <= Cardinality(S) /\ Cardinality(S) \in Nat
         /\ \A x \in T : /\ T \ {x} \in SUBSET S
                         /\ Cardinality(T \ {x}) = Cardinality(T) - 1
         /\ Cardinality(T) = 0 <=> T = {}
<1>1. IsFiniteSet(T) /\ Cardinality(T) <= Cardinality(S)
  BY FS_Subset
<1>2. Cardinality(T) \in Nat /\ Cardinality(S) \in Nat
  BY <1>1, FS_CardinalityType
<1>3. ASSUME NEW x \in T PROVE Cardinality(T \ {x}) = Cardinality(T) - 1
  BY <1>1, FS_RemoveElement
<1>4. Cardinality(T) = 0 <=> T = {}
  BY <1>1, FS_EmptySet
<1> QED BY <1>1, <1>2, <1>3, <1>4

(* Every finite set of integers has a sum, and a sum of every part.        *)
LEMMA SumExists ==
  ASSUME NEW S, IsFiniteSet(S), NEW f, IntOn(f, S)
  PROVE  \E g \in [SUBSET S -> Int] : IsSum(g, f, S)
<1> DEFINE n == Cardinality(S)
           Good(g, m) == \A T \in SUBSET S : Cardinality(T) <= m =>
              g[T] = IF T = {} THEN 0 ELSE f[Chosen(T)] + g[T \ {Chosen(T)}]
           M == {m \in 0..n : \E g \in [SUBSET S -> Int] : Good(g, m)}
<1>1. n \in Nat BY FS_CardinalityType
<1>2. 0 \in M
  <2> DEFINE g == [T \in SUBSET S |-> 0]
  <2>1. g \in [SUBSET S -> Int] OBVIOUS
  <2>2. ASSUME NEW T \in SUBSET S, Cardinality(T) <= 0
        PROVE  g[T] = IF T = {} THEN 0 ELSE f[Chosen(T)] + g[T \ {Chosen(T)}]
    <3>1. T = {} BY <2>2, Smaller
    <3> QED BY <3>1
  <2> HIDE DEF g
  <2>3. Good(g, 0) BY <2>2
  <2> HIDE DEF Good
  <2> QED BY <1>1, <2>1, <2>3
<1>3. ASSUME NEW m \in 1..n, m - 1 \in M PROVE m \in M
  <2>1. PICK g \in [SUBSET S -> Int] : Good(g, m - 1)
    BY <1>3
  <2> DEFINE h == [T \in SUBSET S |->
                     IF Cardinality(T) = m
                       THEN f[Chosen(T)] + g[T \ {Chosen(T)}] ELSE g[T]]
  <2>2. ASSUME NEW T \in SUBSET S, T # {}
        PROVE  /\ Chosen(T) \in S /\ T \ {Chosen(T)} \in SUBSET S
               /\ f[Chosen(T)] + g[T \ {Chosen(T)}] \in Int
               /\ Cardinality(T \ {Chosen(T)}) = Cardinality(T) - 1
    <3>1. Chosen(T) \in T BY <2>2 DEF Chosen
    <3>2. /\ T \ {Chosen(T)} \in SUBSET S
          /\ Cardinality(T \ {Chosen(T)}) = Cardinality(T) - 1
      BY <3>1, Smaller
    <3>3. f[Chosen(T)] \in Int /\ g[T \ {Chosen(T)}] \in Int
      BY <3>1, <3>2 DEF IntOn
    <3> QED BY <3>1, <3>2, <3>3
  <2>3. ASSUME NEW T \in SUBSET S, Cardinality(T) = m PROVE T # {}
    <3>1. Cardinality({}) = 0 BY FS_EmptySet
    <3>2. m # 0 BY <1>1
    <3> QED BY <2>3, <3>1, <3>2
  <2>4. h \in [SUBSET S -> Int]
    BY <2>2, <2>3
  <2>5. ASSUME NEW T \in SUBSET S, Cardinality(T) <= m
        PROVE  h[T] = IF T = {} THEN 0 ELSE f[Chosen(T)] + h[T \ {Chosen(T)}]
    <3>1. Cardinality(T) \in Nat BY Smaller
    <3>2. CASE T = {}
      <4>1. Cardinality(T) # m BY <2>3, <3>2
      <4>2. h[T] = g[T] BY <4>1
      <4>3. Cardinality(T) <= m - 1 BY <1>1, <2>5, <3>1, <4>1
      <4>4. g[T] = 0 BY <2>1, <3>2, <4>3
      <4> HIDE DEF h
      <4> QED BY <3>2, <4>2, <4>4
    <3>3. CASE T # {}
      <4>1. /\ T \ {Chosen(T)} \in SUBSET S
            /\ Cardinality(T \ {Chosen(T)}) # m
        <5>1. /\ T \ {Chosen(T)} \in SUBSET S
              /\ Cardinality(T \ {Chosen(T)}) = Cardinality(T) - 1
          BY <2>2, <3>3
        <5> QED BY <1>1, <2>5, <3>1, <5>1
      <4>2. h[T \ {Chosen(T)}] = g[T \ {Chosen(T)}] BY <4>1
      <4>3. CASE Cardinality(T) = m
        <5>1. h[T] = f[Chosen(T)] + g[T \ {Chosen(T)}] BY <4>3
        <5> HIDE DEF h
        <5> QED BY <3>3, <4>2, <5>1
      <4>4. CASE Cardinality(T) # m
        <5>1. h[T] = g[T] BY <4>4
        <5>2. Cardinality(T) <= m - 1 BY <1>1, <2>5, <3>1, <4>4
        <5>3. g[T] = f[Chosen(T)] + g[T \ {Chosen(T)}] BY <2>1, <3>3, <5>2
        <5> HIDE DEF h
        <5> QED BY <3>3, <4>2, <5>1, <5>3
      <4> QED BY <4>3, <4>4
    <3> QED BY <3>2, <3>3
  <2> HIDE DEF h
  <2>6. Good(h, m) BY <2>5
  <2> HIDE DEF Good
  <2> QED BY <2>4, <2>6
<1>4. n \in M
  <2> HIDE DEF M
  <2>1. \A m \in 0..n : m \in M BY <1>1, <1>2, <1>3, UpTo
  <2> QED BY <1>1, <2>1
<1>5. PICK g \in [SUBSET S -> Int] : Good(g, n)
  BY <1>4
<1>6. ASSUME NEW T \in SUBSET S
      PROVE  g[T] = IF T = {} THEN 0 ELSE f[Chosen(T)] + g[T \ {Chosen(T)}]
  BY <1>5, Smaller
<1>7. IsSum(g, f, S)
  BY <1>6 DEF IsSum
<1> QED BY <1>7

(* A sum depends on the values on the set alone.                           *)
LEMMA SumUnique ==
  ASSUME NEW S, IsFiniteSet(S), NEW R, IsFiniteSet(R), R \subseteq S,
         NEW f, NEW g, IsSum(g, f, S), NEW e, NEW h, IsSum(h, e, R),
         \A x \in R : f[x] = e[x]
  PROVE  g[R] = h[R]
<1> DEFINE n == Cardinality(R)
           M == {m \in 0..n : \A T \in SUBSET R : Cardinality(T) = m => g[T] = h[T]}
<1>1. n \in Nat BY FS_CardinalityType
<1>2. 0 \in M
  <2>1. ASSUME NEW T \in SUBSET R, Cardinality(T) = 0 PROVE g[T] = h[T]
    <3>1. T = {} BY <2>1, Smaller
    <3>2. g[{}] = 0 /\ h[{}] = 0 BY DEF IsSum
    <3> QED BY <3>1, <3>2
  <2> QED BY <1>1, <2>1
<1>3. ASSUME NEW m \in 1..n, m - 1 \in M PROVE m \in M
  <2>1. ASSUME NEW T \in SUBSET R, Cardinality(T) = m PROVE g[T] = h[T]
    <3>1. T # {} /\ T \in SUBSET S
      <4>1. Cardinality({}) = 0 BY FS_EmptySet
      <4> QED BY <1>1, <2>1, <4>1
    <3> DEFINE x == Chosen(T)
    <3>2. x \in T /\ g[T] = f[x] + g[T \ {x}] BY <3>1, SumStep
    <3>3. h[T] = e[x] + h[T \ {x}]
      <4>1. T \in SUBSET R /\ T # {} BY <3>1
      <4> QED BY ONLY IsSum(h, e, R), <4>1, SumStep DEF x
    <3> HIDE DEF x
    <3>4. T \ {x} \in SUBSET R /\ Cardinality(T \ {x}) = m - 1
      BY <2>1, <3>2, Smaller
    <3>5. g[T \ {x}] = h[T \ {x}] BY <1>3, <3>4
    <3>6. f[x] = e[x] BY <3>2
    <3> QED BY <3>2, <3>3, <3>5, <3>6
  <2> QED BY <2>1
<1>4. n \in M
  <2> HIDE DEF M
  <2>1. \A m \in 0..n : m \in M BY <1>1, <1>2, <1>3, UpTo
  <2> QED BY <1>1, <2>1
<1> QED BY <1>4

(* The order in which the elements are added does not matter.              *)
LEMMA SumAnyOrder ==
  ASSUME NEW S, IsFiniteSet(S), NEW f, IntOn(f, S),
         NEW g \in [SUBSET S -> Int], IsSum(g, f, S), NEW x \in S
  PROVE  g[S] = f[x] + g[S \ {x}]
<1> DEFINE n == Cardinality(S)
           M == {m \in 0..n : \A T \in SUBSET S : Cardinality(T) = m =>
                   \A y \in T : g[T] = f[y] + g[T \ {y}]}
<1>1. n \in Nat BY FS_CardinalityType
<1>2. 0 \in M
  <2>1. ASSUME NEW T \in SUBSET S, Cardinality(T) = 0, NEW y \in T PROVE FALSE
    BY <2>1, Smaller
  <2> QED BY <1>1, <2>1
<1>3. ASSUME NEW m \in 1..n, m - 1 \in M PROVE m \in M
  <2>1. ASSUME NEW T \in SUBSET S, Cardinality(T) = m, NEW y \in T
        PROVE  g[T] = f[y] + g[T \ {y}]
    <3> DEFINE c == Chosen(T)
    <3>1. c \in T /\ g[T] = f[c] + g[T \ {c}]
      <4>1. T # {} OBVIOUS
      <4> QED BY <4>1, SumStep
    <3> HIDE DEF c
    <3>2. CASE c = y BY <3>1, <3>2
    <3>3. CASE c # y
      <4>1. /\ T \ {c} \in SUBSET S /\ Cardinality(T \ {c}) = m - 1
            /\ T \ {y} \in SUBSET S /\ Cardinality(T \ {y}) = m - 1
        BY <2>1, <3>1, Smaller
      <4>2. y \in T \ {c} /\ c \in T \ {y} BY <3>1, <3>3
      <4>3. g[T \ {c}] = f[y] + g[(T \ {c}) \ {y}] BY <1>3, <4>1, <4>2
      <4>4. g[T \ {y}] = f[c] + g[(T \ {y}) \ {c}] BY <1>3, <4>1, <4>2
      <4>5. PICK U \in SUBSET S : U = (T \ {c}) \ {y} /\ U = (T \ {y}) \ {c}
        OBVIOUS
      <4>6. f[c] \in Int /\ f[y] \in Int /\ g[U] \in Int BY <3>1 DEF IntOn
      <4>7. /\ g[T] = f[c] + g[T \ {c}] /\ g[T \ {c}] = f[y] + g[U]
            /\ g[T \ {y}] = f[c] + g[U]
        BY <3>1, <4>3, <4>4, <4>5
      <4> QED BY ONLY <4>6, <4>7
    <3> QED BY <3>2, <3>3
  <2> QED BY <2>1
<1>4. n \in M
  <2> HIDE DEF M
  <2>1. \A m \in 0..n : m \in M BY <1>1, <1>2, <1>3, UpTo
  <2> QED BY <1>1, <2>1
<1> QED BY <1>4

(* The sum over a finite set is an integer given by the recursion.         *)
LEMMA SumDefined ==
  ASSUME NEW S, IsFiniteSet(S), NEW f, IntOn(f, S)
  PROVE  \E g \in [SUBSET S -> Int] : IsSum(g, f, S) /\ SumOver(f, S) = g[S]
<1> DEFINE c == CHOOSE g : IsSum(g, f, S)
<1>1. PICK g \in [SUBSET S -> Int] : IsSum(g, f, S)
  BY SumExists
<1>2. IsSum(c, f, S) BY <1>1
<1>3. SumOver(f, S) = c[S] BY DEF SumOver
<1> HIDE DEF c
<1>4. c[S] = g[S] BY <1>1, <1>2, SumUnique
<1> QED BY <1>1, <1>3, <1>4

(* The sum over a finite set is an integer, and 0 over the empty set.      *)
LEMMA SumType ==
  ASSUME NEW S, IsFiniteSet(S), NEW f, IntOn(f, S)
  PROVE  SumOver(f, S) \in Int /\ (S = {} => SumOver(f, S) = 0)
<1>1. PICK g \in [SUBSET S -> Int] : IsSum(g, f, S) /\ SumOver(f, S) = g[S]
  BY SumDefined
<1>2. g[S] \in Int OBVIOUS
<1>3. ASSUME S = {} PROVE g[S] = 0 BY <1>1, <1>3 DEF IsSum
<1> QED BY <1>1, <1>2, <1>3

(* Functions that agree on the set have the same sum.                      *)
LEMMA SumSame ==
  ASSUME NEW S, IsFiniteSet(S), NEW f, NEW e,
         IntOn(f, S), \A x \in S : f[x] = e[x]
  PROVE  SumOver(f, S) = SumOver(e, S)
<1>1. PICK g \in [SUBSET S -> Int] : IsSum(g, f, S) /\ SumOver(f, S) = g[S]
  BY SumDefined
<1>2. IntOn(e, S) BY DEF IntOn
<1>3. PICK h \in [SUBSET S -> Int] : IsSum(h, e, S) /\ SumOver(e, S) = h[S]
  BY <1>2, SumDefined
<1>4. g[S] = h[S] BY <1>1, <1>3, SumUnique
<1> QED BY <1>1, <1>3, <1>4

(* A new element adds its value.                                           *)
LEMMA SumAdd ==
  ASSUME NEW S, IsFiniteSet(S), NEW x, x \notin S, NEW f,
         IntOn(f, S \cup {x})
  PROVE  /\ IsFiniteSet(S \cup {x})
         /\ SumOver(f, S \cup {x}) = SumOver(f, S) + f[x]
<1> DEFINE T == S \cup {x}
<1>1. IsFiniteSet(T) BY FS_AddElement
<1>2. T \ {x} = S /\ x \in T /\ S \subseteq T OBVIOUS
<1> HIDE DEF T
<1>3. IntOn(f, T) BY DEF T
<1>4. PICK g \in [SUBSET T -> Int] : IsSum(g, f, T) /\ SumOver(f, T) = g[T]
  BY <1>1, <1>3, SumDefined
<1>5. PICK h \in [SUBSET S -> Int] : IsSum(h, f, S) /\ SumOver(f, S) = h[S]
  <2>1. IntOn(f, S) BY <1>2, <1>3 DEF IntOn
  <2> QED BY <2>1, SumDefined
<1>6. g[T] = f[x] + g[T \ {x}]
  <2>1. x \in T BY <1>2
  <2> QED BY <2>1, <1>1, <1>3, <1>4, SumAnyOrder
<1>7. g[S] = h[S]
  BY <1>1, <1>2, <1>4, <1>5, SumUnique
<1>8. f[x] \in Int /\ h[S] \in Int BY <1>2, <1>3 DEF IntOn
<1>9. g[T] = f[x] + h[S] BY <1>2, <1>6, <1>7
<1>10. SumOver(f, T) = SumOver(f, S) + f[x]
  BY ONLY <1>4, <1>5, <1>8, <1>9
<1> QED BY <1>1, <1>10 DEF T
==============================================================================
