----------------------------- MODULE IpcIdProofs -----------------------------
(***************************************************************************)
(* Identifiers are exact as long as neither field overflows: at most       *)
(* IdxMod - 1 slots, and fewer removals of a slot than half of GenMod.     *)
(* Runs id_wrap and id_full show that both limits are sharp.               *)
(***************************************************************************)
EXTENDS IpcId, TLAPS

FieldsFit == MaxObjects < IdxMod /\ 2 * MaxRemovals < GenMod

(* The strengthening: the generation is the number of removals, and an     *)
(* identifier is made of its slot and of what that number was.             *)
Inv ==
  /\ IdTypeOK
  /\ \A i \in 1..Len(objects) : objects[i].generation = removals[i]
  /\ \A h \in issued : /\ h.slot <= Len(objects)
                       /\ h.removals <= removals[h.slot]
                       /\ h.id = h.slot + h.removals * IdxMod

(* The fields of an identifier can be read back (LOOKUP_IPC_OBJECT masks   *)
(* and shifts what IPC_OBJECT_ID packed).                                  *)
LEMMA Fields ==
  ASSUME NEW m \in Nat, m > 1, NEW x \in 0..(m - 1), NEW g \in Nat
  PROVE  /\ (x + g * m) % m = x
         /\ (x + g * m) \div m = g
<1> DEFINE id == x + g * m
           q == id \div m
           r == id % m
<1>1. g * m \in Nat
  OBVIOUS
<1>2. id \in Nat
  BY <1>1
<1>3. q \in Int /\ r \in 0..(m - 1) /\ id = m * q + r
  BY <1>2
<1> HIDE DEF q, r
<1>4. CASE q > g
  <2>1. m * (q - g) >= m
    BY <1>3, <1>4
  <2>2. m * (q - g) = x - r
    BY <1>3
  <2> QED BY <1>3, <2>1, <2>2
<1>5. CASE q < g
  <2>1. m * (g - q) >= m
    BY <1>3, <1>5
  <2>2. m * (g - q) = r - x
    BY <1>3
  <2> QED BY <1>3, <2>1, <2>2
<1>6. CASE q = g
  BY <1>3, <1>6 DEF q, r
<1> QED BY <1>3, <1>4, <1>5, <1>6

(* What is issued under the invariant keeps its part of it.                *)
LEMMA IssuedId ==
  ASSUME FieldsFit, NEW i \in 1..MaxObjects, NEW n \in 0..MaxRemovals
  PROVE  /\ IPC_OBJECT_ID(i, n) = i + n * IdxMod
         /\ IPC_OBJECT_ID(i, n) \in Int
<1>1. i < IdxMod
  BY IdAssumption DEF FieldsFit
<1>2. n * IdxMod \in Int
  BY IdAssumption
<1> QED BY <1>1, <1>2 DEF IPC_OBJECT_ID

(* The empty table satisfies the invariant.                                *)
LEMMA InitInv == IdInit => Inv
BY IdAssumption DEF IdInit, Inv, IdTypeOK

(* The entries of one slot.                                                *)
LEMMA SlotTypes ==
  ASSUME Inv, NEW i \in 1..Len(objects)
  PROVE  /\ Len(objects) \in Nat
         /\ i \in 1..MaxObjects
         /\ objects[i] \in [valid : BOOLEAN, generation : Generations]
         /\ objects[i].generation \in Generations
         /\ removals[i] \in 0..MaxRemovals /\ removals[i] \in Int
         /\ objects[i].generation = removals[i]
<1>1. Len(objects) \in Nat /\ i \in 1..MaxObjects
  BY IdAssumption DEF Inv, IdTypeOK
<1>2. objects[i] \in [valid : BOOLEAN, generation : Generations]
  <2>1. PICK S : S = [valid : BOOLEAN, generation : Generations]
    OBVIOUS
  <2>2. objects \in Seq(S)
    BY <2>1 DEF Inv, IdTypeOK
  <2>3. objects[i] \in S
    BY <2>2
  <2> QED BY <2>1, <2>3
<1>3. removals[i] \in 0..MaxRemovals
  <2>1. PICK S : S = 0..MaxRemovals
    OBVIOUS
  <2>2. removals \in Seq(S) /\ Len(removals) = Len(objects)
    BY <2>1 DEF Inv, IdTypeOK
  <2>3. removals[i] \in S
    BY <2>2
  <2> QED BY <2>1, <2>3
<1>4. objects[i].generation = removals[i]
  BY DEF Inv
<1> QED BY <1>1, <1>2, <1>3, <1>4, IdAssumption

(* What the invariant says of an issued identifier.                        *)
LEMMA HandleTypes ==
  ASSUME Inv, NEW h \in issued
  PROVE  /\ h.id \in Int /\ h.slot \in 1..Len(objects)
         /\ h.removals \in 0..MaxRemovals
         /\ h.removals <= removals[h.slot]
         /\ h.id = h.slot + h.removals * IdxMod
<1>1. h \in [id : Int, slot : 1..MaxObjects, removals : 0..MaxRemovals]
  BY DEF Inv, IdTypeOK
<1>2. Len(objects) \in Nat
  BY DEF Inv, IdTypeOK
<1>3. /\ h.slot <= Len(objects) /\ h.removals <= removals[h.slot]
      /\ h.id = h.slot + h.removals * IdxMod
  BY DEF Inv
<1> QED BY <1>1, <1>2, <1>3, IdAssumption

(* IPC_OBJECTS_ALLOC taking a free slot keeps the invariant: the slot's    *)
(* generation grew at the removal, so the identifier is a new one.         *)
LEMMA ReuseInv ==
  ASSUME FieldsFit, Inv, NEW i \in 1..Len(objects), ReuseSlot(i)
  PROVE  Inv'
<1>1. /\ objects[i].generation = removals[i]
      /\ removals[i] \in 0..MaxRemovals
      /\ i \in 1..MaxObjects
      /\ objects[i].generation \in Generations
  BY SlotTypes
<1>2. /\ IPC_OBJECT_ID(i, removals[i]) = i + removals[i] * IdxMod
      /\ IPC_OBJECT_ID(i, removals[i]) \in Int
  BY <1>1, IssuedId
<1> DEFINE new == [id |-> IPC_OBJECT_ID(i, removals[i]), slot |-> i,
                   removals |-> removals[i]]
<1>3. issued' = issued \cup {new} /\ removals' = removals
  BY <1>1 DEF ReuseSlot, Issue
<1>4. /\ objects' \in Seq([valid : BOOLEAN, generation : Generations])
      /\ Len(objects') = Len(objects)
      /\ \A j \in 1..Len(objects) : objects'[j].generation = objects[j].generation
  <2>1. PICK o \in [valid : BOOLEAN, generation : Generations] : o = objects[i]
    BY SlotTypes
  <2>2. objects' = [objects EXCEPT ![i] = [o EXCEPT !.valid = TRUE]]
    BY <2>1 DEF ReuseSlot
  <2>3. PICK p : p = [o EXCEPT !.valid = TRUE]
    OBVIOUS
  <2>4. /\ p \in [valid : BOOLEAN, generation : Generations]
        /\ p.generation = objects[i].generation
    BY <2>1, <2>3
  <2>5. objects' = [objects EXCEPT ![i] = p]
    BY <2>2, <2>3
  <2>6. objects \in Seq([valid : BOOLEAN, generation : Generations])
    BY DEF Inv, IdTypeOK
  <2> QED BY <2>4, <2>5, <2>6
<1>5. IdTypeOK'
  BY <1>1, <1>2, <1>3, <1>4 DEF Inv, IdTypeOK
<1>6. \A j \in 1..Len(objects') : objects'[j].generation = removals'[j]
  BY <1>3, <1>4 DEF Inv
<1>7. ASSUME NEW h \in issued'
      PROVE  h.slot <= Len(objects') /\ h.removals <= removals'[h.slot]
             /\ h.id = h.slot + h.removals * IdxMod
  <2>1. CASE h \in issued
    BY <1>3, <1>4, <2>1 DEF Inv
  <2>2. CASE h = new
    BY <1>1, <1>2, <1>3, <1>4, <2>2
  <2> QED BY <1>3, <2>1, <2>2
<1> QED BY <1>5, <1>6, <1>7 DEF Inv

(* IPC_OBJECTS_ALLOC taking a slot at the end: no older identifier names   *)
(* that slot.                                                              *)
LEMMA GrowInv ==
  ASSUME FieldsFit, Inv, GrowObjects
  PROVE  Inv'
<1> DEFINE n == Len(objects)
           new == [id |-> IPC_OBJECT_ID(n + 1, 0), slot |-> n + 1, removals |-> 0]
<1>1. n \in Nat /\ n + 1 \in 1..MaxObjects /\ Len(removals) = n
  BY IdAssumption DEF GrowObjects, Inv, IdTypeOK
<1>2. 0 \in Generations /\ 0 \in 0..MaxRemovals
  BY IdAssumption DEF Generations
<1>3. /\ IPC_OBJECT_ID(n + 1, 0) = (n + 1) + 0 * IdxMod
      /\ IPC_OBJECT_ID(n + 1, 0) \in Int
  BY <1>1, <1>2, IssuedId
<1>4. issued' = issued \cup {new}
  BY DEF GrowObjects, Issue
<1>5. /\ objects' \in Seq([valid : BOOLEAN, generation : Generations])
      /\ Len(objects') = n + 1
      /\ \A j \in 1..n : objects'[j] = objects[j]
      /\ objects'[n + 1].generation = 0
  BY <1>2 DEF GrowObjects, Inv, IdTypeOK
<1>6. /\ removals' \in Seq(0..MaxRemovals)
      /\ Len(removals') = n + 1
      /\ \A j \in 1..n : removals'[j] = removals[j]
      /\ removals'[n + 1] = 0
  BY <1>1, <1>2 DEF GrowObjects, Inv, IdTypeOK
<1>7. IdTypeOK'
  BY <1>1, <1>2, <1>3, <1>4, <1>5, <1>6 DEF Inv, IdTypeOK
<1>8. \A j \in 1..Len(objects') : objects'[j].generation = removals'[j]
  BY <1>1, <1>5, <1>6 DEF Inv
<1>9. ASSUME NEW h \in issued'
      PROVE  h.slot <= Len(objects') /\ h.removals <= removals'[h.slot]
             /\ h.id = h.slot + h.removals * IdxMod
  <2>1. CASE h \in issued
    <3>1. h.slot \in 1..n
      BY <2>1, <1>1 DEF Inv, IdTypeOK
    <3> QED BY <3>1, <2>1, <1>1, <1>5, <1>6 DEF Inv
  <2>2. CASE h = new
    BY <1>1, <1>3, <1>5, <1>6, <2>2
  <2> QED BY <1>4, <2>1, <2>2
<1> QED BY <1>7, <1>8, <1>9 DEF Inv

(* Removing an object frees its slot and moves its generation on.          *)
LEMMA RemoveInv ==
  ASSUME FieldsFit, Inv, NEW id \in Int, RemoveObject(id)
  PROVE  Inv'
<1> DEFINE i == LOOKUP_IPC_OBJECT(id)
<1>1. i \in 1..Len(objects)
  BY IdAssumption DEF RemoveObject, LOOKUP_IPC_OBJECT
<1>2. /\ removals[i] \in 0..MaxRemovals /\ removals[i] < MaxRemovals
      /\ objects[i].generation = removals[i]
  BY <1>1, SlotTypes DEF RemoveObject
<1>3. /\ NextGeneration(objects[i].generation) = removals[i] + 1
      /\ removals[i] + 1 \in Generations
  BY <1>2, IdAssumption DEF NextGeneration, Generations, FieldsFit
<1>4. /\ objects' = [objects EXCEPT ![i] =
             [valid |-> FALSE, generation |-> removals[i] + 1]]
      /\ removals' = [removals EXCEPT ![i] = @ + 1]
      /\ issued' = issued
  BY <1>3 DEF RemoveObject
<1> HIDE DEF i
<1>5. /\ objects' \in Seq([valid : BOOLEAN, generation : Generations])
      /\ Len(objects') = Len(objects)
      /\ \A j \in 1..Len(objects) : objects'[j].generation =
             IF j = i THEN removals[i] + 1 ELSE objects[j].generation
  BY <1>1, <1>3, <1>4 DEF Inv, IdTypeOK
<1>6. /\ removals' \in Seq(0..MaxRemovals)
      /\ Len(removals') = Len(removals)
      /\ \A j \in 1..Len(objects) : removals'[j] =
             IF j = i THEN removals[i] + 1 ELSE removals[j]
  <2>1. PICK m : m = removals[i] + 1
    OBVIOUS
  <2>2. m \in 0..MaxRemovals /\ removals' = [removals EXCEPT ![i] = m]
    BY <2>1, <1>2, <1>4, IdAssumption
  <2>3. removals \in Seq(0..MaxRemovals) /\ Len(removals) = Len(objects)
    BY DEF Inv, IdTypeOK
  <2> QED BY <1>1, <2>1, <2>2, <2>3
<1>7. IdTypeOK'
  BY <1>4, <1>5, <1>6 DEF Inv, IdTypeOK
<1>8. \A j \in 1..Len(objects') : objects'[j].generation = removals'[j]
  BY <1>5, <1>6 DEF Inv
<1>9. ASSUME NEW h \in issued'
      PROVE  h.slot <= Len(objects') /\ h.removals <= removals'[h.slot]
             /\ h.id = h.slot + h.removals * IdxMod
  <2>1. h.slot \in 1..Len(objects) /\ h.removals \in Int
        /\ h.removals <= removals[h.slot] /\ removals[h.slot] \in Int
        /\ h.id = h.slot + h.removals * IdxMod
    <3>1. h \in issued
      BY <1>4
    <3> QED BY <3>1, HandleTypes, SlotTypes, IdAssumption
  <2>2. h.removals <= removals'[h.slot]
    BY <2>1, <1>6
  <2> QED BY <2>1, <2>2, <1>5
<1> QED BY <1>7, <1>8, <1>9 DEF Inv

(* Every step of the table keeps the invariant.                            *)
LEMMA StepInv == ASSUME FieldsFit PROVE Inv /\ [IdNext]_idVars => Inv'
<1> SUFFICES ASSUME Inv, [IdNext]_idVars PROVE Inv'
  OBVIOUS
<1>1. CASE UNCHANGED idVars
  BY <1>1 DEF idVars, Inv, IdTypeOK
<1>2. ASSUME NEW i \in 1..Len(objects), ReuseSlot(i) PROVE Inv'
  BY <1>2, ReuseInv
<1>3. CASE GrowObjects
  BY <1>3, GrowInv
<1>4. ASSUME NEW h \in issued, RemoveObject(h.id) PROVE Inv'
  <2>1. h.id \in Int
    BY HandleTypes
  <2> QED BY <2>1, <1>4, RemoveInv
<1>5. ASSUME NEW h \in issued, UseId(h.id) PROVE Inv'
  BY <1>5, <1>1 DEF UseId
<1> QED BY <1>1, <1>2, <1>3, <1>4, <1>5 DEF IdNext

(* The lookup of an issued identifier under the invariant.                 *)
LEMMA InvExact == ASSUME FieldsFit, Inv PROVE LookupIsExact
<1> SUFFICES ASSUME NEW h \in issued
             PROVE  LOOKUP_IPC_OBJECT(h.id) = IF LiveId(h) THEN h.slot ELSE 0
  BY DEF LookupIsExact
<1>1. PICK x : x = h.slot
  OBVIOUS
<1>2. PICK n : n = h.removals
  OBVIOUS
<1>3. /\ x \in 1..Len(objects) /\ x \in 1..MaxObjects
      /\ n \in 0..MaxRemovals
      /\ h.id = x + n * IdxMod
      /\ objects[x].generation = removals[x]
      /\ removals[x] \in 0..MaxRemovals
  BY <1>1, <1>2, HandleTypes, SlotTypes
<1>4. x \in 0..(IdxMod - 1) /\ n \in Nat /\ n \in 0..(GenMod - 1)
  BY <1>3, IdAssumption DEF FieldsFit
<1>5. h.id % IdxMod = x /\ h.id \div IdxMod = n
  <2>1. IdxMod \in Nat /\ IdxMod > 1
    BY IdAssumption
  <2>2. (x + n * IdxMod) % IdxMod = x /\ (x + n * IdxMod) \div IdxMod = n
    BY <2>1, <1>4, Fields
  <2> QED BY <2>2, <1>3
<1>6. n % GenMod = n
  BY <1>4, IdAssumption
<1>7. LOOKUP_IPC_OBJECT(h.id) =
        IF objects[x].valid /\ removals[x] = n THEN x ELSE 0
  BY <1>3, <1>5, <1>6 DEF LOOKUP_IPC_OBJECT
<1>8. LiveId(h) <=> objects[x].valid /\ removals[x] = n
  BY <1>1, <1>2 DEF LiveId
<1> QED BY <1>1, <1>7, <1>8

(* While neither field of an identifier overflows, an identifier finds the *)
(* object it was issued for as long as that exists and is refused ever     *)
(* after (LOOKUP_IPC_OBJECT, whatever the widths of the fields).           *)
THEOREM IdsExact == FieldsFit /\ IdSpec => []LookupIsExact
<1> SUFFICES ASSUME FieldsFit PROVE IdSpec => []LookupIsExact
  OBVIOUS
<1>1. IdInit => Inv
  BY InitInv
<1>2. Inv /\ [IdNext]_idVars => Inv'
  BY StepInv
<1>3. Inv => LookupIsExact
  BY InvExact
<1> QED BY <1>1, <1>2, <1>3, PTL DEF IdSpec

=============================================================================
