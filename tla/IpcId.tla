-------------------------------- MODULE IpcId --------------------------------
(***************************************************************************)
(* Identifiers of System V IPC objects (extension/sysvipc/sysvipc_internal *)
(* .h and the *get and IPC_RMID handlers).                                 *)
(*                                                                         *)
(* An identifier packs the slot of the object and the slot's generation,   *)
(* which IPC_RMID counts up so that identifiers of removed objects are     *)
(* refused.  The generation is an int16_t, the identifier a C int.  The    *)
(* modules of the three kinds of objects use the pair itself.              *)
(***************************************************************************)
EXTENDS Integers, Sequences

CONSTANTS
  IdxMod,       \* 4096 in the code: the low 12 bits are the slot, from 1
  GenMod,       \* 65536 in the code: values of the generation
  MaxObjects,   \* slots; only semaphores have a limit, SYSVIPC_MAX_SEMS
  MaxRemovals   \* bound: removals of one slot

ASSUME IdAssumption ==
  /\ IdxMod \in Nat /\ IdxMod > 1
  /\ GenMod \in Nat /\ GenMod > 1 /\ GenMod % 2 = 0
  /\ MaxObjects \in Nat /\ MaxObjects < 2 * IdxMod
  /\ MaxRemovals \in Nat

VARIABLES
  objects,      \* the namespace's array of one kind of object
  removals,     \* history: how often each slot was removed
  issued        \* history: identifiers returned, and for what

idVars == <<objects, removals, issued>>

Generations == (-(GenMod \div 2))..((GenMod \div 2) - 1)

-----------------------------------------------------------------------------
(* g | 1                                                                   *)
OrOne(g) == IF g % 2 = 0 THEN g + 1 ELSE g

(* Mutant: the generation is left out.                                     *)
IPC_OBJECT_ID_Plain(i, g) == i

(* IPC_OBJECT_ID: i | (g << 12).  A slot number of 13 bits runs into the   *)
(* generation.                                                             *)
IPC_OBJECT_ID(i, g) ==
  IF i < IdxMod THEN i + g * IdxMod
  ELSE (i - IdxMod) + OrOne(g) * IdxMod

(* LOOKUP_IPC_OBJECT: the slot, or 0 for EINVAL.  The generation is        *)
(* compared as a signed number with 16 bits that are not.                  *)
LOOKUP_IPC_OBJECT(id) ==
  LET i == id % IdxMod
  IN  IF /\ i > 0 /\ i <= Len(objects)
         /\ objects[i].valid
         /\ objects[i].generation = (id \div IdxMod) % GenMod
      THEN i ELSE 0

(* generation++ on an int16_t; (generation + 1) & 0xFFFF stored in one.    *)
NextGeneration(g) ==
  IF g + 1 = GenMod \div 2 THEN -(GenMod \div 2) ELSE g + 1

-----------------------------------------------------------------------------
FreeSlots == {i \in 1..Len(objects) : ~objects[i].valid}

Issue(i, g, n) == issued \cup {[id |-> IPC_OBJECT_ID(i, g), slot |-> i, removals |-> n]}

(* semget, msgget and shmget when they create: the first free slot.        *)
ReuseSlot(i) ==
  /\ i \in FreeSlots /\ \A j \in FreeSlots : i <= j
  /\ objects' = [objects EXCEPT ![i].valid = TRUE]
  /\ issued' = Issue(i, objects[i].generation, removals[i])
  /\ UNCHANGED removals

(* ... or else a new one.                                                  *)
GrowObjects ==
  /\ FreeSlots = {}
  /\ Len(objects) < MaxObjects
  /\ objects' = Append(objects, [valid |-> TRUE, generation |-> 0])
  /\ removals' = Append(removals, 0)
  /\ issued' = Issue(Len(objects) + 1, 0, 0)

(* IPC_RMID of what id stands for; the end of it for a shared memory       *)
(* segment that was still mapped.                                          *)
RemoveObject(id) ==
  LET i == LOOKUP_IPC_OBJECT(id)
  IN  /\ i # 0
      /\ removals[i] < MaxRemovals
      /\ objects' = [objects EXCEPT ![i] =
           [valid |-> FALSE, generation |-> NextGeneration(@.generation)]]
      /\ removals' = [removals EXCEPT ![i] = @ + 1]
      /\ UNCHANGED issued

(* Every other call on an identifier only looks its object up.             *)
UseId(id) == UNCHANGED idVars

IdInit == objects = <<>> /\ removals = <<>> /\ issued = {}

IdNext ==
  \/ \E i \in 1..Len(objects) : ReuseSlot(i)
  \/ GrowObjects
  \/ \E h \in issued : RemoveObject(h.id) \/ UseId(h.id)

IdSpec == IdInit /\ [][IdNext]_idVars

-----------------------------------------------------------------------------
(* Type invariant: the generation stays an int16_t.                        *)
IdTypeOK ==
  /\ objects \in Seq([valid : BOOLEAN, generation : Generations])
  /\ Len(objects) <= MaxObjects
  /\ removals \in Seq(0..MaxRemovals) /\ Len(removals) = Len(objects)
  /\ issued \subseteq [id : Int, slot : 1..MaxObjects, removals : 0..MaxRemovals]

(* The object an identifier was issued for still exists.                   *)
LiveId(h) == objects[h.slot].valid /\ removals[h.slot] = h.removals

(* An identifier finds the object it was issued for as long as that        *)
(* exists, and is refused for ever after, also when the slot has another   *)
(* object (sysvipc_internal.h 204: "Find given IPC object requested by     *)
(* tracee").                                                               *)
LookupIsExact ==
  \A h \in issued : LOOKUP_IPC_OBJECT(h.id) = IF LiveId(h) THEN h.slot ELSE 0

=============================================================================
