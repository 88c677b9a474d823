------------------------------ MODULE MCSysVSem ------------------------------
(* Small instances of SysVSem: the sops arrays the guests may pass.        *)
EXTENDS SysVSem, TLC

Op(n, op) == [sem_num |-> n, sem_op |-> op, nowait |-> FALSE]
TryOp(n, op) == [sem_num |-> n, sem_op |-> op, nowait |-> TRUE]

(* Single operations: wait for zero, take two, give one.                   *)
Singles == {<<Op(0, 0)>>, <<Op(0, -2)>>, <<Op(0, 1)>>}
(* Two semaphores at once, and a conditional take of the second.           *)
Paired == {<<Op(0, -1), Op(1, -1)>>, <<Op(0, 1)>>, <<Op(0, -1), TryOp(1, -1)>>,
           <<Op(1, 1), Op(0, 1)>>}
Symmetry == Permutations(Tracees)
==============================================================================
