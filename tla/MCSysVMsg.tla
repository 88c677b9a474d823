------------------------------ MODULE MCSysVMsg ------------------------------
(* Small instances of SysVMsg: the messages and msgrcv calls of guests.    *)
EXTENDS SysVMsg, TLC

Rcv(typ, sz) == [NoArgs EXCEPT !.msgtyp = typ, !.msgsz = sz]

OneText == {[mtype |-> 1, length |-> 1]}
TwoTexts == {[mtype |-> 1, length |-> 1], [mtype |-> 2, length |-> 1]}

(* Any message, only type 2.                                               *)
ByType == {Rcv(0, 1), Rcv(2, 1)}
(* At most type 1; all but type 2, cut short; peek at the second message   *)
(* of the queue; a buffer that cannot be written.                          *)
AllModes == {Rcv(-1, 1),
             [Rcv(2, 0) EXCEPT !.except = TRUE, !.noerror = TRUE],
             [Rcv(1, 1) EXCEPT !.copy = TRUE, !.nowait = TRUE],
             [Rcv(0, 1) EXCEPT !.fault = TRUE]}
Untyped == {Rcv(0, 1)}

Symmetry == Permutations(Tracees)
==============================================================================
