------------------------------ MODULE MCSysVShm ------------------------------
(* Small instances of SysVShm.                                             *)
EXTENDS SysVShm, TLC

Symmetry == Permutations(Tracees)
==============================================================================
