----------------------------- MODULE MCVmService -----------------------------
(* Instances of VmService with both arches.                                *)
EXTENDS VmService
==============================================================================
