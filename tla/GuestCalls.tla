------------------------------ MODULE GuestCalls ------------------------------
(***************************************************************************)
(* What a guest program is promised about its system calls, whatever the   *)
(* kernel and PRoot do in between: a call that was made is answered, once, *)
(* and with the result that this kind of call has.                         *)
(***************************************************************************)
CONSTANTS Kinds,        \* the kinds of system calls a guest makes
          Expected(_)   \* the result a call of a kind must be answered with

VARIABLES asked,        \* the call the guest is in, "none" in user code
          answer        \* the result of its last call

Init == asked = "none" /\ answer = "none"

Ask == /\ asked = "none"
       /\ asked' \in Kinds
       /\ UNCHANGED answer

Answer == /\ asked # "none"
          /\ asked' = "none"
          /\ answer' = Expected(asked)

vars == <<asked, answer>>

Next == Ask \/ Answer

Spec == Init /\ [][Next]_vars
===============================================================================
