------------------------------- MODULE HardLinks -------------------------------
(***************************************************************************)
(* What a guest expects of hard links: names for files, each file there as *)
(* long as it has a name, whatever becomes of its other names.             *)
(***************************************************************************)
CONSTANTS GuestNames, Contents, NoContent

VARIABLE dirs      \* the file behind each name

Taken(n) == dirs[n] # NoContent

Create(n, x) ==
    /\ ~Taken(n) /\ \A m \in GuestNames : dirs[m] # x
    /\ dirs' = [dirs EXCEPT ![n] = x]
Link(old, new) ==
    /\ Taken(old) /\ ~Taken(new)
    /\ dirs' = [dirs EXCEPT ![new] = dirs[old]]
Unlink(n) == dirs' = [dirs EXCEPT ![n] = NoContent]
Rename(old, new) ==
    /\ Taken(old) /\ dirs[old] # dirs[new]     \* of two names of a file nothing becomes
    /\ dirs' = [dirs EXCEPT ![new] = dirs[old], ![old] = NoContent]
Exchange(old, new) ==
    /\ Taken(old) /\ Taken(new)
    /\ dirs' = [dirs EXCEPT ![new] = dirs[old], ![old] = dirs[new]]

LinkInit == dirs = [n \in GuestNames |-> NoContent]
LinkNext ==
    /\ dirs' # dirs
    /\ \E n \in GuestNames :
         \/ \E x \in Contents : Create(n, x)
         \/ Unlink(n)
         \/ \E new \in GuestNames : Link(n, new) \/ Rename(n, new) \/ Exchange(n, new)
LinkSpec == LinkInit /\ [][LinkNext]_dirs
================================================================================
