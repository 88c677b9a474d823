------------------------------ MODULE OwnerGraph ------------------------------
(***************************************************************************)
(* What talloc promises of memory that has several owners: a piece lives   *)
(* exactly as long as a chain of owners leads from it to the top.          *)
(***************************************************************************)
EXTENDS Integers, FiniteSets

CONSTANTS Memory,   \* the pieces of memory there can be
          Top       \* the owner of what belongs to nobody

VARIABLE owners     \* for each living piece how often each owner holds it

Owner == Memory \cup {Top}
Living(own) == DOMAIN own
Holds(own, o, c) == own[c][o] > 0

\* The pieces a chain of owners leads to from the top.
Reached(own) ==
    LET more[n \in 0..Cardinality(Memory)] ==
          IF n = 0 THEN {Top}
          ELSE LET less == more[n - 1]
               IN less \cup {c \in Living(own) : \E o \in less : Holds(own, o, c)}
    IN more[Cardinality(Memory)] \ {Top}

\* What is not reached is gone, and owns nothing any more.
Collected(own) ==
    LET kept == Reached(own)
    IN [c \in kept |-> [o \in Owner |-> IF o \in kept \cup {Top} THEN own[c][o] ELSE 0]]

Only(o) == [x \in Owner |-> IF x = o THEN 1 ELSE 0]
Without(own, o, c) == [own EXCEPT ![c][o] = @ - 1]
With(own, o, c) == [own EXCEPT ![c][o] = @ + 1]

Create(o, c) ==
    /\ c \notin Living(owners)
    /\ owners' = [x \in Living(owners) \cup {c} |-> IF x = c THEN Only(o) ELSE owners[x]]

Share(o, c) == owners' = With(owners, o, c)

Release(o, c) ==
    /\ Holds(owners, o, c)
    /\ owners' = Collected(Without(owners, o, c))

Move(from, to, c) ==
    /\ Holds(owners, from, c)
    /\ owners' = With(Without(owners, from, c), to, c)

\* An owner releases everything it holds, or all but one thing.
Clear(o, but) ==
    owners' = Collected([c \in Living(owners) |-> IF c = but THEN owners[c] ELSE [owners[c] EXCEPT ![o] = 0]])

OwnerInit == owners = [c \in {} |-> Only(Top)]

OwnerNext ==
    /\ owners' # owners
    /\ \/ \E o \in Owner, c \in Memory : Create(o, c)
       \/ \E o \in Living(owners) \cup {Top}, c \in Living(owners) :
            \/ Share(o, c)
            \/ Release(o, c)
            \/ \E to \in Living(owners) \cup {Top} : Move(o, to, c)
       \/ \E o \in Living(owners), but \in Owner : Clear(o, but)

OwnerSpec == OwnerInit /\ [][OwnerNext]_owners
================================================================================
