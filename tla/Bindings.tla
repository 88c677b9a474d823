------------------------------- MODULE Bindings -------------------------------
(***************************************************************************)
(* The bindings of PRoot (path/binding.c): which host path stands behind a *)
(* guest path, and the other way round.                                    *)
(*                                                                         *)
(* A path is the sequence of its components, canonical on its side; <<>>   *)
(* is "/".  A file-system name-space keeps its bindings in two lists,      *)
(* ordered for the look-up from the guest's and from the host's side: the  *)
(* first binding that contains a path is the one that is used.             *)
(***************************************************************************)
EXTENDS Naturals, Sequences, SequencesExt, FiniteSetsExt

Sides == {"guest", "host"}

\* "startup": listed by the configuration, owned by the lists only; a binding
\* made for an emulated mount also belongs to the name-space.
Binding(h, g, startup) == [host |-> h, guest |-> g, startup |-> startup]

EmptyLists == [guest |-> <<>>, host |-> <<>>]

\* compare_paths(): equal, or the first contains the second.
Encloses(p, q) == IsPrefix(p, q) /\ p # q

\* substitute_path_prefix()
Rebased(p, old, new) == new \o SubSeq(p, Len(old) + 1, Len(p))

-------------------------------------------------------------------------------
\* get_root(): the last binding of the guest's list is the one of "/".
GetRoot(bs) == Last(bs.guest).host

BelongsToGuestfs(bs, p) == IsPrefix(GetRoot(bs), p)

\* A host path below the root of the guest is not looked up in the bindings of
\* a prefix of the root.
Skipped(bs, side, p) ==
    side = "host" /\ GetRoot(bs) # <<>> /\ BelongsToGuestfs(bs, p)

Covering(bs, side, p) == {i \in 1..Len(bs[side]) : IsPrefix(bs[side][i][side], p)}

HasBinding(bs, side, p) == Covering(bs, side, p) # {} /\ ~Skipped(bs, side, p)

\* get_binding(), where there is one.
GetBinding(bs, side, p) == bs[side][Min(Covering(bs, side, p))]

\* substitute_binding(), where there is one.
Substitute(bs, side, p) ==
    LET b == GetBinding(bs, side, p)
    IN IF side = "guest" THEN Rebased(p, b.guest, b.host) ELSE Rebased(p, b.host, b.guest)

-------------------------------------------------------------------------------
Without(list, b) == SelectSeq(list, LAMBDA x : x # b)

RemoveFromAll(bs, b) == [side \in Sides |-> Without(bs[side], b)]

\* Mutant: before what it contains instead of after it.
Position_Enclosed(list, side, b) ==
    LET inside == {i \in 1..Len(list) : Encloses(b[side], list[i][side])}
    IN IF inside # {} THEN Min(inside) ELSE 1

\* Where insort_binding() puts a binding that replaces none: after the last one
\* it contains, else first.  (Its search for "the deepest container" starts from
\* the head of the list, so that it never finds one.)
Position(list, side, b) ==
    LET inside == {i \in 1..Len(list) : \/ Encloses(b[side], list[i][side])
                                        \/ side = "host" /\ list[i][side] = b[side]}
    IN IF inside # {} THEN Max(inside) + 1 ELSE 1

Equal(list, b) == {i \in 1..Len(list) : list[i].guest = b.guest}

\* Mutant: the host's list keeps the binding that was replaced.
Insort_Stale(bs, b) ==
    LET same == Equal(bs.guest, b)
        guest == IF same = {} THEN InsertAt(bs.guest, Position(bs.guest, "guest", b), b)
                 ELSE ReplaceAt(bs.guest, Min(same), b)
    IN [guest |-> guest, host |-> InsertAt(bs.host, Position(bs.host, "host", b), b)]

\* insort_binding2(): into both lists; on the guest's side the last binding of a
\* path replaces the one before, which leaves all lists.
Insort(bs, b) ==
    LET same  == Equal(bs.guest, b)
        guest == IF same = {} THEN InsertAt(bs.guest, Position(bs.guest, "guest", b), b)
                 ELSE ReplaceAt(bs.guest, Min(same), b)
        host  == IF same = {} THEN bs.host ELSE Without(bs.host, bs.guest[Min(same)])
    IN [guest |-> guest, host |-> InsertAt(host, Position(host, "host", b), b)]

-------------------------------------------------------------------------------
(* What makes the look-up right. *)

\* No binding hides behind one that contains it.
SortedList(list, side) ==
    \A i, j \in 1..Len(list) : i < j => ~Encloses(list[i][side], list[j][side])

\* Both lists hold the same bindings, one for each guest path.
ListsAgree(bs) ==
    /\ ToSet(bs.guest) = ToSet(bs.host)
    /\ Len(bs.host) = Len(bs.guest)
    /\ \A i, j \in 1..Len(bs.guest) : bs.guest[i].guest = bs.guest[j].guest => i = j

\* "/" is always bound, and its binding is the last.
RootIsLast(bs) == bs.guest # <<>> /\ Last(bs.guest).guest = <<>>
===============================================================================
