----------------------------- MODULE LinkToSymlink -----------------------------
(***************************************************************************)
(* extension/link2symlink: hard links on a host that refuses them.  A file *)
(* a that is linked is moved to the final a.k.count, an intermediate a.k   *)
(* is a symbolic link to it, and every name of the file is a symbolic link *)
(* to the intermediate: the count in the final's name is that of names.    *)
(* All that link() does happens when the call is entered; unlink() and     *)
(* rename() change the count then, and the name when the kernel runs them. *)
(***************************************************************************)
EXTENDS Integers, SequencesExt

CONSTANTS GuestNames,    \* names of files, in one directory
          Contents,      \* what files can hold
          NoContent,
          Linkers,       \* the tracees
          RenameFlags,   \* of renameat2: "none", "noreplace", "exchange"
          Careless,      \* the calls that may fail, name a file twice, or meet on a name
          MaxSuffix,     \* 999 intermediates of one name
          CountBase,     \* 10000: the count has four digits
          MaxLinkCalls   \* bound: calls made

\* NoContent stands for no file; renameat2 knows no other flags here.
ASSUME LinkerAssumption ==
    /\ NoContent \notin Contents \cup GuestNames
    /\ RenameFlags \subseteq {"none", "noreplace", "exchange"}
    /\ MaxSuffix \in Nat /\ CountBase \in Nat

VARIABLES disc,      \* the host's directory: by name, content or the target of a link
          calling,   \* per tracee the call between its entry and the kernel
          truth,     \* what the completed calls make of each name
          shown,     \* the content each name leads to
          halted, linkCalls

linkVars == <<disc, calling, truth, shown, halted, linkCalls>>

-------------------------------------------------------------------------------
(* The host's file system.  A name a is <<a>>, an intermediate <<a, k>>, a *)
(* final <<a, k, count>>.                                                  *)

Content(x) == [file |-> x]
LinkTo(h) == [link |-> h]
IsLink(d, h) == h \in DOMAIN d /\ "link" \in DOMAIN d[h]
Except(d, h) == [x \in DOMAIN d \ {h} |-> d[x]]
Put(d, h, node) == [x \in DOMAIN d \cup {h} |-> IF x = h THEN node ELSE d[x]]

HostRename(from, to) == [op |-> "rename", from |-> from, to |-> to]
HostSymlink(target, at) == [op |-> "symlink", from |-> target, to |-> at]
HostUnlink(h) == [op |-> "unlink", from |-> h, to |-> h]

\* One system call of PRoot; after one that fails the handler returns.
Done(s, o) ==
    IF ~s.ok \/ (o.op = "symlink" /\ o.to \in DOMAIN s.disc)
            \/ (o.op # "symlink" /\ o.from \notin DOMAIN s.disc)
    THEN [s EXCEPT !.ok = FALSE]
    ELSE [s EXCEPT !.disc =
            CASE o.op = "rename"  -> Put(Except(@, o.from), o.to, @[o.from])
              [] o.op = "symlink" -> Put(@, o.to, LinkTo(o.from))
              [] o.op = "unlink"  -> Except(@, o.from)]
Run(d, ops) == FoldLeft(Done, [disc |-> d, ok |-> TRUE], ops)

\* Where a name leads, through the intermediate.
IsFaked(d, n) == IsLink(d, <<n>>) /\ Len(d[<<n>>].link) = 2
Middle(d, n) == d[<<n>>].link
Broken(d, n) == Middle(d, n) \notin DOMAIN d
ContentOf(d, n) ==
    IF <<n>> \notin DOMAIN d THEN NoContent
    ELSE IF ~IsLink(d, <<n>>) THEN d[<<n>>].file
    ELSE IF Broken(d, n) \/ d[Middle(d, n)].link \notin DOMAIN d THEN NoContent
    ELSE d[d[Middle(d, n)].link].file

\* The count is the last four digits of the name, whatever was printed there.
Counted(final, c) == [final EXCEPT ![3] = c % CountBase]
Links(d, n) == IF IsFaked(d, n) /\ ~Broken(d, n) THEN d[Middle(d, n)].link[3] ELSE 1

-------------------------------------------------------------------------------
(* The handlers, as the calls they make of the host.                       *)

\* The first name of an intermediate behind which there is no file; the last, if all are.
FreeSuffix(d, n) ==
    LET leads(k) == <<n, k>> \in DOMAIN d /\ d[<<n, k>>].link \in DOMAIN d
        free == {k \in 1..MaxSuffix : ~leads(k)}
    IN IF free = {} THEN MaxSuffix ELSE CHOOSE k \in free : \A j \in free : k <= j

\* Both handlers give the final a new count and the intermediate a new final.
Renumber(d, mid, c) ==
    LET final == d[mid].link
        new   == Counted(final, c)
    IN <<HostRename(final, new), HostUnlink(mid), HostSymlink(new, mid)>>

\* move_and_symlink_path(), up to the new name; it needs the intermediate.
MoveOps(d, old) ==
    IF IsFaked(d, old) /\ Broken(d, old) THEN <<HostUnlink(Middle(d, old))>>
    ELSE IF IsFaked(d, old) THEN Renumber(d, Middle(d, old), Links(d, old) + 1)
    ELSE LET mid   == <<old, FreeSuffix(d, old)>>
             final == Counted(Append(mid, 0), 2)
         IN <<HostRename(<<old>>, final), HostSymlink(final, mid), HostSymlink(mid, <<old>>)>>

\* decrement_link_count(); a link that is broken is left alone.
DecrementOps_Kept(d, n) ==
    IF ~IsFaked(d, n) \/ Broken(d, n) THEN <<>>
    ELSE IF Links(d, n) > 2 THEN Renumber(d, Middle(d, n), Links(d, n) - 1)
    ELSE <<HostUnlink(Middle(d, n)), HostUnlink(d[Middle(d, n)].link)>>
DecrementOps(d, n) ==
    IF ~IsFaked(d, n) \/ Broken(d, n) THEN <<>>
    ELSE IF Links(d, n) > 1 THEN Renumber(d, Middle(d, n), Links(d, n) - 1)
    ELSE <<HostUnlink(Middle(d, n)), HostUnlink(d[Middle(d, n)].link)>>

\* move_and_symlink_path(): if the new name exists, what was counted is taken back.
LinkOps(d, old, new) ==
    LET moved == Run(d, MoveOps(d, old))
    IN IF ~moved.ok THEN MoveOps(d, old)
       ELSE IF <<new>> \in DOMAIN moved.disc
       THEN MoveOps(d, old) \o DecrementOps(moved.disc, old)
       ELSE MoveOps(d, old) \o <<HostSymlink(Middle(moved.disc, old), <<new>>)>>

-------------------------------------------------------------------------------
NoGuestCall == [op |-> "none"]
Ready(p) == calling[p] = NoGuestCall /\ ~halted /\ linkCalls < MaxLinkCalls
There(n) == <<n>> \in DOMAIN disc
InUse(n) == \E p \in Linkers : calling[p] # NoGuestCall /\ n \in calling[p].names

\* A new directory.  The name a call on its way removes or replaces counts as gone.
Going(n) == \E p \in Linkers : calling'[p] # NoGuestCall /\ calling'[p].goes = n
Becomes(d) ==
    /\ disc' = d
    /\ shown' = [n \in GuestNames |-> IF Going(n) THEN NoContent ELSE ContentOf(d, n)]
\* A call that is entered, of which the kernel will see the rest, if anything.
Entered(p, call) ==
    /\ linkCalls' = linkCalls + 1
    /\ calling' = [calling EXCEPT ![p] = call]
    /\ UNCHANGED halted

\* open(O_CREAT).
CreateFile(p, n, x) ==
    /\ Ready(p) /\ ~There(n) /\ x \notin {truth[m] : m \in GuestNames}
    /\ "create" \in Careless \/ ~InUse(n)
    /\ \A h \in DOMAIN disc : disc[h] # Content(x)
    /\ Entered(p, NoGuestCall)
    /\ Becomes(Put(disc, <<n>>, Content(x)))
    /\ truth' = [truth EXCEPT ![n] = x]

\* link() and linkat(): nothing is left for the kernel.  One that fails answers EPERM.
LinkFile(p, old, new) ==
    /\ Ready(p) /\ There(old) /\ old # new
    /\ "link" \in Careless \/ ~(InUse(old) \/ InUse(new))
    /\ Entered(p, NoGuestCall)
    /\ LET s == Run(disc, LinkOps(disc, old, new))
       IN /\ Becomes(s.disc)
          /\ truth' = IF s.ok /\ ~There(new) THEN [truth EXCEPT ![new] = truth[old]] ELSE truth

\* handle_linkat_from_proc_fd(): the file has no name any more, its content is copied, and
\* what the new name was is unlinked.
LinkOpened(p, new, x) ==
    /\ Ready(p) /\ x \notin {truth[m] : m \in GuestNames}
    /\ "opened" \in Careless \/ ~(There(new) \/ InUse(new))
    /\ \A h \in DOMAIN disc : disc[h] # Content(x)
    /\ Entered(p, NoGuestCall)
    /\ Becomes(Put(Except(disc, <<new>>), <<new>>, Content(x)))
    /\ truth' = [truth EXCEPT ![new] = x]

\* Entry of unlink(), and of rename() with its target.
EnterUnlink(p, n) ==
    /\ Ready(p)
    /\ "unlink" \in Careless \/ (There(n) /\ ~InUse(n))
    /\ LET s == Run(disc, DecrementOps(disc, n))
       IN /\ Entered(p, IF s.ok THEN [op |-> "unlink", names |-> {n}, name |-> n, goes |-> n] ELSE NoGuestCall)
          /\ Becomes(s.disc)
    /\ UNCHANGED truth

\* The kernel will do what the extension has counted on: the new name loses its file.
Sound(old, new, flag) ==
    /\ There(old) /\ truth[old] # truth[new] /\ ~InUse(old) /\ ~InUse(new)
    /\ flag = "noreplace" => ~There(new)
    /\ flag = "exchange" => There(new) /\ ~IsFaked(disc, new)

EnterRename(p, old, new, flag) ==
    /\ Ready(p)
    /\ "rename" \in Careless \/ Sound(old, new, flag)
    /\ LET s == Run(disc, DecrementOps(disc, new))
       IN /\ Entered(p, IF ~s.ok THEN NoGuestCall
                        ELSE [op |-> "rename", names |-> {old, new}, name |-> old, to |-> new, flag |-> flag,
                              goes |-> IF flag = "exchange" THEN NoContent ELSE new])
          /\ Becomes(s.disc)
    /\ UNCHANGED truth

\* The kernel's part.
Returns(p) ==
    /\ calling' = [calling EXCEPT ![p] = NoGuestCall]
    /\ UNCHANGED <<halted, linkCalls>>

KernelUnlink(p) ==
    LET n == calling[p].name
    IN /\ calling[p].op = "unlink" /\ ~halted
       /\ Returns(p)
       /\ Becomes(Except(disc, <<n>>))
       /\ truth' = IF There(n) THEN [truth EXCEPT ![n] = NoContent] ELSE truth

KernelRename(p) ==
    LET old == calling[p].name
        new == calling[p].to
        flag == calling[p].flag
        moved == Put(Except(disc, <<old>>), <<new>>, disc[<<old>>])
    IN /\ calling[p].op = "rename" /\ ~halted
       /\ Returns(p)
       /\ IF ~There(old) \/ old = new \/ (flag # "none" /\ (There(new) <=> flag = "noreplace"))
          THEN Becomes(disc) /\ UNCHANGED truth
          ELSE IF flag = "exchange"
          THEN /\ Becomes(Put(moved, <<old>>, disc[<<new>>]))
               /\ truth' = [truth EXCEPT ![new] = truth[old], ![old] = truth[new]]
          ELSE /\ Becomes(moved)
               /\ truth' = [truth EXCEPT ![new] = truth[old], ![old] = NoContent]

\* PRoot is killed in the middle of a handler, and its tracees with it.
Crash ==
    /\ ~halted
    /\ \E ops \in {LinkOps(disc, a, b) : a \in {n \in GuestNames : There(n)}, b \in GuestNames}
                  \cup {DecrementOps(disc, n) : n \in GuestNames} :
         \E k \in 1..(Len(ops) - 1) : disc' = Run(disc, SubSeq(ops, 1, k)).disc
    /\ halted' = TRUE
    /\ UNCHANGED <<calling, truth, shown, linkCalls>>

LinkerInit ==
    /\ disc = [h \in {} |-> NoContent]
    /\ calling = [p \in Linkers |-> NoGuestCall]
    /\ truth = [n \in GuestNames |-> NoContent] /\ shown = truth
    /\ halted = FALSE /\ linkCalls = 0

LinkerNext ==
    \/ Crash
    \/ \E p \in Linkers :
         \/ KernelUnlink(p) \/ KernelRename(p)
         \/ \E n \in GuestNames :
              \/ EnterUnlink(p, n)
              \/ \E x \in Contents : CreateFile(p, n, x) \/ LinkOpened(p, n, x)
              \/ \E new \in GuestNames :
                   LinkFile(p, n, new) \/ \E flag \in RenameFlags : EnterRename(p, n, new, flag)

LinkerSpec == LinkerInit /\ [][LinkerNext]_linkVars
-------------------------------------------------------------------------------
\* "fake hard links look like real hard link with respect to number of links": where no
\* call is on its way, a file has as many links as it has names.
CountsAreNames ==
    (\A p \in Linkers : calling[p] = NoGuestCall) /\ ~halted =>
      \A n \in GuestNames :
        truth[n] # NoContent => Links(disc, n) = Cardinality({m \in GuestNames : truth[m] = truth[n]})

\* A name no call is about leads to what it was last given, and no content is lost that
\* has such a name, not even if PRoot is killed half-way.
NamesLead == ~halted => \A n \in GuestNames : ~InUse(n) => shown[n] = truth[n]
ContentKept == \A n \in GuestNames : truth[n] # NoContent /\ ~InUse(n) => Content(truth[n]) \in Range(disc)
LinksKept == CountsAreNames /\ NamesLead /\ ContentKept

\* Whatever is linked, unlinked and renamed, the names act as if there were hard links.
Links_ == INSTANCE HardLinks WITH dirs <- shown
ActsAsHardLinks == Links_!LinkSpec
================================================================================
