-------------------------------- MODULE Mounts --------------------------------
(***************************************************************************)
(* The file-system name-spaces of the tracees and the calls that change    *)
(* them: mount, umount, pivot_root (syscall/enter.c), chroot (extension/   *)
(* fake_id0/chroot.c), chdir, rename (syscall/exit.c), clone (new_child()  *)
(* of tracee/tracee.c), and the bindings PRoot starts with                 *)
(* (initialize_bindings() of path/binding.c).                              *)
(*                                                                         *)
(* Mounts are emulated by bindings and the working directory by a name, so *)
(* that each of these calls is a change of the lists or of the name.       *)
(***************************************************************************)
EXTENDS Paths

CONSTANTS
    Tracees,
    Trees,        \* the host's files at the start
    Configs,      \* lists of [host, guest] the guest is started with, "/" last
    Sources,      \* directories the guest passes to mount(MS_BIND)
    HostMounts,   \* host directories of the types proc, sysfs, devpts ...
    Targets,      \* paths the guest passes to mount, umount, chdir and chroot
    Pivots,       \* pairs of paths the guest passes to pivot_root
    Renames,      \* pairs of paths the guest passes to rename
    Failing,      \* whether the kernel may refuse a clone()
    MaxSteps      \* bound: calls

VARIABLES
    tree,         \* the files of the host
    lists,        \* list of bindings |-> its two sides
    fs,           \* FileSystemNameSpace |-> [lists, cwd]
    ns,           \* tracee |-> its name-space, 0 before it is cloned
    stripped,     \* tracees with clone_stripped_newns
    seen,         \* history: [op, ...] of the last call
    steps         \* history: number of calls

mountVars == <<tree, lists, fs, ns, stripped, seen, steps>>

View(t) == [bs |-> lists[fs[ns[t]].lists], tree |-> tree, cwd |-> fs[ns[t]].cwd,
            pid |-> "pid", exe |-> <<>>]

Nothing == [op |-> "none"]

-------------------------------------------------------------------------------
(* Startup *)

ViewOf(bs, w) == [bs |-> bs, tree |-> w, cwd |-> <<>>, pid |-> "pid", exe |-> <<>>]

\* initialize_binding(): the guest's side is made canonical with the bindings
\* there are; a binding for which that fails is left out.
InitializeBinding(bs, w, c) ==
    IF c.guest.comps = <<>> THEN Insort(bs, Binding(c.host, <<>>, TRUE))
    ELSE LET r == Canonicalize(ViewOf(bs, w), <<>>, c.guest, TRUE, 0)
         IN IF r.err # "" THEN bs ELSE Insort(bs, Binding(c.host, r.path, TRUE))

\* initialize_bindings(): from the last, "/", to the first.
InitializeBindings(w, config) ==
    FoldRight(LAMBDA c, bs : InitializeBinding(bs, w, c), config, EmptyLists)

MountInit ==
    /\ tree \in Trees
    /\ \E config \in Configs : lists = <<InitializeBindings(tree, config)>>
    /\ fs = <<[lists |-> 1, cwd |-> <<>>]>>
    /\ ns = [t \in Tracees |-> IF t = CHOOSE first \in Tracees : TRUE THEN 1 ELSE 0]
    /\ stripped = {}
    /\ seen = Nothing /\ steps = 0

-------------------------------------------------------------------------------
(* mount, umount *)

SetLists(t, bs) == lists' = [lists EXCEPT ![fs[ns[t]].lists] = bs]

\* Calls are voided and succeed whatever becomes of the emulation.
Void ==
    /\ seen' = [op |-> "void"]
    /\ UNCHANGED <<tree, lists, fs, ns, stripped>>

\* The guest's name of the directory a call names.
Named(t, user) == Canonicalize(View(t), View(t).cwd, user, TRUE, 0)

\* emulate_mount() of a directory, r, at the name at.
Bound(t, r, at) ==
    IF r.err # "" \/ at.err # "" THEN Void
    ELSE /\ SetLists(t, Insort(View(t).bs, Binding(r.path, at.path, FALSE)))
         /\ seen' = [op |-> "mount", t |-> t, at |-> at.path, host |-> r.path]
         /\ UNCHANGED <<tree, fs, ns, stripped>>

\* The emulations of proc, sysfs and others bind a directory of the host.
Mount(t, host, target) == Bound(t, Ok(host), Named(t, target))

BindMount(t, source, target) == Bound(t, Translate(View(t), source, TRUE), Named(t, target))

\* tmpfs: a new directory in PRoot's directory of temporary files.
Furnished(t, new, at) ==
    /\ at.err = ""
    /\ tree' = [h \in DOMAIN tree \cup {new} |-> IF h = new THEN Dir ELSE tree[h]]
    /\ SetLists(t, Insort(View(t).bs, Binding(new, at.path, FALSE)))
    /\ seen' = [op |-> "mount", t |-> t, at |-> at.path, host |-> new]
    /\ UNCHANGED <<fs, ns, stripped>>

TmpfsMount(t, target) == Furnished(t, <<"tmp", ToString(Cardinality(DOMAIN tree))>>, Named(t, target))

\* emulate_umount(): the binding of exactly this path, but never that of "/".
Unmounted(bs, at) ==
    LET b == GetBinding(bs, "guest", at)
    IN IF at # <<>> /\ b.guest = at THEN RemoveFromAll(bs, b) ELSE bs

Unbound(t, at) ==
    IF at.err # "" THEN Void
    ELSE /\ SetLists(t, Unmounted(View(t).bs, at.path))
         /\ seen' = [op |-> "umount"]
         /\ UNCHANGED <<tree, fs, ns, stripped>>

Umount(t, target) == Unbound(t, Named(t, target))
-------------------------------------------------------------------------------
(* pivot_root *)

\* The path put_old as the code builds it: a "." that ends it stays.
PutOld(r, old) ==
    IF r.err = "" /\ old.comps # <<>> /\ Last(old.comps) = "." /\ ~old.slash
    THEN Ok(Append(r.path, ".")) ELSE r

\* What emulate_pivot_root() does with one binding of the snapshot taken before:
\* below the new root it moves along, any other stays where it is and is shown
\* below put_old as well.
PivotBinding(bs, b, new, after) ==
    IF Encloses(new, b.guest) /\ new # <<>>
    THEN RemoveFromAll(Insort(bs, Binding(b.host, Rebased(b.guest, new, <<>>), FALSE)), b)
    ELSE IF after # <<>> /\ ~IsPrefix(after, b.guest)
    THEN Insort(bs, Binding(b.host, after \o b.guest, FALSE))
    ELSE bs

\* A startup binding that was replaced is freed: only the lists held it.
FreedBindings(bs, b) == b.startup /\ b \notin ToSet(bs.guest)

\* The loop reads every binding of the snapshot.  A freed one still has its
\* contents, or those of a binding made since, or what is there is skipped.
PivotStep(out, b, snapshot, new, after) ==
    LET made == ToSet(out.bs.guest) \ ToSet(snapshot)
    IN IF FreedBindings(out.bs, b)
       THEN {[bs |-> out.bs, alive |-> FALSE]}
              \cup {[bs |-> PivotBinding(out.bs, c, new, after), alive |-> FALSE] :
                      c \in {b} \cup {m \in made : m.guest # <<>>}}
       ELSE {[bs |-> PivotBinding(out.bs, b, new, after), alive |-> out.alive]}

\* The lists the pivot may leave, and whether the snapshot was alive all along;
\* new and old are guest paths.
Pivoted(bs, host, new, old) ==
    LET root  == Last(bs.guest)
        after == IF IsPrefix(new, old) THEN Rebased(old, new, <<>>) ELSE <<>>
        first == Insort(RemoveFromAll(bs, root), Binding(host, <<>>, FALSE))
        shown == IF after = <<>> THEN first
                 ELSE Insort(first, Binding(root.host, after, FALSE))
    IN FoldLeft(LAMBDA outs, b : UNION {PivotStep(out, b, bs.guest, new, after) : out \in outs},
                {[bs |-> shown, alive |-> TRUE]}, Front(bs.guest))

\* host is the host's name of the new root, at the guest's.  Reading what was
\* freed may be the end of PRoot, and with it of its tracees.
PivotTo(t, v, host, at, put) ==
    IF host.err # "" \/ at.err # "" \/ put.err # "" THEN Void
    ELSE \E out \in Pivoted(v.bs, host.path, at.path, put.path) :
           \/ /\ SetLists(t, out.bs)
              /\ seen' = [op |-> "pivot_root", t |-> t, bs |-> v.bs, new |-> at.path,
                          old |-> put.path, alive |-> out.alive]
              /\ UNCHANGED <<tree, fs, ns, stripped>>
           \/ /\ ~out.alive
              /\ ns' = [s \in Tracees |-> 0]
              /\ stripped' = {}
              /\ seen' = [op |-> "crash"]
              /\ UNCHANGED <<tree, lists, fs>>

PivotRoot(t, new, old) ==
    LET at == Named(t, new)
    IN PivotTo(t, View(t), Translate(View(t), new, TRUE), at,
               PutOld(Canonicalize(View(t), at.path, old, TRUE, 0), old))
-------------------------------------------------------------------------------
(* chdir, rename, chroot, clone *)

SetCwd(t, cwd) == fs' = [fs EXCEPT ![ns[t]].cwd = cwd]

\* The new working directory is the guest's name of the directory of the host, r.
ChdirTo(t, v, user, r) ==
    LET cwd == Detranslate(v, r.path)
    IN IF r.err # "" \/ Node(v, r.path).kind # "dir" \/ cwd.err # "" THEN Void
       ELSE /\ SetCwd(t, cwd.path)
            /\ seen' = [op |-> "chdir", t |-> t, host |-> r.path]
            /\ UNCHANGED <<tree, lists, ns, stripped>>

Chdir(t, user) == ChdirTo(t, View(t), user, Translate(View(t), [user EXCEPT !.slash = TRUE], TRUE))

\* What is at or below old is at new instead.
Moved(w, old, new) ==
    LET stay == {h \in DOMAIN w : ~IsPrefix(old, h) /\ ~IsPrefix(new, h)}
        move == {Rebased(h, old, new) : h \in {x \in DOMAIN w : IsPrefix(old, x)}}
    IN [h \in stay \cup move |-> IF h \in stay THEN w[h] ELSE w[Rebased(h, new, old)]]

\* Mutant: the working directory keeps its name.
CwdAfterRename_Kept(v, old, new) == v.cwd

\* The exit of rename() updates the working directory of the caller.
CwdAfterRename(v, old, new) ==
    LET from == Detranslate(v, old)
        to == Detranslate(v, new)
    IN IF from.err = "" /\ to.err = "" /\ IsPrefix(from.path, v.cwd)
       THEN Rebased(v.cwd, from.path, to.path) ELSE v.cwd

\* from and to are the translated paths, here is the directory the process is in.
Renamed(t, v, from, to, here) ==
    /\ from.err = "" /\ to.err = ""
    /\ Node(v, from.path).kind # "absent" /\ Node(v, to.path).kind = "absent"
    /\ Node(v, Parent(to.path)).kind = "dir" /\ ~IsPrefix(from.path, to.path)
    /\ tree' = Moved(tree, from.path, to.path)
    /\ SetCwd(t, CwdAfterRename(v, from.path, to.path))
    /\ seen' = [op |-> "rename", t |-> t, from |-> Detranslate(v, from.path).path,
                host |-> IF IsPrefix(from.path, here.path) THEN Rebased(here.path, from.path, to.path) ELSE here.path]
    /\ UNCHANGED <<lists, ns, stripped>>

Rename(t, old, new) ==
    LET v == View(t)
    IN Renamed(t, v, Translate(v, old, FALSE), Translate(v, new, FALSE), Translate(v, Plain(FALSE, <<>>), TRUE))

\* handle_chroot_exit_end(): only if nothing is bound below the new root; the
\* check after the exit stage looks at an array that was not written, so that
\* bindings below may be missed or imagined.
\* r is the host's name of the new root, at the guest's, here the directory the process is in.
Chrooted(t, v, r, at, here, sigsys) ==
    LET below == \E i \in 1..Len(v.bs.guest) - 1 : Encloses(at.path, v.bs.guest[i].guest)
        bs == Insort(EmptyLists, Binding(r.path, <<>>, TRUE))
        cwd == Detranslate([v EXCEPT !.bs = bs], here.path)
    IN IF r.err # "" \/ r.path = GetRoot(v.bs) \/ Node(v, r.path).kind # "dir"
       THEN Void
       ELSE \/ /\ sigsys => below
               /\ Void
            \/ /\ sigsys => ~below
               /\ here.err = ""
               /\ lists' = Append(lists, bs)
               /\ fs' = Append(fs, [lists |-> Len(lists) + 1, cwd |-> cwd.path])
               /\ ns' = [ns EXCEPT ![t] = Len(fs) + 1]
               /\ seen' = [op |-> "chroot"]
               /\ UNCHANGED <<tree, stripped>>

Chroot(t, user, sigsys) ==
    LET v == View(t)
    IN Chrooted(t, v, Translate(v, user, TRUE), Canonicalize(v, v.cwd, user, TRUE, 0),
                Translate(v, Plain(TRUE, v.cwd), TRUE), sigsys)

\* Copies of the bindings for the child of a clone(CLONE_NEWNS).
CopiedLists(bs) ==
    FoldLeft(LAMBDA x, b : Insort(x, [b EXCEPT !.startup = FALSE]), EmptyLists, bs.guest)

\* Mutant: the flag of the parent is left as it is.
StrippedAfter_Kept(parent, newns, failed) ==
    IF newns THEN stripped \cup {parent} ELSE stripped

\* clone() notes CLONE_NEWNS, which the kernel does not get to see, and the event
\* of the child consumes the note; there is no event if the kernel refuses.
StrippedAfter(parent, newns, failed) ==
    IF failed THEN IF newns THEN stripped \cup {parent} ELSE stripped
    ELSE stripped \ {parent}

\* new_child(): CLONE_FS shares the name-space, else the child has one of its
\* own, with the same lists unless it was cloned with CLONE_NEWNS.
Clone(parent, child, shared, newns) ==
    LET mine == fs[ns[parent]]
        copy == newns \/ parent \in stripped
    IN /\ seen' = [op |-> "clone", parent |-> parent, t |-> child, asked |-> ~shared /\ newns]
       /\ stripped' = StrippedAfter(parent, newns, FALSE)
       /\ UNCHANGED tree
       /\ \/ /\ shared
             /\ ns' = [ns EXCEPT ![child] = ns[parent]]
             /\ UNCHANGED <<lists, fs>>
          \/ /\ ~shared /\ copy
             /\ lists' = Append(lists, CopiedLists(lists[mine.lists]))
             /\ fs' = Append(fs, [mine EXCEPT !.lists = Len(lists) + 1])
             /\ ns' = [ns EXCEPT ![child] = Len(fs) + 1]
          \/ /\ ~shared /\ ~copy
             /\ fs' = Append(fs, mine)
             /\ ns' = [ns EXCEPT ![child] = Len(fs) + 1]
             /\ UNCHANGED lists

CloneFails(parent, newns) ==
    /\ Failing
    /\ stripped' = StrippedAfter(parent, newns, TRUE)
    /\ seen' = [op |-> "void"]
    /\ UNCHANGED <<tree, lists, fs, ns>>
-------------------------------------------------------------------------------
UnbornTracees == {t \in Tracees : ns[t] = 0}

Call(t) ==
    \/ \E source \in Sources, target \in Targets : BindMount(t, source, target)
    \/ \E host \in HostMounts, target \in Targets : Mount(t, host, target)
    \/ \E target \in Targets : TmpfsMount(t, target)
    \/ \E target \in Targets : Umount(t, target)
    \/ \E p \in Pivots : PivotRoot(t, p[1], p[2])
    \/ \E user \in Targets : Chdir(t, user)
    \/ \E p \in Renames : Rename(t, p[1], p[2])
    \/ \E user \in Targets, sigsys \in BOOLEAN : Chroot(t, user, sigsys)
    \/ \E shared, newns \in BOOLEAN : UnbornTracees # {} /\ Clone(t, CHOOSE c \in UnbornTracees : TRUE, shared, newns)
    \/ \E newns \in BOOLEAN : CloneFails(t, newns)

MountNext ==
    /\ steps < MaxSteps
    /\ steps' = steps + 1
    /\ \E t \in Tracees : ns[t] # 0 /\ Call(t)

MountSpec == MountInit /\ [][MountNext]_mountVars
-------------------------------------------------------------------------------
\* Every tracee has a name-space and every name-space its lists and a plain cwd, but for the "."
\* that pivot_root() may leave in one.
MountTypeOK ==
    /\ \A i \in 1..Len(fs) : fs[i].lists \in 1..Len(lists)
    /\ \A t \in Tracees : ns[t] \in 0..Len(fs)
    /\ stripped \subseteq Tracees \ UnbornTracees /\ steps \in 0..MaxSteps
    /\ \A i \in 1..Len(fs) : ".." \notin ToSet(fs[i].cwd)

\* However the lists came about, the first binding that contains a path is the
\* innermost one, both lists hold the same bindings, and "/" stays bound, as the
\* assertions of get_root() want it.
LookupIsRight ==
    \A i \in 1..Len(lists) :
      /\ \A side \in Sides : SortedList(lists[i][side], side)
      /\ ListsAgree(lists[i]) /\ RootIsLast(lists[i])

\* No host directory is shown under two names.
DisjointHosts(bs) ==
    \A b, c \in ToSet(bs.guest) : b # c => ~IsPrefix(b.host, c.host)

\* After a chdir the name of the working directory leads to the directory the
\* guest asked for, although it was made from the host's name of it, and after a
\* rename to the directory the process is in, if nothing is bound in what moved.
ChdirLands ==
    /\ \/ seen.op = "chdir"
       \/ seen.op = "rename" /\ \A b \in ToSet(View(seen.t).bs.guest) : ~IsPrefix(seen.from, b.guest)
    /\ DisjointHosts(View(seen.t).bs)
    => Translate(View(seen.t), Plain(FALSE, <<>>), TRUE) = Ok(seen.host)

\* A mount is visible where the guest made it, whatever was bound there or around
\* it before.
MountShows ==
    seen.op = "mount" => Substitute(View(seen.t).bs, "guest", seen.at) = seen.host

\* The bindings of the snapshot are still there when the loop comes to them: none
\* is replaced, which frees it if only the lists held it.
SnapshotAlive == seen.op = "pivot_root" => seen.alive

\* After pivot_root() whatever was not below the new root is below put_old, unless
\* one of the names put_old has before and after was bound already, and unless
\* the loop read a binding it had freed.
OldRootShown ==
    seen.op = "pivot_root" /\ seen.alive /\ Encloses(seen.new, seen.old) =>
      LET after == Rebased(seen.old, seen.new, <<>>)
          olds  == {b \in ToSet(seen.bs.guest) : ~IsPrefix(seen.new, b.guest)}
      IN (\A b \in ToSet(seen.bs.guest) : ~IsPrefix(after, b.guest) /\ ~IsPrefix(seen.old, b.guest))
           => \A b \in olds : Substitute(View(seen.t).bs, "guest", after \o b.guest) = b.host

\* And what was bound below the new root is bound below "/".
NewRootShown ==
    seen.op = "pivot_root" /\ seen.alive /\ seen.new # <<>> =>
      \A b \in ToSet(seen.bs.guest) :
        Encloses(seen.new, b.guest) =>
          Substitute(View(seen.t).bs, "guest", Rebased(b.guest, seen.new, <<>>)) = b.host

\* What the guest sees after a call that changes the mounts.
EmulationShows == MountShows /\ OldRootShown /\ NewRootShown

\* A child has bindings of its own if and only if its clone() asked for that.
IsolatedAsAsked ==
    seen.op = "clone" =>
      (fs[ns[seen.t]].lists # fs[ns[seen.parent]].lists <=> seen.asked)

\* A process keeps to its own directory and its own bindings, whatever the others do.
NamesFollow == ChdirLands /\ IsolatedAsAsked

\* "The pivot_root(".", ".") trick used to detach the old root leaves new_root ==
\* put_old, in which case there is nowhere to expose it": nothing is bound to a
\* name that is another name of the new root itself.
OldRootDetached ==
    seen.op = "pivot_root" =>
      \A b \in ToSet(View(seen.t).bs.guest) : b.guest = <<>> \/ Last(b.guest) # "."
===============================================================================
