-------------------------------- MODULE Paths --------------------------------
(***************************************************************************)
(* Path translation: canonicalize() of path/canon.c, translate_path() and  *)
(* detranslate_path() of path/path.c and the emulated links of path/proc.c,*)
(* compared with the walk a kernel makes in the mount name-space that the  *)
(* bindings stand for.                                                     *)
(*                                                                         *)
(* A view v is what a translation depends on: v.bs the bindings, v.tree    *)
(* the host's files (a directory, a file or a link at a host path), v.cwd  *)
(* the guest's working directory, v.pid and v.exe those of the tracee.     *)
(* A path of the user is [abs, comps, slash]: its components with "." and  *)
(* ".." among them, and whether a slash ends it.                           *)
(***************************************************************************)
EXTENDS Bindings, TLC

CONSTANT MaxSymlinks     \* MAXSYMLINKS

ASSUME PathsAssumption == MaxSymlinks \in Nat

Path(abs, comps, slash) == [abs |-> abs, comps |-> comps, slash |-> slash]
Plain(abs, comps) == Path(abs, comps, FALSE)

Dir == [kind |-> "dir"]
File == [kind |-> "file"]
Link(user) == [kind |-> "link", to |-> user]
Absent == [kind |-> "absent"]

Ok(p) == [err |-> "", path |-> p]
Err(e) == [err |-> e, path |-> <<>>]

Node(v, host) == IF host \in DOMAIN v.tree THEN v.tree[host] ELSE Absent

\* The parent directory; that of "/" is "/".  (pop_component())
Parent(p) == IF p = <<>> THEN p ELSE Front(p)

-------------------------------------------------------------------------------
PROC == <<"proc">>

\* readlink_proc(): links below /proc that the kernel would answer for PRoot
\* itself, or with host paths.
ReadlinkProc(v, base, name) ==
    CASE base = PROC /\ name = "self" ->
           [action |-> "CANONICALIZE", to |-> Plain(TRUE, <<"proc", v.pid>>)]
      [] base = <<"proc", v.pid>> /\ name = "exe" ->
           [action |-> "CANONICALIZE", to |-> Plain(TRUE, v.exe)]
      [] base = <<"proc", v.pid>> /\ name = "cwd" ->
           [action |-> "CANONICALIZE", to |-> Plain(TRUE, v.cwd)]
      [] base = <<"proc", v.pid>> /\ name = "root" ->
           [action |-> "CANONICALIZE", to |-> Plain(TRUE, GetRoot(v.bs))]
      [] base = <<"proc", v.pid, "fd">> ->
           [action |-> "DONT_CANONICALIZE", to |-> Plain(TRUE, Append(base, name))]
      [] OTHER -> [action |-> "DEFAULT"]

\* The rest of detranslate_path(): without the root of the guest, which a path
\* of the host need not have.
Unrooted(v, p, otherwise) ==
    IF BelongsToGuestfs(v.bs, p) THEN Ok(Rebased(p, GetRoot(v.bs), <<>>)) ELSE otherwise

\* detranslate_path() of a path the tracee asks for: it must be one of the guest.
Detranslate(v, p) ==
    IF HasBinding(v.bs, "host", p) THEN Ok(Substitute(v.bs, "host", p))
    ELSE Unrooted(v, p, Err("EPERM"))

\* Whether a link that lies in a binding may be followed back through it: the
\* target lies in the same binding.
SameBinding(v, p, referrer) ==
    HasBinding(v.bs, "host", p) /\ GetBinding(v.bs, "host", p).host
                                   = GetBinding(v.bs, "host", referrer).host

\* Mutant: bindings are resolved in every link.
DetranslateLink_Always(v, user, referrer) ==
    LET p == user.comps
    IN IF ~user.abs THEN user
       ELSE IF HasBinding(v.bs, "host", p)
       THEN [user EXCEPT !.comps = Substitute(v.bs, "host", p)]
       ELSE [user EXCEPT !.comps = Unrooted(v, p, Ok(p)).path]

\* detranslate_path() of the target of a link at a host path.
DetranslateLink(v, user, referrer) ==
    LET p    == user.comps
        proc == IF Encloses(PROC, referrer)
                THEN ReadlinkProc(v, Front(referrer), Last(referrer))
                ELSE [action |-> "DEFAULT"]
        follow == \/ Encloses(PROC, referrer)
                  \/ ~BelongsToGuestfs(v.bs, referrer) /\ SameBinding(v, p, referrer)
    IN IF ~user.abs THEN user
       ELSE IF proc.action = "CANONICALIZE" /\ Front(referrer) # PROC THEN proc.to
       ELSE IF follow /\ HasBinding(v.bs, "host", p)
       THEN [user EXCEPT !.comps = Substitute(v.bs, "host", p)]
       ELSE [user EXCEPT !.comps = Unrooted(v, p, Ok(p)).path]

-------------------------------------------------------------------------------
\* substitute_binding_stat(): what is behind a guest path.
GuestNode(v, p) == Node(v, Substitute(v.bs, "guest", p))

\* A component that others follow has to be a directory, or lead to one.
NotWalkable(node) == IF node.kind = "absent" THEN Err("ENOENT") ELSE Err("ENOTDIR")

\* The directory to look for emulated links in: below /proc, or under a name
\* some binding gives to it.
ProcBase(v, at) == IF IsPrefix(PROC, at) THEN at ELSE Substitute(v.bs, "guest", at)

RECURSIVE Canonicalize(_, _, _, _, _), Walk(_, _, _, _, _, _)

\* "Detect self-referential symlinks".
NotHome(at, r) == IF r.err = "" /\ r.path = at THEN Err("ELOOP") ELSE r

\* Where the link at.name leads.
Follow(v, at, name, level) ==
    LET proc   == ReadlinkProc(v, ProcBase(v, at), name)
        host   == Substitute(v.bs, "guest", Append(at, name))
        target == IF proc.action = "CANONICALIZE" THEN proc.to
                  ELSE DetranslateLink(v, Node(v, host).to, host)
    IN NotHome(at, Canonicalize(v, at, target, TRUE, level))

\* A component that others follow is a directory or a link.
Walkable(node, rest) == rest = <<>> \/ node.kind \in {"dir", "link"}

\* On from where a link led.
Onward(v, r, rest, user, deref, level) ==
    LET end == GuestNode(v, r.path)
    IN IF r.err # "" THEN r
       ELSE IF ~Walkable(end, rest) THEN NotWalkable(end)
       ELSE Walk(v, r.path, rest, user, deref, level + 1)

\* One turn of the loop of canonicalize() for a proper name: the last one of a
\* path may be missing, and is followed if the call asks for that or if a slash
\* comes after it.
WalkName(v, at, name, rest, user, deref, level) ==
    LET child  == Append(at, name)
        node   == GuestNode(v, child)
        normal == rest = <<>> /\ ~user.slash
        proc   == ReadlinkProc(v, ProcBase(v, at), name)
    IN IF ~Walkable(node, rest) THEN NotWalkable(node)
       ELSE IF node.kind # "link" \/ (normal /\ ~deref)
       THEN Walk(v, child, rest, user, deref, level)
       ELSE IF normal /\ proc.action = "DONT_CANONICALIZE" THEN Ok(proc.to.comps)
       ELSE Onward(v, Follow(v, at, name, level + 1), rest, user, deref, level)

\* at is canonical, todo are the components left of the path user.
Walk(v, at, todo, user, deref, level) ==
    IF todo = <<>> THEN Ok(at)
    ELSE IF Head(todo) = "." THEN Walk(v, at, Tail(todo), user, deref, level)
    ELSE IF Head(todo) = ".." THEN Walk(v, Parent(at), Tail(todo), user, deref, level)
    ELSE WalkName(v, at, Head(todo), Tail(todo), user, deref, level)

\* canonicalize()
Canonicalize(v, base, user, deref, level) ==
    IF level > MaxSymlinks THEN Err("ELOOP")
    ELSE Walk(v, IF user.abs THEN <<>> ELSE base, user.comps, user, deref, level)

HostName(v, r) == IF r.err # "" THEN r ELSE Ok(Substitute(v.bs, "guest", r.path))

\* join_paths(): a relative path behind the directory it is relative to.
Joined(base, user) == Path(TRUE, IF user.abs THEN user.comps ELSE base \o user.comps, user.slash)

\* translate_path(), from a directory of the guest: the whole name is walked,
\* from "/", with the checks and the links there are by now.
TranslateFrom(v, base, user, deref) ==
    HostName(v, Canonicalize(v, <<>>, Joined(base, user), deref, 0))

\* translate_path() relative to a descriptor: the host's name of its directory
\* is detranslated first.
TranslateAt(v, host, user, deref) ==
    LET base == Detranslate(v, host)
    IN IF user.abs THEN TranslateFrom(v, <<>>, user, deref)
       ELSE IF base.err # "" THEN base ELSE TranslateFrom(v, base.path, user, deref)

Translate(v, user, deref) == TranslateFrom(v, v.cwd, user, deref)

-------------------------------------------------------------------------------
(***************************************************************************)
(* The reference: the walk of a kernel in whose mount table the host       *)
(* directories of the bindings are mounted at their guest paths.  It has   *)
(* no recursion into links: their targets come in front of what is left to *)
(* walk.                                                                   *)
(***************************************************************************)

\* The mount a guest path lies in: the one with the longest mount point.
MountOf(v, p) ==
    CHOOSE b \in ToSet(v.bs.guest) :
      /\ IsPrefix(b.guest, p)
      /\ \A c \in ToSet(v.bs.guest) : IsPrefix(c.guest, p) => Len(c.guest) <= Len(b.guest)

OnHost(v, p) == LET b == MountOf(v, p) IN b.host \o SubSeq(p, Len(b.guest) + 1, Len(p))

\* What the target of a link stands for: a name of the guest, unless the link was
\* made by the host, for a path of the mount it lies in or of the root.
Meant(v, at, user) ==
    LET b == MountOf(v, at)
        root == MountOf(v, <<>>).host
        inside(h) == user.abs /\ IsPrefix(h, user.comps)
        tail(h) == SubSeq(user.comps, Len(h) + 1, Len(user.comps))
    IN IF ~IsPrefix(root, OnHost(v, at)) /\ inside(b.host) THEN b.guest \o tail(b.host)
       ELSE IF inside(root) THEN tail(root) ELSE user.comps

RECURSIVE Resolve(_, _, _, _, _, _)

\* slash: whether the path walked last must be a directory.
Resolve(v, at, todo, slash, deref, budget) ==
    IF todo = <<>> THEN Ok(at)
    ELSE LET rest == Tail(todo)
             child == Append(at, Head(todo))
             host  == OnHost(v, child)
             kind  == Node(v, host).kind
         IN CASE Head(todo) \in {".", ".."} ->
                   Resolve(v, IF Head(todo) = "." THEN at ELSE Parent(at), rest, slash, deref, budget)
              [] Head(todo) \notin {".", ".."} /\ kind = "link"
                   /\ (rest # <<>> \/ slash \/ deref) ->
                   IF budget = 0 THEN Err("ELOOP")
                   ELSE LET to == Node(v, host).to
                        IN Resolve(v, IF to.abs THEN <<>> ELSE at, Meant(v, child, to) \o rest,
                                   slash \/ (rest = <<>> /\ to.slash), deref, budget - 1)
              [] OTHER ->
                   IF rest = <<>> \/ kind = "dir" THEN Resolve(v, child, rest, slash, deref, budget)
                   ELSE NotWalkable(Node(v, host))

\* "Detect self-referential symlinks": a link to the directory it lies in, which is
\* an error for PRoot and none for a kernel.
LedHome(v) ==
    \E b \in ToSet(v.bs.guest), h \in DOMAIN v.tree :
      /\ IsPrefix(b.host, h) /\ v.tree[h].kind = "link"
      /\ LET p == b.guest \o SubSeq(h, Len(b.host) + 1, Len(h))
         IN Resolve(v, Parent(p), <<Last(p)>>, FALSE, TRUE, MaxSymlinks) = Ok(Parent(p))

\* What translate_path() answers is what the kernel would open, unless the kernel
\* gives up first or a link leads to its own directory.
AgreesWithKernel(v, user, deref) ==
    LET mine == Translate(v, user, deref)
        its  == Resolve(v, IF user.abs THEN <<>> ELSE v.cwd, user.comps, user.slash, deref,
                        MaxSymlinks)
    IN \/ mine = IF its.err = "" THEN Ok(OnHost(v, its.path)) ELSE its
       \/ its.err = "ELOOP"
       \/ mine.err = "ELOOP" /\ LedHome(v)
===============================================================================
