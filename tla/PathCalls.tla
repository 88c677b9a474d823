------------------------------- MODULE PathCalls -------------------------------
(***************************************************************************)
(* Calls as translate_syscall_enter() (syscall/enter.c) and                *)
(* translate_syscall_exit() (syscall/exit.c) treat them, one by one: the   *)
(* paths among the arguments and whether a link at their end is followed,  *)
(* the arguments that socketcall() has in memory, links and auxiliary      *)
(* vectors that are read.  Registers hold symbols.                         *)
(***************************************************************************)
EXTENDS Integers, SequencesExt

-------------------------------------------------------------------------------
\* A path that is translated, from a directory; as REGULAR it is followed, as SYMLINK not.
Walked(dir, path, follow) == [dir |-> dir, path |-> path, follow |-> follow]
FromCwd(path, follow) == Walked(<<"AT_FDCWD">>, path, follow)

ByPath == {"access", "acct", "chmod", "chown", "chroot", "getxattr", "listxattr", "mknod", "creat",
           "removexattr", "setxattr", "stat", "statfs", "swapoff", "swapon", "truncate", "uselib", "utime", "utimes"}
ByLink == {"readlink", "lchown", "lgetxattr", "llistxattr", "lremovexattr", "lsetxattr", "lstat", "unlink",
           "rmdir", "mkdir"}
AtPath == {"fchmodat", "faccessat", "faccessat2", "futimesat", "mknodat"}
AtLink == {"readlinkat", "unlinkat", "mkdirat"}
\* The register with the flags of those that have AT_SYMLINK_NOFOLLOW.
FlagsIn_Fourth == [nr \in {"fchownat", "name_to_handle_at", "newfstatat", "utimensat", "statx"} |-> IF nr = "statx" THEN 3 ELSE 4]
FlagsIn == [fchownat |-> 5, name_to_handle_at |-> 5, newfstatat |-> 4, utimensat |-> 4, statx |-> 3]
OpensLink(flags) == "NOFOLLOW" \in flags \/ {"EXCL", "CREAT"} \subseteq flags

\* The paths of a call with registers r, the flags in each of which are known.
PathsOf(nr, r, flags) ==
    CASE nr \in ByPath -> <<FromCwd(r[1], TRUE)>>
      [] nr \in ByLink -> <<FromCwd(r[1], FALSE)>>
      [] nr \in AtPath -> <<Walked(r[1], r[2], TRUE)>>
      [] nr \in AtLink -> <<Walked(r[1], r[2], FALSE)>>
      [] nr \in DOMAIN FlagsIn -> <<Walked(r[1], r[2], "NOFOLLOW" \notin flags[FlagsIn[nr]])>>
      [] nr = "open" -> <<FromCwd(r[1], ~OpensLink(flags[2]))>>
      [] nr = "openat" -> <<Walked(r[1], r[2], ~OpensLink(flags[3]))>>
      [] nr = "inotify_add_watch" -> <<FromCwd(r[2], "DONT_FOLLOW" \notin flags[3])>>
      [] nr \in {"link", "rename"} -> <<FromCwd(r[1], FALSE), FromCwd(r[2], FALSE)>>
      [] nr \in {"renameat", "renameat2"} -> <<Walked(r[1], r[2], FALSE), Walked(r[3], r[4], FALSE)>>
      [] nr = "linkat" -> <<Walked(r[1], r[2], "FOLLOW" \in flags[5]), Walked(r[3], r[4], FALSE)>>
      [] nr = "symlink" -> <<FromCwd(r[2], FALSE)>>
      [] nr = "symlinkat" -> <<Walked(r[2], r[3], FALSE)>>
      [] OTHER -> <<>>

-------------------------------------------------------------------------------
(* socketcall(): args is <<socket, address, size>> in memory.  An address  *)
(* of a Unix socket is put elsewhere for the kernel; the first two unused  *)
(* registers keep the one of the guest.                                    *)

SocketcallEnter(args, is, new, regs) ==
    CASE is = "unix" -> [args |-> <<args[1], new[1], new[2]>>, regs |-> <<args[2], args[3]>>]
      [] is \in {"other", "error"} -> [args |-> args, regs |-> regs]
\* bind(), connect(); after an error of the translation nothing is done.
SocketcallExit(e, is, result) ==
    IF is = "error" THEN e.args ELSE <<e.args[1], e.regs[1], e.regs[2]>>

-------------------------------------------------------------------------------
\* readlink(): the kernel has put the target, as the host has it, into a buffer with room for max; as shown to the
\* guest it is one byte longer, with a zero, where there is room.  A buffer that is full is
\* read again.
Cut(s, n) == SubSeq(s, 1, Min({n, Len(s)}))
ReadlinkExit(host, shown, max) ==
    IF shown = host THEN [bytes |-> Cut(host, max), size |-> Min({max, Len(host)})]
    ELSE IF Len(shown) + 1 < max THEN [bytes |-> shown, size |-> Len(shown)]
    ELSE [bytes |-> Cut(Append(shown, 0), max), size |-> max]

\* The guest's argv[0] in the place of the name of the loader, in the first n words of an
\* auxiliary vector of pairs <<type, value>> that ends with <<AT_NULL, .>>.
PatchAuxv(auxv, n, null, execfn, name) ==
    LET types == {i \in 1..(n - 1) : i % 2 = 1}
        at == {i \in types : auxv[i] = execfn /\ \A j \in types : j < i => auxv[j] # null /\ auxv[j] # execfn}
    IN [i \in 1..n |-> IF i - 1 \in at THEN name ELSE auxv[i]]

-------------------------------------------------------------------------------
\* A call that is replaced names the same paths, and follows the same links, as the one it
\* stands for: nr of a guest with these flags, and to with registers and flags of PRoot.
NamesTheSame(nr, flags, to, regs, set) ==
    LET r == [i \in 1..6 |-> <<"arg", i>>]
    IN PathsOf(to, regs, set) = PathsOf(nr, r, flags)

\* Calls leave the guest's memory as it was, if the address was one of a Unix socket or wrong (for
\* others what the registers happened to hold is put there).
ArgsAreKept(args, is, new, regs, result) ==
    SocketcallExit(SocketcallEnter(args, is, new, regs), is, result) = args

\* A link shows its target as the guest knows it, cut where the buffer ends (in a buffer with room
\* for one byte more than the target, a zero counts as part of it).
LinkIsShown(host, guest, max) ==
    LET x == ReadlinkExit(host, guest, max)
    IN guest = host \/ max # Len(guest) + 1 =>
         x.size = Min({max, Len(guest)}) /\ Cut(x.bytes, x.size) = Cut(guest, max)

\* Only the name changes, wherever the vector is cut.
AuxvIsPatched(auxv, n, null, execfn, name) ==
    LET p == PatchAuxv(auxv, n, null, execfn, name)
        pairs == {i \in 1..n : i % 2 = 0 /\ auxv[i - 1] = execfn /\ \A j \in 1..(i - 1) : j % 2 = 1 => auxv[j] # null}
    IN \A i \in 1..n : p[i] = IF i \in pairs THEN name ELSE auxv[i]
===============================================================================
