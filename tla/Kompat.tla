--------------------------------- MODULE Kompat ---------------------------------
(***************************************************************************)
(* Calls of a newer kernel on an older one (extension/kompat/kompat.c): a  *)
(* call that the host's kernel lacks is replaced by an older one, and what *)
(* that one cannot do is made up for by calls that are chained to it.      *)
(* A register holds a value, the flags of which are known, after the       *)
(* translation of paths: they are absolute.  A release is its last number  *)
(* in 2.6.x.                                                               *)
(***************************************************************************)
EXTENDS PathCalls

CONSTANT Lacking    \* the calls that the architecture does not have

-------------------------------------------------------------------------------
Reg(val, bits) == [val |-> val, bits |-> bits]
FdFlags == {"CLOEXEC", "NONBLOCK"}
Failed == [nr |-> "void", regs |-> <<>>]

NeedsKompat(config, release) == config.actual < release /\ release <= config.virtual

Renamed == [accept4 |-> "accept", dup3 |-> "dup2", epoll_create1 |-> "epoll_create", epoll_pwait |-> "epoll_wait",
            eventfd2 |-> "eventfd", faccessat |-> "access", fchmodat |-> "chmod", fchownat |-> "chown",
            futimesat |-> "utimes", inotify_init1 |-> "inotify_init", linkat |-> "link", mkdirat |-> "mkdir",
            mknodat |-> "mknod", newfstatat |-> "stat", openat |-> "open", pipe2 |-> "pipe", pselect6 |-> "select",
            readlinkat |-> "readlink", renameat |-> "rename", signalfd4 |-> "signalfd", symlinkat |-> "symlink",
            unlinkat |-> "unlink"]
\* The call in the place of nr; stat and lstat also stand for those with 64 in their names.
OldCall(nr, r) ==
    CASE nr = "fchownat" /\ "NOFOLLOW" \in r[5].bits -> "lchown"
      [] nr = "newfstatat" /\ "NOFOLLOW" \in r[4].bits -> "lstat"
      [] nr = "unlinkat" /\ "REMOVEDIR" \in r[3].bits -> "rmdir"
      [] OTHER -> Renamed[nr]

ExpectedRelease(nr) ==
    CASE nr = "accept4" -> 28
      [] nr \in {"dup3", "epoll_create1", "eventfd2", "inotify_init1", "pipe2", "signalfd4"} -> 27
      [] nr = "epoll_pwait" -> 19
      [] OTHER -> 16

\* The arguments that move to other registers.
Shift(sysarg, number, offset) == [sysarg |-> sysarg, number |-> number, offset |-> offset]
Shifts(nr) ==
    CASE nr \in {"faccessat", "fchmodat", "newfstatat", "futimesat", "mkdirat"} -> <<Shift(2, 2, -1)>>
      [] nr \in {"fchownat", "mknodat", "openat", "readlinkat"} -> <<Shift(2, 3, -1)>>
      [] nr \in {"linkat", "renameat"} -> <<Shift(2, 1, -1), Shift(4, 1, -2)>>
      [] nr = "symlinkat" -> <<Shift(3, 1, -1)>>
      [] nr = "unlinkat" -> <<Shift(2, 1, -1)>>
      [] OTHER -> <<>>

\* One argument after the other.
Shifted_Downwards(r, s) ==
    FoldRight(LAMBDA i, now : [now EXCEPT ![i + s.offset] = now[i]], [j \in 1..s.number |-> s.sysarg + j - 1], r)
Shifted(r, s) ==
    FoldLeft(LAMBDA now, i : [now EXCEPT ![i + s.offset] = now[i]], r, [j \in 1..s.number |-> s.sysarg + j - 1])

ModifySyscall(config, call) ==
    LET old == OldCall(call.nr, call.regs)
    IN IF NeedsKompat(config, ExpectedRelease(call.nr)) /\ old \notin Lacking
       THEN [nr |-> old, regs |-> FoldLeft(Shifted, call.regs, Shifts(call.nr))]
       ELSE call
DiscardFdFlags(config, call, flags, release, i) ==
    IF NeedsKompat(config, release) THEN [call EXCEPT !.regs[i].bits = @ \ flags] ELSE call

\* The end of the entry of a call; Failed if it is made to fail with EINVAL.
ChangedCall(config, call) ==
    LET m == ModifySyscall(config, call)
        modified == m.nr # call.nr
    IN CASE call.nr = "openat" -> DiscardFdFlags(config, m, {"CLOEXEC"}, 23, IF modified THEN 2 ELSE 3)
         [] call.nr = "epoll_create1" /\ modified -> [m EXCEPT !.regs[1] = Reg("1", {})]
         [] call.nr = "signalfd4" /\ modified -> [m EXCEPT !.regs[4] = Reg("0", {})]
         [] OTHER -> m
Refused(config, call) ==
    \/ call.nr = "dup3" /\ call.regs[1].val = call.regs[2].val
    \/ call.nr = "eventfd2" /\ ModifySyscall(config, call) # call /\ "SEMAPHORE" \in call.regs[2].bits
    \/ call.nr = "newfstatat" /\ call.regs[4].bits \ {"NOFOLLOW"} # {}
    \/ call.nr = "linkat" /\ call.regs[5].bits \ {"FOLLOW"} # {}
SysenterEnd(config, call) ==
    CASE call.nr \in DOMAIN Renamed /\ Refused(config, call) -> Failed
      [] call.nr \in DOMAIN Renamed /\ ~Refused(config, call) -> ChangedCall(config, call)
      [] call.nr = "open" -> DiscardFdFlags(config, call, {"CLOEXEC"}, 23, 2)
      [] call.nr \in {"socket", "socketpair", "timerfd_create"} -> DiscardFdFlags(config, call, FdFlags, 27, 2)
      [] call.nr = "fcntl" /\ NeedsKompat(config, 24) /\ "DUPFD_CLOEXEC" \in call.regs[2].bits ->
            [call EXCEPT !.regs[2].bits = {"DUPFD"}]
      [] call.nr = "futex" /\ NeedsKompat(config, 22) /\ config.actual # 0 -> [call EXCEPT !.regs[2].bits = @ \ {"PRIVATE"}]
      [] OTHER -> call

\* The calls to fcntl() that are chained to one that has succeeded: a descriptor and a flag.
EmulateFdFlags(fds, bits, emulated) == {<<fd, b>> : fd \in fds, b \in bits \cap emulated}
FlagsReg == [accept4 |-> 4, dup3 |-> 3, epoll_create1 |-> 1, eventfd2 |-> 2, inotify_init1 |-> 1, pipe2 |-> 2,
             signalfd4 |-> 4, open |-> 2, openat |-> 3, socket |-> 2, socketpair |-> 2, timerfd_create |-> 2]
FdsOf(nr) == IF nr \in {"pipe2", "socketpair"} THEN {"first", "second"} ELSE {"result"}
SysexitEnd(config, call, modified) ==
    LET emulated == CASE call.nr \in {"open", "openat"} -> IF NeedsKompat(config, 23) THEN {"CLOEXEC"} ELSE {}
                      [] call.nr \in {"socket", "socketpair", "timerfd_create"} -> IF NeedsKompat(config, 27) THEN FdFlags ELSE {}
                      [] OTHER -> IF modified THEN FdFlags ELSE {}
    IN CASE call.nr \in DOMAIN FlagsReg -> EmulateFdFlags(FdsOf(call.nr), call.regs[FlagsReg[call.nr]].bits, emulated)
         [] call.nr = "fcntl" /\ NeedsKompat(config, 24) /\ "DUPFD_CLOEXEC" \in call.regs[2].bits -> {<<"result", "CLOEXEC">>}
         [] OTHER -> {}

(* The auxiliary vector of a new program: what tells the real release, or  *)
(* what the host's processor has, is hidden, and random bytes are added.   *)
(* Where the kernel has those, what is behind them stays.                  *)
AdjustElfAuxv(config, auxv, bytes) ==
    LET n == IF config.actual = 0 THEN 0 ELSE SelectInSeq(auxv, LAMBDA v : v[1] = "RANDOM")
        adjusted == [i \in DOMAIN auxv |->
                       IF n > 0 /\ i >= n THEN auxv[i]
                       ELSE CASE auxv[i][1] \in {"SYSINFO", "SYSINFO_EHDR"} -> <<"IGNORE", "0">>
                              [] auxv[i][1] = "HWCAP" /\ config.hwcap # "-1" -> <<"HWCAP", config.hwcap>>
                              [] OTHER -> auxv[i]]
    IN IF n = 0 /\ NeedsKompat(config, 29) THEN Append(adjusted, <<"RANDOM", bytes>>) ELSE adjusted

-------------------------------------------------------------------------------
(* Linux, by its manual: what a call with these registers does in a        *)
(* release.  An old call is the new one without flags.                     *)
NewName == [accept |-> "accept4", dup2 |-> "dup3", epoll_create |-> "epoll_create1", epoll_wait |-> "epoll_pwait",
            eventfd |-> "eventfd2", access |-> "faccessat", chmod |-> "fchmodat", chown |-> "fchownat",
            lchown |-> "fchownat", stat |-> "newfstatat", lstat |-> "newfstatat", utimes |-> "futimesat",
            inotify_init |-> "inotify_init1", link |-> "linkat", mkdir |-> "mkdirat", mknod |-> "mknodat", open |-> "openat",
            pipe |-> "pipe2", select |-> "pselect6", readlink |-> "readlinkat", rename |-> "renameat",
            signalfd |-> "signalfd4", symlink |-> "symlinkat", unlink |-> "unlinkat", rmdir |-> "unlinkat"]
AddedIn(nr) ==
    CASE nr \in DOMAIN NewName -> 0
      [] nr = "accept4" -> 28
      [] nr \in {"dup3", "epoll_create1", "eventfd2", "inotify_init1", "pipe2", "signalfd4"} -> 27
      [] nr = "epoll_pwait" -> 19
      [] nr \in {"socket", "socketpair", "timerfd_create", "fcntl", "futex"} -> 0
      [] OTHER -> 16
Knows(release, nr, bits) ==
    /\ AddedIn(nr) <= release
    /\ nr \in {"socket", "socketpair", "timerfd_create"} /\ release < 27 => bits \cap FdFlags = {}
    /\ nr = "fcntl" /\ release < 24 => "DUPFD_CLOEXEC" \notin bits
    /\ nr = "futex" /\ release < 22 => "PRIVATE" \notin bits
    /\ nr \in {"eventfd2", "linkat", "newfstatat", "signalfd4", "dup3"} => bits \cap {"SEMAPHORE", "UNKNOWN"} = {}

\* The registers with arguments that are neither names nor flags (but for masks of signals, and for
\* the timeout of pselect6(), whose nanoseconds select() takes for microseconds).
Others(nr) ==
    CASE nr \in {"access", "chmod", "stat", "lstat", "utimes", "mkdir"} -> <<2>>
      [] nr \in {"faccessat", "fchmodat", "newfstatat", "futimesat", "mkdirat", "open"} -> <<3>>
      [] nr \in {"chown", "lchown", "mknod", "readlink"} -> <<2, 3>>
      [] nr \in {"fchownat", "mknodat", "readlinkat"} -> <<3, 4>>
      [] nr \in {"accept", "accept4", "signalfd", "signalfd4"} -> <<1, 2, 3>>
      [] nr \in {"select", "pselect6", "epoll_wait", "epoll_pwait"} -> <<1, 2, 3, 4>>
      [] nr \in {"dup2", "dup3"} -> <<1, 2>>
      [] nr \in {"eventfd", "eventfd2", "pipe", "pipe2", "symlink", "symlinkat", "timerfd_create"} -> <<1>>
      [] nr = "openat" -> <<4>>
      [] nr \in {"socket", "socketpair", "fcntl"} -> <<1, 3>>
      [] nr = "futex" -> <<1, 3, 4>>
      [] OTHER -> <<>>

FlagsOf(release, call) ==
    CASE call.nr \in {"open", "openat"} /\ release < 23 -> {}
      [] call.nr = "fcntl" -> IF "DUPFD_CLOEXEC" \in call.regs[2].bits THEN {<<"result", "CLOEXEC">>} ELSE {}
      [] call.nr \in DOMAIN FlagsReg /\ ~(call.nr \in {"open", "openat"} /\ release < 23) ->
            {<<fd, b>> : fd \in FdsOf(call.nr), b \in FdFlags \cap call.regs[FlagsReg[call.nr]].bits}
      [] OTHER -> {}
Does(call) ==
    LET paths == PathsOf(call.nr, [i \in 1..6 |-> call.regs[i].val], [i \in 1..6 |-> call.regs[i].bits])
    IN [is |-> IF call.nr \in DOMAIN NewName THEN NewName[call.nr] ELSE call.nr,
        directory |-> call.nr = "rmdir" \/ (call.nr = "unlinkat" /\ "REMOVEDIR" \in call.regs[3].bits),
        names |-> [i \in DOMAIN paths |-> paths[i].path],
        others |-> [i \in DOMAIN Others(call.nr) |-> call.regs[Others(call.nr)[i]].val]]

\* The names at whose end a link would be followed: for those of the guest PRoot has done it.
Follows(call) ==
    LET paths == PathsOf(call.nr, [i \in 1..6 |-> call.regs[i].val], [i \in 1..6 |-> call.regs[i].bits])
    IN {paths[i].path : i \in {j \in DOMAIN paths : paths[j].follow}}

\* What works in the release that the guest believes it has works on the host, and does the same
\* (if the architecture has the old calls).
OldKernelServes(config, call) ==
    LET bits == UNION {call.regs[i].bits : i \in 1..6}
        now == SysenterEnd(config, call)
        bitsNow == UNION {now.regs[i].bits : i \in DOMAIN now.regs}
        same == call.nr = "dup3" /\ call.regs[1].val = call.regs[2].val
    IN config.actual <= config.virtual /\ Knows(config.virtual, call.nr, bits) /\ ~same =>
         /\ now # Failed
         /\ Knows(config.actual, now.nr, IF now.nr \in DOMAIN NewName THEN {} ELSE bitsNow)
         /\ Does(now) = Does(call) /\ Follows(now) \subseteq Follows(call)
         /\ FlagsOf(config.virtual, call)
              = FlagsOf(config.actual, now) \cup SysexitEnd(config, call, now.nr # call.nr)

\* A program finds random bytes if its release has them, and is not told of the host's release by what
\* comes before them; the rest is as the kernel has put it.
AuxvSuits(config, auxv, bytes) ==
    LET x == AdjustElfAuxv(config, auxv, bytes)
        had == SelectInSeq(auxv, LAMBDA v : v[1] = "RANDOM")
        hidden == {"SYSINFO", "SYSINFO_EHDR"}
    IN /\ config.actual < 29 /\ 29 <= config.virtual => \E i \in DOMAIN x : x[i][1] = "RANDOM"
       /\ \A i \in DOMAIN auxv : (had = 0 \/ i < had) => x[i][1] \notin hidden
       /\ \A i \in DOMAIN auxv : auxv[i][1] \notin hidden \cup {"HWCAP"} => x[i] = auxv[i]
===============================================================================
