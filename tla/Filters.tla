-------------------------------- MODULE Filters --------------------------------
(***************************************************************************)
(* What decides which calls of a guest PRoot sees, and what becomes of the *)
(* calls that a filter of the host traps: syscall/seccomp.c builds a       *)
(* program for the kernel from the lists of calls that PRoot and its       *)
(* extensions handle, syscall/sysnum.c maps the numbers of each ABI to     *)
(* common ones, tracee/seccomp.c puts another call in place of a trapped   *)
(* one.  Registers hold symbols, so that one call stands for all.          *)
(***************************************************************************)
EXTENDS Integers, SequencesExt

CONSTANTS SeccompArchs,   \* sequence of [value, abis]
          Tables          \* by ABI: [offset, table], the calls in order of their numbers

Void == "void"            \* PR_void, and a hole of a table
Avoider == -2             \* SYSCALL_AVOIDER
-------------------------------------------------------------------------------
(* Numbers (sysnum.c).  The index of a table starts at 0.                  *)

Length(abi) == Len(Tables[abi].table)
\* One number past its end, a table is read all the same: whatever lies there.
TranslateSysnum(abi, nr) ==
    LET index == nr - Tables[abi].offset
    IN IF index < 0 \/ index > Length(abi) THEN {Void}
       ELSE IF index = Length(abi) THEN {Void} \cup Range(Tables[abi].table)
       ELSE {Tables[abi].table[index + 1]}

DetranslateSysnum(abi, sysnum) ==
    LET at == {i \in 1..Length(abi) : Tables[abi].table[i] = sysnum}
    IN IF sysnum = Void \/ at = {} THEN Avoider ELSE Min(at) - 1 + Tables[abi].offset

-------------------------------------------------------------------------------
(* The program (seccomp.c).  A filtered call is [value, exit].             *)

Ld(what) == [op |-> "ld", what |-> what]
Jeq(val, yes, no) == [op |-> "jeq", val |-> val, yes |-> yes, no |-> no]
Ja(skip) == [op |-> "ja", skip |-> skip]
Ret(verdict) == [op |-> "ret", verdict |-> verdict]

\* merge_filtered_sysnums()
MergeOne(list, new) ==
    IF \E i \in DOMAIN list : list[i].value = new.value
    THEN [i \in DOMAIN list |-> IF list[i].value = new.value THEN [list[i] EXCEPT !.exit = @ \/ new.exit] ELSE list[i]]
    ELSE Append(list, new)
MergeFilteredSysnums(list, new) == FoldLeft(MergeOne, list, new)

AddTraceSyscall(s, nr) == <<Jeq(nr, 0, 1), Ret([act |-> "trace", exit |-> s.exit])>>

\* The section of one architecture, which may have several ABIs.
Traced(arch, sysnums) ==
    LET of(abi) == FoldLeft(LAMBDA code, s :
                              IF DetranslateSysnum(abi, s.value) = Avoider THEN code
                              ELSE code \o AddTraceSyscall(s, DetranslateSysnum(abi, s.value)), <<>>, sysnums)
    IN FoldLeft(LAMBDA code, abi : code \o of(abi), <<>>, arch.abis)
ArchSection_Short(arch, traced) ==
    <<Ld("arch"), Jeq(arch.value, 1, 0), Ja(Len(traced) + 1), Ld("nr")>> \o traced \o <<Ret([act |-> "allow"])>>
ArchSection(arch, traced) ==
    LET length == 1 + Len(traced)
    IN <<Ld("arch"), Jeq(arch.value, 1, 0), Ja(length + 1), Ld("nr")>> \o traced \o <<Ret([act |-> "allow"])>>

\* set_seccomp_filters()
SeccompFilters(sysnums) ==
    Append(FoldLeft(LAMBDA code, arch : code \o ArchSection(arch, Traced(arch, sysnums)), <<>>, SeccompArchs),
           Ret([act |-> "kill"]))

\* enable_syscall_filtering(), of PRoot's own list and those of the extensions.
EnableSyscallFiltering(own, extensions) ==
    SeccompFilters(FoldLeft(MergeFilteredSysnums, MergeFilteredSysnums(<<>>, own), extensions))

\* What the kernel makes of it; there are no jumps backwards.
Verdict(program, arch, nr) ==
    LET from[pc \in 1..Len(program), acc \in {"none", "arch", "nr"}] ==
          LET s == program[pc]
          IN CASE s.op = "ret" -> s.verdict
               [] s.op = "ld" -> from[pc + 1, s.what]
               [] s.op = "ja" -> from[pc + 1 + s.skip, acc]
               [] s.op = "jeq" -> from[pc + 1 + (IF (IF acc = "nr" THEN nr ELSE arch) = s.val THEN s.yes ELSE s.no), acc]
    IN from[1, "none"]

-------------------------------------------------------------------------------
(* Trapped calls (tracee/seccomp.c).  A register holds an argument of the  *)
(* trapped call or something that PRoot has put there.                     *)

Arg(n) == <<"arg", n>>
Put(v) == <<"put", v>>
Cwd == <<"AT_FDCWD">>
None == <<"0">>
Time(sec, nsec) == <<"time", sec, nsec>>

\* The registers that are written, one after the other: from another, or with a value.
From(dst, src) == [dst |-> dst, src |-> src]
With(dst, v) == [dst |-> dst, src |-> 0, v |-> v]
Poke(regs, w) == [regs EXCEPT ![w.dst] = IF w.src = 0 THEN w.v ELSE regs[w.src]]

\* The calls with a path, that get a directory in front.
ToAt(sysnum) ==
    CASE sysnum = "open" -> [to |-> "openat", writes |-> <<From(4, 3), From(3, 2), From(2, 1), With(1, Cwd)>>]
      [] sysnum = "symlink" -> [to |-> "symlinkat", writes |-> <<From(3, 2), With(2, Cwd)>>]
      [] sysnum = "link" ->
           [to |-> "linkat", writes |-> <<From(4, 2), From(2, 1), With(1, Cwd), With(3, Cwd), With(5, None)>>]
      [] sysnum = "chmod" -> [to |-> "fchmodat", writes |-> <<From(3, 2), From(2, 1), With(1, Cwd), With(4, None)>>]
      [] sysnum \in {"chown", "lchown"} ->
           [to |-> "fchownat",
            writes |-> <<From(4, 3), From(3, 2), From(2, 1), With(1, Cwd),
                         With(5, IF sysnum = "lchown" THEN Put("NOFOLLOW") ELSE None)>>]
      [] sysnum \in {"unlink", "rmdir"} ->
           [to |-> "unlinkat",
            writes |-> <<From(2, 1), With(1, Cwd), With(3, IF sysnum = "rmdir" THEN Put("REMOVEDIR") ELSE None)>>]
      [] sysnum \in {"stat", "lstat"} ->
           [to |-> "newfstatat",
            writes |-> <<With(4, IF sysnum = "lstat" THEN Put("NOFOLLOW") ELSE None), From(3, 2), From(2, 1), With(1, Cwd)>>]
      [] sysnum = "access" -> [to |-> "faccessat", writes |-> <<With(4, None), From(3, 2), From(2, 1), With(1, Cwd)>>]
      [] sysnum = "mkdir" -> [to |-> "mkdirat", writes |-> <<From(3, 2), From(2, 1), With(1, Cwd)>>]
      [] sysnum = "rename" ->
           [to |-> "renameat", writes |-> <<From(4, 2), With(3, Cwd), From(2, 1), With(1, Cwd)>>]

\* Those that get more arguments.
ToLonger(sysnum) ==
    CASE sysnum = "accept" -> [to |-> "accept4", writes |-> <<With(4, None)>>]
      [] sysnum = "send" -> [to |-> "sendto", writes |-> <<With(5, None), With(6, None)>>]
      [] sysnum = "recv" -> [to |-> "recvfrom", writes |-> <<With(5, None), With(6, None)>>]
      [] sysnum = "waitpid" -> [to |-> "wait4", writes |-> <<With(4, None)>>]
      [] sysnum = "pipe" -> [to |-> "pipe2", writes |-> <<With(2, None)>>]
      [] sysnum = "dup2" -> [to |-> "dup3", writes |-> <<With(3, None)>>]
      [] sysnum = "epoll_wait" -> [to |-> "epoll_pwait", writes |-> <<With(5, None), With(6, None)>>]
      [] sysnum = "ftruncate" -> [to |-> "ftruncate64", writes |-> <<From(3, 2), With(2, None), With(4, None)>>]

AtCalls == {"open", "symlink", "link", "chmod", "chown", "lchown", "unlink", "rmdir", "stat", "lstat", "access",
            "mkdir", "rename"}
LongerCalls == {"accept", "send", "recv", "waitpid", "pipe", "dup2", "epoll_wait", "ftruncate"}

\* And those with data that changes its form, which a pointer of the guest shows, if it is
\* neither null nor wrong.  utime() and utimes() have two times, of which one stands here.
FromUsec(t) == Time(t.sec, t.usec * 1000)
FromSec(t) == Time(t.sec, 0)
ToUtimensat(sysnum, shown) ==
    IF shown.kind = "fault" THEN [answer |-> "EFAULT"]
    ELSE [to |-> "utimensat",
          writes |-> <<With(2, CASE shown.kind = "null" -> Arg(2)
                             [] sysnum = "utimes" -> FromUsec(shown)
                             [] OTHER -> FromSec(shown))>>
                     \o <<With(4, None), From(3, 2), From(2, 1), With(1, Cwd)>>]
Select(shown) ==
    CASE shown.kind = "fault" -> [answer |-> "EFAULT"]
      [] shown.kind = "time" /\ (shown.usec >= 1000000 \/ shown.usec < 0) -> [answer |-> "EINVAL"]
      [] OTHER -> [to |-> "pselect6",
                   writes |-> <<With(5, IF shown.kind = "null" THEN None ELSE FromUsec(shown)), With(6, None)>>]
\* The number of milliseconds is in the register itself.
Poll(ms) ==
    [to |-> "ppoll",
     writes |-> <<With(3, IF ms < 0 THEN None ELSE Time(ms \div 1000, (ms % 1000) * 1000000)),
                  With(4, None), With(5, None)>>]
Openat2(shown) ==
    IF shown.kind = "fault" THEN [answer |-> "EFAULT"]
    ELSE [to |-> "openat", writes |-> <<With(3, Put("how.flags")), With(4, Put("how.mode"))>>]

\* setresuid(): nothing can change, so only what is there may be asked for.
SetXid(have, want) == [answer |-> IF \A i \in 1..3 : want[i] \in {have[i], -1} THEN 0 ELSE "EPERM"]

\* handle_seccomp_event_common(), after the extensions have been asked.
Rewrite(call) ==
    CASE call.nr \in AtCalls -> ToAt(call.nr)
      [] call.nr \in LongerCalls -> ToLonger(call.nr)
      [] call.nr \in {"utimes", "utime"} -> ToUtimensat(call.nr, call.shows)
      [] call.nr = "select" -> Select(call.shows)
      [] call.nr = "poll" -> Poll(call.shows.ms)
      [] call.nr = "openat2" -> Openat2(call.shows)
      [] call.nr = "setresuid" -> SetXid(call.shows.have, call.shows.want)
      [] call.nr \in {"setgroups", "mount", "umount", "pivot_root", "unshare", "setns"} -> [answer |-> 0]
      [] OTHER -> [answer |-> "ENOSYS"]

\* handle_seccomp_event(): an extension answers (below 0, or 1, or 2), or the call is rewritten
\* and run again, if the ABI has the other call.
HandleSeccompEvent(abi, status, call) ==
    LET w == Rewrite(call)
    IN CASE status < 0 -> [answer |-> status]
         [] status = 1 -> [answer |-> 0]
         [] status = 2 -> [kept |-> TRUE]
         [] status = 0 ->
              IF "answer" \in DOMAIN w THEN w
              ELSE [again |-> DetranslateSysnum(abi, w.to), regs |-> FoldLeft(Poke, [i \in 1..6 |-> Arg(i)], w.writes)]

-------------------------------------------------------------------------------
(* What is asked of them.                                                  *)

\* A call is reported if its number stands for one that somebody handles, with its return
\* if anybody needs that, the others are left alone, and nothing else may call.
FilterTells(own, extensions) ==
    LET program == EnableSyscallFiltering(own, extensions)
        wanted == Range(own) \cup UNION {Range(extensions[i]) : i \in DOMAIN extensions}
    IN /\ Verdict(program, -1, 0) = [act |-> "kill"]
       /\ \A a \in DOMAIN SeccompArchs :
            \A abi \in Range(SeccompArchs[a].abis) : \A index \in 0..(Length(abi) - 1) :
               LET nr == index + Tables[abi].offset
                   by == {s \in wanted : {s.value} = TranslateSysnum(abi, nr)}
               IN Verdict(program, SeccompArchs[a].value, nr) =
                    IF by = {} THEN [act |-> "allow"] ELSE [act |-> "trace", exit |-> \E s \in by : s.exit]

\* The names of the arguments, of old calls and of new.
Params ==
    [open |-> <<"path", "flags", "mode">>, openat |-> <<"dir", "path", "flags", "mode">>,
     symlink |-> <<"target", "path">>, symlinkat |-> <<"target", "dir", "path">>,
     link |-> <<"old", "new">>, linkat |-> <<"olddir", "old", "newdir", "new", "at">>,
     chmod |-> <<"path", "mode">>, fchmodat |-> <<"dir", "path", "mode">>,
     chown |-> <<"path", "uid", "gid">>, lchown |-> <<"path", "uid", "gid">>,
     fchownat |-> <<"dir", "path", "uid", "gid", "at">>,
     unlink |-> <<"path">>, rmdir |-> <<"path">>, unlinkat |-> <<"dir", "path", "at">>,
     stat |-> <<"path", "buf">>, lstat |-> <<"path", "buf">>, newfstatat |-> <<"dir", "path", "buf", "at">>,
     access |-> <<"path", "mode">>, faccessat |-> <<"dir", "path", "mode">>,
     mkdir |-> <<"path", "mode">>, mkdirat |-> <<"dir", "path", "mode">>,
     rename |-> <<"old", "new">>, renameat |-> <<"olddir", "old", "newdir", "new">>,
     accept |-> <<"fd", "addr", "len">>, accept4 |-> <<"fd", "addr", "len", "flags">>,
     send |-> <<"fd", "buf", "len", "flags">>, sendto |-> <<"fd", "buf", "len", "flags", "addr", "alen">>,
     recv |-> <<"fd", "buf", "len", "flags">>, recvfrom |-> <<"fd", "buf", "len", "flags", "addr", "alen">>,
     waitpid |-> <<"pid", "status", "options">>, wait4 |-> <<"pid", "status", "options", "rusage">>,
     pipe |-> <<"fds">>, pipe2 |-> <<"fds", "flags">>, dup2 |-> <<"fd", "new">>, dup3 |-> <<"fd", "new", "flags">>,
     epoll_wait |-> <<"fd", "ev", "max", "ms">>, epoll_pwait |-> <<"fd", "ev", "max", "ms", "mask">>,
     ftruncate |-> <<"fd", "length">>, ftruncate64 |-> <<"fd", "pad", "length", "high">>,
     utimes |-> <<"path", "time">>, utime |-> <<"path", "time">>, utimensat |-> <<"dir", "path", "time", "at">>,
     select |-> <<"n", "r", "w", "e", "time">>, pselect6 |-> <<"n", "r", "w", "e", "time", "mask">>,
     poll |-> <<"fds", "n", "time">>, ppoll |-> <<"fds", "n", "time", "mask">>,
     openat2 |-> <<"dir", "path", "how">>]
Given0 == [dir |-> Cwd, olddir |-> Cwd, newdir |-> Cwd]
\* What a call means: its arguments by name, the ones that are 0 or AT_FDCWD as if absent.
Says(nr, regs) == [i \in {Params[nr][j] : j \in DOMAIN Params[nr]} |-> regs[CHOOSE j \in DOMAIN Params[nr] : Params[nr][j] = i]]
Meaning(said) == {x \in [name : DOMAIN said, v : Range(said)] :
                    x.v = said[x.name] /\ x.v # (IF x.name \in DOMAIN Given0 THEN Given0[x.name] ELSE None)}

\* The flag that tells two old calls of one new call apart, and the time of an old call.
Implied(call, said) ==
    CASE call.nr \in {"lchown", "lstat"} -> [at |-> Put("NOFOLLOW")] @@ said
      [] call.nr = "rmdir" -> [at |-> Put("REMOVEDIR")] @@ said
      [] call.shows.kind = "time" ->
           [time |-> Time(call.shows.sec, IF call.nr = "utime" THEN 0 ELSE 1000 * call.shows.usec)] @@ said
      [] call.nr = "select" /\ call.shows.kind = "null" -> [time |-> None] @@ said
      [] call.nr = "poll" ->
           [time |-> IF call.shows.ms < 0 THEN None
                     ELSE LET s == CHOOSE s \in 0..call.shows.ms : call.shows.ms - s * 1000 \in 0..999
                          IN Time(s, (call.shows.ms - s * 1000) * 1000000)] @@ said
      [] call.nr = "openat2" ->
           [dir |-> Arg(1), path |-> Arg(2), flags |-> Put("how.flags"), mode |-> Put("how.mode")]
      [] OTHER -> said

\* A call that runs again means what the trapped one meant; one that the guest's ABI lacks is
\* answered as such.  (dup2() of a descriptor to itself is not told apart here.)
TrappedCallsMean(abi, call) ==
    LET h == HandleSeccompEvent(abi, 0, call)
        to == Rewrite(call).to
    IN "again" \in DOMAIN h =>
         /\ h.again = Avoider <=> to \notin Range(Tables[abi].table)
         /\ Meaning(Says(to, h.regs)) = Meaning(Implied(call, Says(call.nr, [i \in 1..6 |-> Arg(i)])))
===============================================================================
