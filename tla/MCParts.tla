-------------------------------- MODULE MCParts --------------------------------
(***************************************************************************)
(* The components that share no state, checked side by side: "which" says  *)
(* which of them moves in a behaviour, the others stay as they start.  A   *)
(* "probe" is one input of the algorithms that have no state.              *)
(***************************************************************************)
EXTENDS Mounts, Ptrace, IpcId, VmService, Talloc, FakeRoot, LinkToSymlink, Loading, Netlink, Sessions

VARIABLES which, probe

-------------------------------------------------------------------------------
(* The files: the directory h of the host is bound at /u in the rootfs r.  *)

R == <<"r">>
Abs(comps) == Plain(TRUE, comps)
Rel(comps) == Plain(FALSE, comps)

BaseTree == [h \in {<<>>, <<"h">>, <<"h", "u">>, R, <<"r", "n">>, <<"r", "n", "o">>,
                    <<"r", "u">>} |-> Dir]
MCTrees == {BaseTree}
B(host, guest) == [host |-> host, guest |-> Abs(guest)]
MCConfigs == {<<B(<<"h">>, <<"u">>), B(R, <<>>)>>}
MCSources == {Abs(<<"u">>), Abs(<<>>)}
MCTargets == {Abs(<<"n", "u">>), Abs(<<"n">>), Abs(<<"u">>)}
MCPivots == {<<Abs(<<"n">>), Rel(<<"o">>)>>, <<Abs(<<>>), Rel(<<".">>)>>}
MCHostMounts == {<<"h">>}
MCRenames == {<<Abs(<<"n">>), Abs(<<"m">>)>>}

(* Worlds to walk in: two links of the rootfs and one of the directory h,  *)
(* that lead to names of the guest and to paths of the host.               *)
LinkTargets == {Abs(<<"d">>), Abs(<<"d", "k">>), Abs(<<"l">>), Abs(<<"h", "k">>), Abs(<<"r", "d">>),
                Rel(<<"..">>), Rel(<<"..", "l">>), Rel(<<"k">>), Path(TRUE, <<"d", "x">>, TRUE)}
HostTargets == {Abs(<<"h", "x">>), Abs(<<"r", "l">>), Rel(<<"..", "d">>), Abs(<<"d", "k">>)}
World(l, dk, hk) ==
    [h \in {<<>>, R, <<"h">>, <<"r", "d">>, <<"h", "x">>, <<"r", "d", "x">>} |-> Dir]
    @@ (<<"r", "l">> :> Link(l)) @@ (<<"r", "d", "k">> :> Link(dk)) @@ (<<"h", "k">> :> Link(hk))
BoundAt(w, guest) == InitializeBindings(w, <<B(<<"h">>, guest), B(R, <<>>)>>)
Names == {"l", "k", "d", "..", "x"}
UserPaths == {Path(abs, c, slash) : abs \in BOOLEAN, slash \in BOOLEAN,
                                    c \in {<<a>> : a \in Names} \cup {<<a, b>> : a, b \in Names}
                                          \cup {<<"d", "x", "k">>, <<"l", "..", "k">>}}

\* The ids that the app makes up for sessions: main1, ..., script1, ...
MCMadeUpIds == {<<"main1", "main2", "main3", "main4">>, <<"script1", "script2", "script3", "script4">>}

NoProbe == [kind |-> "none"]
Walks == {[kind |-> "walk", tree |-> World(l, dk, hk), guest |-> g] :
            l \in LinkTargets, dk \in LinkTargets, hk \in HostTargets, g \in {<<"h">>, <<"d", "x">>}}

(* canonicalize() walks a path as the kernel would if the bindings were    *)
(* mounts.                                                                 *)
WalksAgree ==
    probe.kind = "walk" =>
      \A user \in UserPaths, deref \in BOOLEAN :
        AgreesWithKernel([bs |-> BoundAt(probe.tree, probe.guest), tree |-> probe.tree, cwd |-> <<"d">>, pid |-> "pid",
                          exe |-> <<>>], user, deref)

-------------------------------------------------------------------------------
(* Programs: static, with an interpreter, behind scripts; and one for each *)
(* way a segment and its zeros can lie in pages.                           *)
Segment(v, o, f, m) == [vaddr |-> v, offset |-> o, filesz |-> f, memsz |-> m]
Elf(dyn, loads, interp, entry, stackx) ==
    [kind |-> "elf", dyn |-> dyn, loads |-> loads, interp |-> interp, entry |-> entry, phoff |-> 1,
     phnum |-> Len(loads), stackx |-> stackx, eof |-> 60]
Shapes == {<<v, f, m>> : v \in {64, 70}, f \in {10, 16}, m \in {16, 26, 33}}
Shaped(s) == Elf(s[1] % 2 = 0, <<Segment(0, 0, 12, 12), Segment(s[1], 16 + (s[1] % 8), s[2], s[3])>>,
                 IF s[3] % 2 = 0 THEN <<"ld">> ELSE NoName, 3, FALSE)
MCFiles ==
    (<<"s">> :> Elf(FALSE, <<Segment(64, 0, 10, 10), Segment(85, 21, 6, 20)>>, NoName, 66, FALSE))
    @@ (<<"d">> :> Elf(TRUE, <<Segment(0, 0, 12, 12), Segment(19, 19, 9, 9)>>, <<"ld">>, 3, TRUE))
    @@ (<<"ld">> :> Elf(TRUE, <<Segment(0, 0, 16, 19)>>, NoName, 1, FALSE))
    @@ (<<"p">> :> [kind |-> "script", interp |-> <<"d">>, option |-> <<"-x">>])
    @@ (<<"pp">> :> [kind |-> "script", interp |-> <<"p">>, option |-> NoName])
    @@ (<<"t">> :> [kind |-> "text"])
    @@ [s \in Shapes |-> Shaped(s)]
MCWidth == [f \in DOMAIN MCFiles \cup {<<"-x">>} |-> IF f = <<"ld">> THEN 4 ELSE 3]
MCCommands == {[path |-> <<"pp">>, args |-> <<<<"pp">>>>], [path |-> <<"t">>, args |-> <<>>]}

Programs == {[kind |-> "program", path |-> s] : s \in {t \in DOMAIN MCFiles : MCFiles[t].kind = "elf"}}
\* Each is loaded as the kernel would load it.
ProgramsLoad ==
    probe.kind = "program" =>
      \A raw \in {probe.path, <<"pp">>}, isTraced \in BOOLEAN : Faithful(probe.path, raw, isTraced)

-------------------------------------------------------------------------------
(* Calls on a directory d and a file f in it.                              *)
InD(name) == <<Visit("d", FALSE), Visit(name, TRUE)>>
MCFileCalls ==
    {FileCall("open", InD("d/f"), 0), FileCall("stat", InD("d/f"), 0), FileCall("chmod", <<Visit("d", TRUE)>>, 2),
     FileCall("chmod", InD("d/f"), 2), FileCall("rename", InD("d/f"), "d/g")}

-------------------------------------------------------------------------------
(* Filters: an architecture with two ABIs and one that lacks calls; PRoot  *)
(* and an extension handle calls with and without their returns.           *)
Dwarf == [offset |-> 100, table |-> <<"open", "void", "chown">>]
Calls32 == [offset |-> 0, table |-> <<"void", "stat", "open", "openat", "link", "linkat", "utimes", "utimensat", "newfstatat">>]
Calls64 == [offset |-> 0,
            table |-> <<"openat", "symlinkat", "linkat", "fchmodat", "fchownat", "unlinkat", "newfstatat",
                                "faccessat", "mkdirat", "renameat", "accept4", "sendto", "recvfrom", "wait4", "pipe2", "dup3",
                                "epoll_pwait", "ftruncate64", "utimensat", "pselect6", "ppoll", "open">>]
Filtering == INSTANCE Filters
    WITH SeccompArchs <- <<[value |-> 7, abis |-> <<64, 65>>], [value |-> 3, abis |-> <<32>>]>>,
         Tables <- [abi \in {64, 65, 32} |-> CASE abi = 64 -> Calls64 [] abi = 65 -> Dwarf [] abi = 32 -> Calls32]

Handled == {[value |-> v, exit |-> e] : v \in {"open", "chown", "linkat", "stat"}, e \in BOOLEAN}
HandledLists == {<<>>} \cup {<<a>> : a \in Handled} \cup {<<a, b>> : a, b \in Handled}
Filterings == {[kind |-> "filter", own |-> own, ext |-> ext] : own \in HandledLists, ext \in {<<>>} \cup {<<a>> : a \in Handled}}
Plainly == {[nr |-> n, shows |-> [kind |-> "null"]] :
              n \in Filtering!AtCalls \cup Filtering!LongerCalls \cup {"utime", "utimes", "select", "setns", "acct"}}
Timely == {[nr |-> n, shows |-> [kind |-> "time", sec |-> 3, usec |-> u]] :
              n \in {"utime", "utimes", "select"}, u \in {-1, 0, 1, 999999, 1000000}}
Trapped == Plainly \cup Timely \cup {[nr |-> "poll", shows |-> [kind |-> "ms", ms |-> t]] : t \in {-1, 0, 1, 999, 1000, 2001}}
           \cup {[nr |-> n, shows |-> [kind |-> "fault"]] : n \in {"utime", "utimes", "select", "openat2"}}
           \cup {[nr |-> "openat2", shows |-> [kind |-> "how"]]}
(* Hosts with interfaces that have several entries, more than fit, or none, *)
(* and all kinds of requests.                                              *)
Entry(n, i, family, attrs) == [name |-> n, index |-> i, family |-> family, attrs |-> attrs]
Entries == {Entry("lo", 1, "inet", <<2>>), Entry("lo", 1, "inet6", <<4>>), Entry("wlan", 2, "packet", <<3, 3>>),
            Entry("wlan", 2, "inet", <<3, 3>>), Entry("rmnet", 3, "inet6", <<4, 2>>)}
Hosts == {[entries |-> e, routes |-> r] : e \in UNION {[1..n -> Entries] : n \in {0, 1, 2, 3}} \cup {<<x, y, x, z, y>> : x, y, z \in Entries},
                                         r \in {<<>>, <<6>>, <<6, 7, 3>>, <<7, 7, 7>>, <<3>>}}
NetRequests == {[type |-> t, dump |-> d, name |-> n, index |-> i, family |-> f] :
                 t \in {"getlink"}, d \in BOOLEAN, n \in {"", "lo", "wlan", "eth"}, i \in {0, 1, 2, 9}, f \in {"any"}}
               \cup {[type |-> "getaddr", dump |-> d, name |-> "", index |-> 0, family |-> f] : d \in BOOLEAN, f \in {"any", "inet", "inet6", "other"}}
               \cup {[type |-> t, dump |-> d, name |-> "", index |-> 0, family |-> "any"] : t \in {"getroute", "other"}, d \in BOOLEAN}
NetProbes == {[kind |-> "netlink", host |-> h] : h \in Hosts}
RepliesAreWhole == probe.kind = "netlink" => \A req \in NetRequests : ReplyIsWhole(req, probe.host)

-------------------------------------------------------------------------------
\* The filter tells PRoot of the calls it must know of, and a trapped call keeps its meaning.
CallsAreSeen ==
    /\ probe.kind = "filter" => Filtering!FilterTells(probe.own, <<probe.ext, probe.own>>)
    /\ probe.kind = "trap" => \A abi \in {64, 32} : Filtering!TrappedCallsMean(abi, probe.call)

-------------------------------------------------------------------------------
(* Memories of one and two pages, whose second may be out of reach.        *)
Mem == INSTANCE TraceeMemory
    WITH WordLen <- 4, ChunkLen <- 4, RedZone <- 3, Limit <- 32, OffsetofPath <- 1, SizeofPath <- 6, Unix <- 9
Memories == {[a \in 8..end |-> IF a = z THEN 0 ELSE a] : end \in {15, 23}, z \in {8, 11, 12, 15, 16, 17, 19, 23}}
MemoryProbes == {[kind |-> "memory", mem |-> m, reach |-> v] : m \in Memories, v \in {{}, 8..15, 8..23}}
MemoryIsRight ==
    probe.kind = "memory" =>
      LET vm == probe.reach \cap DOMAIN probe.mem
          within == {x \in DOMAIN probe.mem : x + 8 \in DOMAIN probe.mem}
      IN /\ \A a \in DOMAIN probe.mem, n \in 0..9 : Mem!MemoryIsRight(probe.mem, vm, a, n, 1)
         /\ \A size \in 1..9 : Mem!StackIsKept(Cardinality(vm) + 8, size)
         /\ \A a \in within, room \in {2, 4, 5, 7, 8}, u \in {1, 3, 6}, h \in {1, 4, 6, 7} :
              Mem!SocketIsNamed(probe.mem, vm, a, room, [i \in 1..u |-> 5], [i \in 1..h |-> 6], <<7, 7>>)

-------------------------------------------------------------------------------
(* Calls one by one.  The name of a file for the guest is shorter or longer *)
(* than for the host, or the same; what is in a register that the guest     *)
(* uses for something else has any bits.                                    *)
PathCall == INSTANCE PathCalls
GuestName(h) ==
    CASE h # <<>> /\ Head(h) = 1 -> <<9>> \o SubSeq(h, 4, Len(h))
      [] h # <<>> /\ Head(h) = 2 -> <<8, 8, 8>> \o Tail(h)
      [] OTHER -> h
HostNames == {<<x>> \o [i \in 1..n |-> i] : x \in {1, 2, 3}, n \in 3..6}
Vectors == {<<31, 7, 6, 31, 0, 0>>, <<6, 31, 31, 7, 0, 0>>, <<6, 0, 31, 31, 0, 5>>, <<0, 0, 31, 5>>, <<6, 6, 0, 31>>}
Bits == SUBSET {"NOFOLLOW", "EXCL", "CREAT", "FOLLOW"}
PathProbes == {[kind |-> "paths", nr |-> n] : n \in Filtering!AtCalls \cup {"utime", "utimes"}}
              \cup {[kind |-> "socketcall", is |-> is] : is \in {"unix", "error"}}
              \cup {[kind |-> "readlink", link |-> h] : h \in HostNames} \cup {[kind |-> "auxv", auxv |-> v] : v \in Vectors}
\* The flags in the registers of a call that PRoot has put in the place of another.
FlagsThere(regs, bits) ==
    [i \in 1..6 |-> IF regs[i][1] = "put" THEN {regs[i][2]} ELSE IF regs[i][1] = "arg" THEN bits[regs[i][2]] ELSE {}]
CallsAreTranslated ==
    /\ probe.kind = "paths" =>
         LET call == [nr |-> probe.nr, shows |-> [kind |-> "null"]]
             other == Filtering!HandleSeccompEvent(64, 0, call)
         IN \A x \in Bits, y \in Bits :
              LET bits == [i \in 1..6 |-> IF i = 2 THEN x ELSE y]
              IN PathCall!NamesTheSame(probe.nr, bits, Filtering!Rewrite(call).to, other.regs, FlagsThere(other.regs, bits))
    /\ probe.kind = "socketcall" =>
         \A result \in {-1, 0} : PathCall!ArgsAreKept(<<3, 50, 9>>, probe.is, <<90, 110>>, <<5, 6>>, result)
    /\ probe.kind = "readlink" => \A max \in 1..9 : PathCall!LinkIsShown(probe.link, GuestName(probe.link), max)
    /\ probe.kind = "auxv" => \A n \in 1..Len(probe.auxv) : PathCall!AuxvIsPatched(probe.auxv, n, 0, 31, 99)

-------------------------------------------------------------------------------
(* Old kernels and small extensions.                                       *)
Kompat == INSTANCE Kompat WITH Lacking <- {}
KompatCalls == DOMAIN Kompat!Renamed \cup {"open", "socket", "socketpair", "timerfd_create", "fcntl", "futex"}
FlagRegs == [fchownat |-> 5, newfstatat |-> 4, unlinkat |-> 3, linkat |-> 5, fcntl |-> 2, futex |-> 2] @@ Kompat!FlagsReg
Sensible(nr) == CASE nr = "linkat" -> {"FOLLOW", "UNKNOWN"} [] nr \in {"fchownat", "newfstatat"} -> {"NOFOLLOW", "UNKNOWN"}
                  [] nr = "unlinkat" -> {"REMOVEDIR"} [] nr = "fcntl" -> {"DUPFD_CLOEXEC"} [] nr = "futex" -> {"PRIVATE"}
                  [] nr \in {"open", "openat"} -> {"CLOEXEC", "NOFOLLOW", "EXCL", "CREAT"} [] nr = "dup3" -> {"CLOEXEC", "UNKNOWN"}
                  [] nr = "eventfd2" -> {"CLOEXEC", "NONBLOCK", "SEMAPHORE"} [] OTHER -> {"CLOEXEC", "NONBLOCK"}
MCKompat(nr, bits) ==
    [nr |-> nr, regs |-> [i \in 1..6 |-> Kompat!Reg(<<"arg", i>>, IF nr \in DOMAIN FlagRegs /\ FlagRegs[nr] = i THEN bits ELSE {})]]
Auxvs == {<<<<"SYSINFO", "s">>, <<"HWCAP", "c">>, <<"PHDR", "p">>, <<"RANDOM", "r">>, <<"HWCAP", "d">>>>,
          <<<<"HWCAP", "c">>, <<"SYSINFO_EHDR", "s">>, <<"PHDR", "p">>>>}
KompatProbes == {[kind |-> "kompat", nr |-> n, actual |-> x] : n \in KompatCalls, x \in {15, 16, 20, 22, 23, 26, 27, 28}}
                \cup {[kind |-> "oldauxv", auxv |-> v, actual |-> x] : v \in Auxvs, x \in {0, 22, 28, 29}}
OldKernelsServe ==
    /\ probe.kind = "kompat" =>
         \A virtual \in {15, 16, 18, 19, 22, 23, 24, 26, 27, 28, 29}, bits \in SUBSET Sensible(probe.nr) :
           Kompat!OldKernelServes([actual |-> probe.actual, virtual |-> virtual, hwcap |-> "-1"], MCKompat(probe.nr, bits))
    /\ probe.kind = "oldauxv" =>
         \A virtual \in {22, 28, 29}, hwcap \in {"-1", "w"} :
           Kompat!AuxvSuits([actual |-> probe.actual, virtual |-> virtual, hwcap |-> hwcap], probe.auxv, "here")

Small == INSTANCE SmallExtensions
ExtList == <<[callback |-> 1, config |-> "p"], [callback |-> 2, config |-> "q"], [callback |-> 3, config |-> "r"]>>
FileOps == {[nr |-> "memfd_create"], [nr |-> "mmap"]} \cup {[nr |-> "ftruncate", size |-> z] : z \in {0, 5, 7}}
           \cup {[nr |-> "fstat", at |-> w] : w \in {"buf", "nowhere"}}
Entry1 == {<<".proot", "a">>, <<"", "b">>, <<"", "c">>}
Listing == UNION {[1..n -> Entry1] : n \in 1..2}
MountLines == {"short", "/data", "/dev", "/dev/pts", "/proc", "/mnt", "/"}
SmallProbes == {[kind |-> "inherit", answers |-> x] : x \in [1..3 -> {-1, 0, 1}]}
               \cup {[kind |-> "ashmem", supported |-> b, ops |-> h] : b \in BOOLEAN, h \in [1..3 -> FileOps]}
               \cup {[kind |-> "dirents", chunks |-> c] : c \in UNION {[1..n -> Listing] : n \in 0..2}}
               \cup {[kind |-> "port", port |-> x] : x \in {0, 1, 80, 1023, 1024, 2080, 65535}}
               \cup {[kind |-> "mountinfo", lines |-> l] : l \in UNION {[1..n -> MountLines] : n \in 1..3}}
ExtensionsKeep ==
    /\ probe.kind = "inherit" => \A replies \in [1..3 -> {-1, 0, 1}] : Small!InheritsOnce(ExtList, probe.answers, replies)
    /\ probe.kind = "ashmem" =>
         \A last \in {[nr |-> "fstat", at |-> "buf"], [nr |-> "ftruncate", size |-> 9]}, was \in {0, 3} :
           Small!ActsAsMemfd(probe.supported, "buf" :> 1 @@ Small!SetSize :> was @@ "else" :> 0, Append(probe.ops, last))
    /\ probe.kind = "dirents" => Small!ListsAll(probe.chunks)
    /\ probe.kind = "port" => \A family \in {"inet", "inet6"}, direct \in BOOLEAN : Small!ClientsMeetServers(family, direct, probe.port)
    /\ probe.kind = "mountinfo" =>
         \A inData \in BOOLEAN, g \in {<<"/">>, <<"/", "/u">>, <<"/u", "/w", "/">>} : Small!MountsShown(probe.lines, inData, g)

-------------------------------------------------------------------------------
(* The algorithms that have no state do what they stand for.               *)
AlgorithmsAgree ==
    /\ WalksAgree /\ ProgramsLoad /\ CallsAreSeen /\ RepliesAreWhole /\ MemoryIsRight /\ CallsAreTranslated
    /\ OldKernelsServe /\ ExtensionsKeep

-------------------------------------------------------------------------------
(* The types of all the components.                                        *)
PartsTypeOK ==
    /\ which = "files" => MountTypeOK
    /\ which = "ptrace" => PtraceTypeOK
    /\ which = "ids" => IdTypeOK
    /\ which = "vm" => VmTypeOK
    /\ which = "memory" => TreeSound

Probe ==
    /\ probe = NoProbe
    /\ probe' \in Walks \cup Programs \cup MemoryProbes \cup PathProbes \cup KompatProbes \cup SmallProbes \cup NetProbes \cup Filterings \cup {[kind |-> "trap", call |-> c] : c \in Trapped}

PartsInit ==
    /\ which \in {"files", "ptrace", "ids", "vm", "memory", "root", "links", "load", "net", "sessions", "probe"} /\ probe = NoProbe
    /\ MountInit /\ PtraceInit /\ IdInit /\ VmInit /\ MemInit /\ FakeInit /\ LinkerInit /\ LoadInit /\ NetInit /\ SessionsInit
    /\ which = "root" \/ \E u \in Users : cred[u] = InitialCred(0, 0)
    /\ which = "net" \/ blocked

partVars == <<mountVars, ptraceVars, idVars, vmVars, memVars, fakeVars, linkVars, loadVars, netVars, sessionVars, probe>>

PartsNext ==
    /\ UNCHANGED which
    /\ \/ which = "files" /\ MountNext /\ UNCHANGED <<ptraceVars, idVars, vmVars, memVars, fakeVars, linkVars, loadVars, netVars, sessionVars, probe>>
       \/ which = "ptrace" /\ PtraceNext /\ UNCHANGED <<mountVars, idVars, vmVars, memVars, fakeVars, linkVars, loadVars, netVars, sessionVars, probe>>
       \/ which = "ids" /\ IdNext /\ UNCHANGED <<mountVars, ptraceVars, vmVars, memVars, fakeVars, linkVars, loadVars, netVars, sessionVars, probe>>
       \/ which = "vm" /\ VmNext /\ UNCHANGED <<mountVars, ptraceVars, idVars, memVars, fakeVars, linkVars, loadVars, netVars, sessionVars, probe>>
       \/ which = "memory" /\ MemNext /\ UNCHANGED <<mountVars, ptraceVars, idVars, vmVars, fakeVars, linkVars, loadVars, netVars, sessionVars, probe>>
       \/ which = "root" /\ FakeNext /\ UNCHANGED <<mountVars, ptraceVars, idVars, vmVars, memVars, linkVars, loadVars, netVars, sessionVars, probe>>
       \/ which = "links" /\ LinkerNext /\ UNCHANGED <<mountVars, ptraceVars, idVars, vmVars, memVars, fakeVars, loadVars, netVars, sessionVars, probe>>
       \/ which = "load" /\ LoadNext /\ UNCHANGED <<mountVars, ptraceVars, idVars, vmVars, memVars, fakeVars, linkVars, netVars, sessionVars, probe>>
       \/ which = "net" /\ NetNext /\ UNCHANGED <<mountVars, ptraceVars, idVars, vmVars, memVars, fakeVars, linkVars, loadVars, sessionVars, probe>>
       \/ which = "sessions" /\ SessionsNext /\ UNCHANGED <<mountVars, ptraceVars, idVars, vmVars, memVars, fakeVars, linkVars, loadVars, netVars, probe>>
       \/ which = "probe" /\ Probe /\ UNCHANGED <<mountVars, ptraceVars, idVars, vmVars, memVars, fakeVars, linkVars, loadVars, netVars, sessionVars>>

PartsSpec == PartsInit /\ [][PartsNext]_<<partVars, which>>
================================================================================
