---------------------------- MODULE SmallExtensions ----------------------------
(***************************************************************************)
(* Extensions of PRoot that keep little state or none: the list of them    *)
(* that a child inherits (extension/extension.c), memory files made of     *)
(* ashmem, hidden files in listings, switched ports, and the table of      *)
(* mounts (ashmem_memfd.c, hidden_files.c, port_switch.c, mountinfo.c).    *)
(***************************************************************************)
EXTENDS Integers, SequencesExt, TLC

-------------------------------------------------------------------------------
(* The list of a tracee: the latest is at the head.  answers[c] is what    *)
(* the callback c returns: to INHERIT_PARENT a number below 0 for an       *)
(* extension that is not inheritable, 0 for one whose config is shared.    *)

InheritExtensions(list, answers, new) ==
    FoldLeft(LAMBDA child, e :
               IF answers[e.callback] < 0 THEN child
               ELSE <<[callback |-> e.callback, config |-> IF answers[e.callback] = 0 THEN e.config ELSE new]>> \o child,
             <<>>, list)
\* The first answer other than 0 ends it.
NotifyExtensions(list, answers) ==
    LET i == SelectInSeq(list, LAMBDA e : answers[e.callback] # 0)
    IN IF i = 0 THEN 0 ELSE answers[list[i].callback]

-------------------------------------------------------------------------------
(* A file in memory for a guest whose kernel has no memfd_create(): it is  *)
(* an ashmem, whose size is not that of fstat() but is asked for by a      *)
(* chained call.  at is where fstat() puts the size, or for ftruncate()    *)
(* the number of the request that has come into that register.             *)

SetSize == "ASHMEM_SET_SIZE"
EnterEnd(s, call) ==
    LET ashmem == s.file = "ashmem"
    IN CASE call.nr = "memfd_create" -> [s EXCEPT !.file = IF s.supported THEN "memfd" ELSE "ashmem"]
         [] call.nr = "ftruncate" /\ ashmem -> [s EXCEPT !.chain = "stat", !.at = SetSize]
         [] call.nr = "fstat" /\ ashmem -> [s EXCEPT !.chain = "stat", !.at = call.at]
         [] OTHER -> s
\* What the kernel does; an ashmem that is mapped has its size for ever.
Kernel(s, call) ==
    CASE call.nr = "ftruncate" /\ s.file = "ashmem" /\ s.mapped -> [s EXCEPT !.result = -1]
      [] call.nr = "ftruncate" /\ (s.file # "ashmem" \/ ~s.mapped) -> [s EXCEPT !.size = call.size, !.result = 0]
      [] call.nr = "fstat" /\ call.at \in DOMAIN s.mem ->
            [s EXCEPT !.mem[call.at] = IF s.file = "ashmem" THEN 0 ELSE s.size, !.result = 0]
      [] call.nr = "fstat" /\ call.at \notin DOMAIN s.mem -> [s EXCEPT !.result = -1]
      [] call.nr = "mmap" -> [s EXCEPT !.mapped = TRUE, !.result = 0]
      [] call.nr = "memfd_create" -> [s EXCEPT !.size = 0, !.mapped = FALSE, !.result = 0]
\* A word that is not mapped reads as 0.
ExitStart_Always(s) ==
    CASE s.chain = "stat" -> [s EXCEPT !.chain = "ioctl"]
      [] s.chain = "idle" -> s
ExitStart(s) ==
    CASE s.chain = "stat" /\ (s.result # 0 \/ (s.at \in DOMAIN s.mem /\ s.mem[s.at] # 0)) -> [s EXCEPT !.chain = "idle"]
      [] s.chain = "stat" /\ s.result = 0 /\ (s.at \in DOMAIN s.mem => s.mem[s.at] = 0) -> [s EXCEPT !.chain = "ioctl"]
      [] s.chain = "idle" -> s
ChainedExit(s) ==
    IF s.chain = "ioctl"
    THEN [s EXCEPT !.chain = "idle", !.result = 0,
                   !.mem = [a \in DOMAIN s.mem |-> IF a = s.at THEN s.size ELSE s.mem[a]]]
    ELSE s
AshmemCall(s, call) == ChainedExit(ExitStart(Kernel(EnterEnd(s, call), call)))

-------------------------------------------------------------------------------
(* getdents() in a directory of the guest: the entries of PRoot's own are  *)
(* left out; where nothing is left the call is made again.  chunks are the *)
(* answers of the kernel, to come.                                         *)
HandleGetdents(chunks) ==
    LET kept == [i \in DOMAIN chunks |-> SelectSeq(chunks[i], LAMBDA name : name[1] # ".proot")]
        i == SelectInSeq([j \in DOMAIN chunks |-> chunks[j] = <<>> \/ kept[j] # <<>>], LAMBDA shown : shown)
    IN IF i = 0 THEN [shown |-> <<>>, rest |-> <<>>] ELSE [shown |-> kept[i], rest |-> SubSeq(chunks, i + 1, Len(chunks))]

-------------------------------------------------------------------------------
(* Ports that a user may not take are switched in the memory of the guest; *)
(* sendto() is not switched where it is a call of its own in IPv6.         *)
PORT_THRESHOLD == 1024
PORT_ADDITION == 2000
ModPort(call, direct, addr) ==
    IF addr.port > 0 /\ addr.port < PORT_THRESHOLD /\ addr.family \in {"inet", "inet6"}
       /\ ~(addr.family = "inet6" /\ call = "sendto" /\ direct)
    THEN [addr EXCEPT !.port = @ + PORT_ADDITION] ELSE addr
IsLocalhost(addr) == addr.host = "localhost"
PortSwitch(call, direct, addr) ==
    IF call = "bind" \/ IsLocalhost(addr) THEN ModPort(call, direct, addr) ELSE addr

-------------------------------------------------------------------------------
(* /proc/<pid>/mountinfo of a tracee: a line names the place of a mount,   *)
(* or has too few columns.  Android's /data is shown as the root.          *)
Standard == {"/dev", "/dev/pts", "/proc", "/sys", "/sys/fs", "/tmp"}
CheckOpenPath(lines, rootInData, bindings) ==
    LET runtime == SelectSeq(bindings, LAMBDA g : g # "/")
        found == ~rootInData \/ \E i \in DOMAIN lines : lines[i] = "/data"
        fake == IF rootInData THEN <<"/">> \o SelectSeq(lines, LAMBDA l : l \in Standard) ELSE lines
    IN IF found /\ (rootInData \/ runtime # <<>>) THEN fake \o runtime ELSE lines

-------------------------------------------------------------------------------
\* A child has each inheritable extension once, with a config of its own or that of the parent; where at most
\* one of them has an answer, it is the same in every generation, though the order changes.
InheritsOnce(list, answers, replies) ==
    LET child == InheritExtensions(list, answers, "new")
        kept == {i \in DOMAIN list : answers[list[i].callback] >= 0}
    IN /\ Len(child) = Cardinality(kept)
       /\ \A i \in kept : \E j \in DOMAIN child :
            child[j] = [list[i] EXCEPT !.config = IF answers[list[i].callback] = 0 THEN @ ELSE "new"]
       /\ Cardinality({i \in DOMAIN list : replies[list[i].callback] # 0}) <= 1 /\ Cardinality(kept) = Len(list) =>
            NotifyExtensions(child, replies) = NotifyExtensions(list, replies)

\* A file in memory has the size that was last set, for every fstat(), and nothing else in memory changes (but
\* a zero at the address that is the number of the request, if it is mapped).
ActsAsMemfd(supported, memory, history) ==
    LET start == [supported |-> supported, file |-> "other", size |-> 0, mapped |-> FALSE, chain |-> "idle",
                  at |-> "", result |-> 0, mem |-> memory]
        before[n \in 0..Len(history)] == IF n = 0 THEN start ELSE AshmemCall(before[n - 1], history[n])
    IN \A n \in 1..Len(history) :
         LET call == history[n]
         IN /\ call.nr = "fstat" /\ call.at \in DOMAIN memory => before[n].mem[call.at] = before[n].size
            /\ \A a \in DOMAIN memory : (call.nr # "fstat" \/ a # call.at) /\ ~(a = SetSize /\ before[n - 1].mem[a] = 0) =>
                 before[n].mem[a] = before[n - 1].mem[a]
            /\ call.nr = "ftruncate" /\ before[n].result = 0 => before[n].size = call.size
            /\ before[n].chain = "idle"

\* A guest that lists a directory until nothing comes sees all of it but what is PRoot's.
ListsAll(chunks) ==
    LET loop[n \in 0..(Len(chunks) + 1)] ==
          IF n = 0 THEN [seen |-> <<>>, rest |-> chunks, ended |-> FALSE]
          ELSE LET was == loop[n - 1]
                   got == HandleGetdents(was.rest)
               IN IF was.ended THEN was
                  ELSE [seen |-> was.seen \o got.shown, rest |-> got.rest, ended |-> got.shown = <<>>]
    IN loop[Len(chunks) + 1].seen = SelectSeq(FlattenSeq(chunks), LAMBDA name : name[1] # ".proot")

\* Who asks for a port on this machine finds who has taken it, and an address that was switched is not switched
\* again; other machines' ports are theirs.
ClientsMeetServers(family, direct, port) ==
    LET taken == PortSwitch("bind", direct, [family |-> family, host |-> "any", port |-> port])
        asked(call, host) == PortSwitch(call, direct, [family |-> family, host |-> host, port |-> port])
    IN \A call \in {"connect", "sendto"} :
         /\ ~(family = "inet6" /\ call = "sendto" /\ direct) => asked(call, "localhost").port = taken.port
         /\ asked(call, "far").port = port
         /\ PortSwitch(call, direct, asked(call, "localhost")) = asked(call, "localhost")
         /\ PortSwitch("bind", direct, taken) = taken

\* A guest finds a root, once, and every binding that it has made, wherever it is.
MountsShown(lines, rootInData, bindings) ==
    LET x == CheckOpenPath(lines, rootInData, bindings)
        runtime == SelectSeq(bindings, LAMBDA g : g # "/")
    IN /\ rootInData /\ Contains(lines, "/data") => x[1] = "/" /\ ~\E i \in 2..Len(x) : x[i] = "/"
       /\ ~rootInData \/ Contains(lines, "/data") => \A i \in DOMAIN runtime : Contains(x, runtime[i])
       /\ \A i \in DOMAIN lines : lines[i] \in Standard => Contains(x, lines[i])
===============================================================================
