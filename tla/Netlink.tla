-------------------------------- MODULE Netlink --------------------------------
(***************************************************************************)
(* Where the host denies netlink, PRoot gives the guest a socket of        *)
(* another family, marks its descriptor, and answers what is sent on it:   *)
(* the AF_NETLINK parts of syscall/enter.c and exit.c.  First the answers, *)
(* which list the interfaces, addresses and routes of the host; then       *)
(* descriptors, requests and replies of processes.                         *)
(***************************************************************************)
EXTENDS Integers, SequencesExt

CONSTANTS MaxReply,       \* MAX_FAKE_NETLINK_REPLY
          RoomFor,        \* what is kept free for a link or an address, and the end (256)
          SpareFor,       \* what is kept free behind routes (64)
          HeadSize, DoneSize, ErrorSize,   \* messages with no attributes
          MaxSeen,        \* the names build_host_links() remembers (64)
          NetUsers, NetRoot, Fds, Sockets, \* processes, the first one, their descriptors
          MaxFakeFds,     \* MAX_FAKE_NETLINK_FDS
          Loose,          \* what the guest does to these sockets: "dup", "fork", "exec"
          MaxNetCalls     \* bound

ASSUME NetlinkAssumption ==
    /\ NetRoot \in NetUsers /\ Fds \subseteq Nat /\ Fds # {} /\ IsFiniteSet(Fds)
    /\ IsFiniteSet(Sockets) /\ Sockets = 1..Cardinality(Sockets)
    /\ MaxFakeFds \in Nat /\ Loose \subseteq {"dup", "fork", "exec"}

-------------------------------------------------------------------------------
(* Messages are appended to a reply, [msgs, off], while they fit.          *)

EmptyReply == [msgs |-> <<>>, off |-> 0]
Appended(out, msg, size) == [msgs |-> Append(out.msgs, msg), off |-> out.off + size]

\* nl_add_attr(): an attribute that does not fit is left out.
AddAttr(off, size) == IF off + size > MaxReply THEN off ELSE off + size
\* nl_build_link(), nl_build_addr()
Built(out, msg, attrs) ==
    IF out.off + HeadSize > MaxReply THEN out
    ELSE Appended(out, msg, FoldLeft(AddAttr, out.off + HeadSize, attrs) - out.off)
BuildLink(out, link, dump) ==
    Built(out, [type |-> "link", name |-> link.name, index |-> link.index, multi |-> dump], link.attrs)
BuildAddr(out, addr, dump) ==
    Built(out, [type |-> "addr", family |-> addr.family, index |-> addr.index, multi |-> dump], addr.attrs)
BuildDone(out) ==
    IF out.off + DoneSize > MaxReply THEN out ELSE Appended(out, [type |-> "done"], DoneSize)
BuildError(out, error) ==
    IF out.off + ErrorSize > MaxReply THEN out ELSE Appended(out, [type |-> "error", error |-> error], ErrorSize)

Loopback == [name |-> "lo", index |-> 1, attrs |-> <<>>]
LoopbackAddr(family) == [family |-> family, index |-> 1, attrs |-> <<>>]

\* build_host_links(): the entries of getifaddrs(), several to a name.  A name and an index of
\* 0 stand for any.
BuildHostLinks(entries, name, index, dump) ==
    LET turn(s, e) ==
          IF s.stop \/ e.name \in Range(s.seen) THEN s
          ELSE LET t == IF Len(s.seen) < MaxSeen THEN [s EXCEPT !.seen = Append(@, e.name)] ELSE s
               IN IF ~dump /\ (IF name # "" THEN name # e.name ELSE index > 0 /\ e.index # index) THEN t
                  ELSE IF s.out.off + RoomFor > MaxReply THEN [t EXCEPT !.stop = TRUE]
                  ELSE [t EXCEPT !.out = BuildLink(@, e, dump), !.n = @ + 1, !.stop = ~dump]
    IN FoldLeft(turn, [seen |-> <<>>, out |-> EmptyReply, n |-> 0, stop |-> FALSE], entries)

\* build_host_addrs()
BuildHostAddrs(entries, family, dump) ==
    LET turn(s, e) ==
          IF s.stop \/ e.family \notin {"inet", "inet6"} \/ (family # "any" /\ e.family # family) THEN s
          ELSE IF s.out.off + RoomFor > MaxReply THEN [s EXCEPT !.stop = TRUE]
          ELSE [s EXCEPT !.out = BuildAddr(@, e, dump), !.n = @ + 1]
    IN FoldLeft(turn, [out |-> EmptyReply, n |-> 0, stop |-> FALSE], entries)

\* relay_route_dump(): the messages of the kernel, of which the last may be missing.
RelayRouteDump(routes) ==
    LET turn(s, size) ==
          IF s.stop THEN s
          ELSE IF s.out.off + size + SpareFor > MaxReply THEN [s EXCEPT !.stop = TRUE]
          ELSE IF size = DoneSize THEN [s EXCEPT !.out = Appended(@, [type |-> "done"], size), !.done = TRUE, !.stop = TRUE]
          ELSE [s EXCEPT !.out = Appended(@, [type |-> "route"], size)]
        end == FoldLeft(turn, [out |-> EmptyReply, done |-> FALSE, stop |-> FALSE], routes)
    IN IF end.out.off = 0 \/ end.done THEN end.out ELSE BuildDone(end.out)

\* nl_request_is_loopback(), once no interface is known.
IsLoopback(req) == IF req.name # "" THEN req.name = "lo" ELSE req.index \in {0, 1}

\* build_fake_netlink_reply(): what a host makes of a request.
FakeReply(req, host) ==
    LET end(out) == IF req.dump THEN BuildDone(out) ELSE out
    IN CASE req.type = "getlink" ->
              LET h == BuildHostLinks(host.entries, req.name, req.index, req.dump)
              IN end(IF h.n > 0 THEN h.out
                     ELSE IF req.dump \/ IsLoopback(req) THEN BuildLink(EmptyReply, Loopback, req.dump)
                     ELSE BuildError(EmptyReply, "ENODEV"))
         [] req.type = "getaddr" ->
              LET h == BuildHostAddrs(host.entries, IF req.family \in {"inet", "inet6"} THEN req.family ELSE "any", req.dump)
                  lo(out, family) == IF req.family \in {"any", family} THEN BuildAddr(out, LoopbackAddr(family), req.dump) ELSE out
              IN end(IF h.n > 0 THEN h.out ELSE lo(lo(EmptyReply, "inet"), "inet6"))
         [] req.type = "getroute" /\ req.dump ->
              LET r == RelayRouteDump(host.routes) IN IF r.off = 0 THEN BuildDone(r) ELSE r
         [] req.type = "other" \/ (req.type = "getroute" /\ ~req.dump) ->
              IF req.dump THEN BuildDone(EmptyReply) ELSE BuildError(EmptyReply, 0)

\* A reply fits, a dump is told to have ended, names each interface once and none that the host
\* has not, and a question about one thing gets an answer about it; "a zero-byte recvmsg" is
\* for nobody, as "callers treat it as fatal" (but a host without addresses has none to tell of
\* another family than those of the internet).
ReplyIsWhole(req, host) ==
    LET r == FakeReply(req, host)
        links == SelectSeq(r.msgs, LAMBDA x : x.type = "link")
    IN /\ r.off <= MaxReply
       /\ req.dump => r.msgs # <<>> /\ Last(r.msgs).type = "done"
       /\ \A i \in 1..(Len(r.msgs) - 1) : r.msgs[i].type # "done"
       /\ r.msgs = <<>> => req.type = "getaddr" /\ req.family = "other" 
                            /\ \A i \in DOMAIN host.entries : host.entries[i].family = "packet"
       /\ \A i, j \in DOMAIN links : i # j => links[i].name # links[j].name
       /\ ~req.dump => \A i \in DOMAIN links :
            IF req.name # "" THEN links[i].name = req.name ELSE req.index \in {0, links[i].index}

-------------------------------------------------------------------------------
(* Processes with descriptors.  A descriptor is free, some file, or one of *)
(* the sockets that stand for netlink.                                     *)

VARIABLES blocked,      \* host_blocks_af_netlink()
          fdTable,      \* by process and descriptor: 0, -1 for a file, or a socket
          fakeFds,      \* fake_netlink_fds
          inSocket,     \* "no", or what a socket() on its way asks for: "plain", "sub"
          pendingReply, \* fake_netlink_reply: the request it answers, or 0
          queueOf,      \* by socket: the requests whose replies one of netlink would hold
          owed,         \* by process: its requests, back to one sent when no reply was due;
                        \* 0 first if it asked another socket for the reply
          usedSockets, sent,
          got,          \* the last receive: what it found, and what it should have found
          netCalls

netVars == <<blocked, fdTable, fakeFds, inSocket, pendingReply, queueOf, owed, usedSockets, sent, got, netCalls>>

NothingGot == [found |-> 0, due |-> 0, mine |-> FALSE, latest |-> 0]
IsFake(p, fd) == fd \in Range(fakeFds[p])
Frees(p) == {fd \in Fds : fdTable[p][fd] = 0}
Born(p) == \E fd \in Fds : fdTable[p][fd] # 0

NetCall(p) ==
    /\ inSocket[p] = "no" /\ netCalls < MaxNetCalls
    /\ netCalls' = netCalls + 1

\* socket(): of netlink's routing protocol, or anything else.
EnterSocket(p, route) ==
    /\ NetCall(p) /\ Born(p)
    /\ inSocket' = [inSocket EXCEPT ![p] = IF route /\ blocked THEN "sub" ELSE "plain"]
    /\ got' = NothingGot
    /\ UNCHANGED <<blocked, fdTable, fakeFds, pendingReply, queueOf, owed, usedSockets, sent>>

\* translate_syscall_exit(), PR_socket; the call may have failed.
Marked(p, fd) ==
    IF Len(fakeFds[p]) < MaxFakeFds /\ ~IsFake(p, fd) THEN Append(fakeFds[p], fd) ELSE fakeFds[p]
ExitSocket(p) ==
    /\ inSocket[p] # "no"
    /\ \/ UNCHANGED <<fdTable, fakeFds, usedSockets>>
       \/ /\ Frees(p) # {} /\ usedSockets < Cardinality(Sockets)
          /\ LET fd == Min(Frees(p))
                 sub == inSocket[p] = "sub"
             IN /\ fdTable' = [fdTable EXCEPT ![p][fd] = IF sub THEN usedSockets + 1 ELSE -1]
                /\ usedSockets' = IF sub THEN usedSockets + 1 ELSE usedSockets
                /\ fakeFds' = [fakeFds EXCEPT ![p] = IF sub THEN Marked(p, fd) ELSE @]
    /\ inSocket' = [inSocket EXCEPT ![p] = "no"]
    /\ got' = NothingGot
    /\ UNCHANGED <<blocked, pendingReply, queueOf, owed, sent, netCalls>>

\* unmark_fake_netlink_fd(): the last takes the place.
Unmarked_Short(p, fd) == IF IsFake(p, fd) THEN Front(fakeFds[p]) ELSE fakeFds[p]
Unmarked(p, fd) ==
    LET s == fakeFds[p]
    IN IF IsFake(p, fd) THEN Front([s EXCEPT ![Min({i \in DOMAIN s : s[i] = fd})] = Last(s)]) ELSE s

\* fake_netlink_reply does not go with a socket.
CloseFd(p, fd) ==
    /\ NetCall(p) /\ fdTable[p][fd] # 0
    /\ fdTable' = [fdTable EXCEPT ![p][fd] = 0]
    /\ fakeFds' = [fakeFds EXCEPT ![p] = Unmarked(p, fd)]
    /\ got' = NothingGot
    /\ UNCHANGED <<blocked, inSocket, pendingReply, queueOf, owed, usedSockets, sent>>

\* Calls that PRoot does not watch: dup2(), and an exec that closes a descriptor.
Unwatched(p, fd, to) ==
    /\ NetCall(p) /\ fdTable[p][fd] # 0
    /\ \/ /\ {fdTable[p][fd], fdTable[p][to]} \cap Sockets = {} \/ "dup" \in Loose
          /\ fdTable' = [fdTable EXCEPT ![p][to] = fdTable[p][fd]]
       \/ /\ fdTable[p][fd] \notin Sockets \/ "exec" \in Loose
          /\ fdTable' = [fdTable EXCEPT ![p][fd] = 0]
    /\ got' = NothingGot
    /\ UNCHANGED <<blocked, fakeFds, inSocket, pendingReply, queueOf, owed, usedSockets, sent>>

\* fork(): the child has the descriptors, and none of the marks (new_child()).
ForkFds(p, c) ==
    /\ NetCall(p) /\ Born(p) /\ ~Born(c) /\ inSocket[c] = "no"
    /\ "fork" \in Loose \/ \A fd \in Fds : fdTable[p][fd] \notin Sockets
    /\ fdTable' = [fdTable EXCEPT ![c] = fdTable[p]]
    /\ got' = NothingGot
    /\ UNCHANGED <<blocked, fakeFds, inSocket, pendingReply, queueOf, owed, usedSockets, sent>>

\* sendto(), sendmsg() of a request that can be read.  On a socket without a mark the kernel
\* finds nobody to send to.
SendRequest(p, fd) ==
    LET s == fdTable[p][fd]
    IN /\ NetCall(p) /\ s # 0
       /\ sent' = sent + 1
       /\ pendingReply' = [pendingReply EXCEPT ![p] = IF IsFake(p, fd) THEN sent + 1 ELSE @]
       /\ queueOf' = [i \in Sockets |-> IF i = s THEN Append(queueOf[i], sent + 1) ELSE queueOf[i]]
       /\ owed' = [owed EXCEPT ![p] = IF s \in Sockets THEN Append(@, sent + 1) ELSE @]
       /\ got' = NothingGot
       /\ UNCHANGED <<blocked, fdTable, fakeFds, inSocket, usedSockets>>

\* recvfrom(), recvmsg(): a peek leaves the reply.  What the guest has no room for is lost.
LeftAfter(p, peek) == IF peek THEN pendingReply[p] ELSE 0
RecvReply(p, fd, peek) ==
    LET s == fdTable[p][fd]
        due == IF s \in Sockets /\ queueOf[s] # <<>> THEN Head(queueOf[s]) ELSE 0
        requests == owed[p]
    IN /\ NetCall(p) /\ s # 0
       /\ pendingReply' = [pendingReply EXCEPT ![p] = IF IsFake(p, fd) THEN LeftAfter(p, peek) ELSE @]
       /\ got' = [found |-> IF IsFake(p, fd) THEN pendingReply[p] ELSE 0, due |-> due,
                  mine |-> requests = (IF due = 0 THEN <<>> ELSE <<due>>),
                  latest |-> IF requests = <<>> THEN 0 ELSE Last(requests)]
       /\ queueOf' = [i \in Sockets |-> IF i = s /\ due # 0 /\ ~peek THEN Tail(queueOf[i]) ELSE queueOf[i]]
       /\ owed' = [owed EXCEPT ![p] = IF peek \/ @ = <<>> THEN @
                                      ELSE IF Last(@) = due THEN <<>> ELSE <<0>> \o @]
       /\ UNCHANGED <<blocked, fdTable, fakeFds, inSocket, usedSockets, sent>>

NetInit ==
    /\ blocked \in BOOLEAN
    /\ fdTable = [p \in NetUsers |-> [fd \in Fds |-> IF p = NetRoot /\ fd = Min(Fds) THEN -1 ELSE 0]]
    /\ fakeFds = [p \in NetUsers |-> <<>>] /\ inSocket = [p \in NetUsers |-> "no"]
    /\ pendingReply = [p \in NetUsers |-> 0] /\ queueOf = [s \in Sockets |-> <<>>]
    /\ owed = [p \in NetUsers |-> <<>>] /\ usedSockets = 0 /\ sent = 0 /\ got = NothingGot /\ netCalls = 0

NetNext ==
    \E p \in NetUsers :
      \/ ExitSocket(p)
      \/ \E route \in BOOLEAN : EnterSocket(p, route)
      \/ \E c \in NetUsers : ForkFds(p, c)
      \/ \E fd \in Fds :
           \/ CloseFd(p, fd) \/ SendRequest(p, fd)
           \/ \E to \in Fds : Unwatched(p, fd, to)
           \/ \E peek \in BOOLEAN : RecvReply(p, fd, peek)

NetSpec == NetInit /\ [][NetNext]_netVars
-------------------------------------------------------------------------------
\* The descriptors that PRoot answers on are those of its own sockets, however numbers are
\* freed and used again.
FakesAreFake ==
    \A p \in NetUsers, fd \in Fds : IsFake(p, fd) <=> fdTable[p][fd] \in Sockets

\* Who takes each reply before the next request finds the reply to it, and nothing before there
\* is one; who sends several finds no reply to an old one: that to the latest or none.
RepliesMatch ==
    /\ got.mine => got.found = got.due
    /\ got.found \in {0, got.latest}

\* The socket that stands for one of netlink acts like it.
NetlinkActs == FakesAreFake /\ RepliesMatch
===============================================================================
