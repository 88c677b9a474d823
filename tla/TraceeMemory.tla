----------------------------- MODULE TraceeMemory -----------------------------
(***************************************************************************)
(* How PRoot reads and writes the memory of a tracee (tracee/mem.c): at    *)
(* once where the kernel lets it, or else word by word with ptrace(); and  *)
(* the addresses of Unix sockets that go through it (syscall/socket.c).    *)
(* A memory maps the addresses that exist to bytes; vm is the set of those *)
(* that process_vm_readv() and process_vm_writev() can reach, which are    *)
(* none where they are denied.                                             *)
(***************************************************************************)
EXTENDS Integers, SequencesExt

CONSTANTS WordLen,        \* bytes of a word
          ChunkLen,       \* chunk_size, that divides a page
          RedZone, Limit, \* RED_ZONE_SIZE; addresses are below Limit
          OffsetofPath, SizeofPath,  \* of a sockaddr_un
          Unix            \* AF_UNIX

\* What a function returns: nothing wrong, or an error.
Done == <<>>
Fault == <<-14>>
Mapped(mem, a, n) == a..(a + n - 1) \subseteq DOMAIN mem
Bytes(mem, a, n) == [i \in 1..n |-> mem[a + i - 1]]
Stored(mem, a, bytes) == [b \in DOMAIN mem |-> IF b \in a..(a + Len(bytes) - 1) THEN bytes[b - a + 1] ELSE mem[b]]

\* What process_vm_*v() transfers of n bytes: those before the first that it cannot reach.
Reach(vm, a, n) == Min({n} \cup {i \in 0..(n - 1) : a + i \notin vm})

-------------------------------------------------------------------------------
\* write_data(): what process_vm_writev() has begun, ptrace() does again; the last word is read
\* first, for the bytes that stay.
WriteWords(mem, a, bytes) ==
    LET full == Len(bytes) \div WordLen
        rest == Len(bytes) % WordLen
        poke(s, at, word) == IF s.status # Done \/ ~Mapped(mem, at, WordLen) THEN [s EXCEPT !.status = Fault]
                             ELSE [s EXCEPT !.mem = Stored(@, at, word)]
        words == FoldLeft(LAMBDA s, i : poke(s, a + (i - 1) * WordLen, SubSeq(bytes, (i - 1) * WordLen + 1, i * WordLen)),
                          [status |-> Done, mem |-> mem], [i \in 1..full |-> i])
        last == a + full * WordLen
    IN IF rest = 0 \/ words.status # Done THEN words
       ELSE IF ~Mapped(mem, last, WordLen) THEN [words EXCEPT !.status = Fault]
       ELSE poke(words, last, SubSeq(bytes, full * WordLen + 1, Len(bytes)) \o Bytes(mem, last + rest, WordLen - rest))
WriteData(mem, vm, a, bytes) ==
    LET n == Reach(vm, a, Len(bytes))
    IN IF n = Len(bytes) THEN [status |-> Done, mem |-> Stored(mem, a, bytes)]
       ELSE WriteWords(Stored(mem, a, SubSeq(bytes, 1, n)), a, bytes)

\* writev_data(), of a sequence of buffers
WritevData(mem, vm, a, buffers) ==
    LET all == FlattenSeq(buffers)
        n == Reach(vm, a, Len(all))
        turn(s, b) ==
          IF s.status # Done THEN s
          ELSE LET w == WriteData(s.mem, vm, s.at, b) IN [status |-> w.status, mem |-> w.mem, at |-> s.at + Len(b)]
        end == FoldLeft(turn, [status |-> Done, mem |-> Stored(mem, a, SubSeq(all, 1, n)), at |-> a], buffers)
    IN [status |-> end.status, mem |-> end.mem]

\* clear_mem()
ClearMem(mem, vm, a, n) == WriteData(mem, vm, a, [i \in 1..n |-> 0])

\* read_data(): the words must exist up to the end of the last.
ReadData(mem, vm, a, n) ==
    IF Reach(vm, a, n) = n \/ Mapped(mem, a, ((n + WordLen - 1) \div WordLen) * WordLen) THEN Bytes(mem, a, n)
    ELSE Fault

\* read_string(): how many bytes up to the end of the string, max + 1 if it is further, -1 for a
\* fault.  No chunk crosses a page, so the string is found though the next page is missing.
FirstZero(bytes) == Min({i \in DOMAIN bytes : bytes[i] = 0} \cup {Len(bytes) + 1})
Chunk_Whole(a, offset, max) == max - offset
Chunk(a, offset, max) == Min({ChunkLen - ((a + offset) % ChunkLen), max - offset})
ReadWords(mem, a, max) ==
    LET from[i \in 0..(max \div WordLen)] ==
          LET at == a + i * WordLen
              n == IF i = max \div WordLen THEN max % WordLen ELSE WordLen
              z == FirstZero(Bytes(mem, at, n))
          IN IF ~Mapped(mem, at, WordLen) THEN -1
             ELSE IF z <= n \/ i = max \div WordLen THEN i * WordLen + z
             ELSE from[i + 1]
    IN from[0]
ReadString(mem, vm, a, max) ==
    LET chunks[offset \in 0..max] ==
          LET n == Chunk(a, offset, max)
              z == FirstZero(Bytes(mem, a + offset, n))
          IN IF offset = max \/ Reach(vm, a + offset, n) # n THEN ReadWords(mem, a, max)
             ELSE IF z <= n THEN offset + z
             ELSE chunks[offset + n]
    IN chunks[0]

\* peek_word(): a word of the tracee, of which process_vm_readv() may give a part only, the rest
\* is 0 then.  A tracee of half the width has half a word.
PeekWord(mem, vm, a, size) ==
    LET n == Reach(vm, a, size)
    IN IF n > 0 THEN Bytes(mem, a, n) \o [i \in 1..(size - n) |-> 0]
       ELSE IF Mapped(mem, a, WordLen) THEN Bytes(mem, a, size) ELSE Fault
\* poke_word(): ptrace() writes whole words.
PokeWord(mem, vm, a, value) ==
    LET n == Reach(vm, a, Len(value))
        word == value \o Bytes(mem, a + Len(value), WordLen - Len(value))
    IN IF n > 0 THEN [status |-> Done, mem |-> Stored(mem, a, SubSeq(value, 1, n))]
       ELSE IF Mapped(mem, a, WordLen) THEN [status |-> Done, mem |-> Stored(mem, a, word)]
       ELSE [status |-> Fault, mem |-> mem]

\* alloc_mem(): below the stack pointer of the tracee, and the bytes its ABI keeps; 0 if
\* there is no room.
AllocMem(sp, original, size) ==
    LET bytes == IF sp = original THEN size + RedZone ELSE size
    IN IF (bytes > 0 /\ sp <= bytes) \/ (bytes < 0 /\ sp >= Limit - 1 + bytes) THEN 0 ELSE sp - bytes

-------------------------------------------------------------------------------
(* Unix sockets: a byte with the family, and a path that need not end.     *)

NoAddress == [family |-> 0, path |-> <<>>]
\* read_sockaddr_un()
ReadSockaddrUn(mem, vm, a, size, max) ==
    IF size <= OffsetofPath \/ size > max THEN NoAddress
    ELSE LET bytes == ReadData(mem, vm, a, size)
             path == SubSeq(bytes, OffsetofPath + 1, size)
         IN IF bytes = Fault THEN [NoAddress EXCEPT !.path = Fault]
            ELSE IF bytes[1] # Unix \/ path[1] = 0 THEN NoAddress
            ELSE [family |-> Unix, path |-> SubSeq(path, 1, FirstZero(path) - 1)]
\* A sockaddr_un with this path, cut where the array ends.
Sockaddr(path) == <<Unix>> \o [i \in 1..SizeofPath |-> IF i <= Len(path) THEN path[i] ELSE 0]

\* translate_socketcall_enter(): the path for the kernel, and what is bound to a shorter name if
\* it is too long.
TranslateSocketcallEnter(user, host, short) ==
    IF Len(host) <= SizeofPath THEN [status |-> Done, path |-> host, bound |-> <<>>]
    ELSE IF Len(short) > SizeofPath THEN [status |-> <<-22>>, path |-> <<>>, bound |-> <<>>]
    ELSE [status |-> Done, path |-> short, bound |-> user]

\* translate_socketcall_exit(): the kernel has written an address and its size; guest is
\* what its path is for the tracee.
TranslateSocketcallExit(mem, vm, a, size, room, guest) ==
    LET max == Min({room, OffsetofPath + SizeofPath})
        is == ReadSockaddrUn(mem, vm, a, size, max)
        want == OffsetofPath + Len(guest) + 1
        w == WriteData(mem, vm, a, SubSeq(Sockaddr(guest), 1, Min({want, max})))
    IN IF is.family = 0 THEN [status |-> is.path, mem |-> mem, size |-> size]
       ELSE [status |-> Done, mem |-> w.mem, size |-> IF want > max THEN max + 1 ELSE want]

-------------------------------------------------------------------------------
\* Bytes are read and written as if the tracee did it: no other byte changes, a string ends where
\* it ends, and what can be reached is no fault whatever lies behind it.
MemoryIsRight(mem, vm, a, n, byte) ==
    LET reached == Reach(vm, a, n) = n
        r == ReadData(mem, vm, a, n)
        new == [i \in 1..n |-> byte]
        w == WriteData(mem, vm, a, new)
        split == WritevData(mem, vm, a, <<SubSeq(new, 1, n \div 2), SubSeq(new, n \div 2 + 1, n)>>)
        s == ReadString(mem, vm, a, n)
        ends == {i \in 1..n : Mapped(mem, a, i) /\ mem[a + i - 1] = 0}
    IN /\ r # Fault => r = Bytes(mem, a, n)
       /\ reached => r # Fault /\ w.status = Done /\ split.status = Done
       /\ \A x \in {w, split} :
            /\ x.status = Done => x.mem = Stored(mem, a, new)
            /\ \A b \in DOMAIN mem \ (a..(a + n - 1)) : x.mem[b] = mem[b]
       /\ s \in 1..n => s = Min(ends)
       /\ s > n => ends = {} /\ Mapped(mem, a, n)
       /\ ends # {} /\ Reach(vm, a, Min(ends)) = Min(ends) => s = Min(ends)
       /\ \A size \in {WordLen, WordLen \div 2} :
            /\ Reach(vm, a, size) \in {0, size} /\ PeekWord(mem, vm, a, size) # Fault =>
                 PeekWord(mem, vm, a, size) = Bytes(mem, a, size)
            /\ LET p == PokeWord(mem, vm, a, [i \in 1..size |-> byte])
               IN \A b \in DOMAIN mem \ (a..(a + size - 1)) : p.mem[b] = mem[b]

\* What is allocated lies below the stack and the bytes that the ABI keeps, and a second time
\* below the first; or nothing is.
StackIsKept(sp, size) ==
    LET one == AllocMem(sp, sp, size)
        two == AllocMem(one, sp, size)
    IN one # 0 => one + size + RedZone <= sp /\ one > 0 /\ (two # 0 => two + size <= one /\ two > 0)

\* An address that a guest gives to a socket comes back as it was, cut where the buffer or the
\* array ends (its size tells that it is cut), if there is room for the address that the kernel has.
SocketIsNamed(mem, vm, a, room, user, host, short) ==
    LET e == TranslateSocketcallEnter(user, host, short)
        size == OffsetofPath + Len(e.path) + 1
        max == Min({room, OffsetofPath + SizeofPath})
        kernel == Stored(mem, a, SubSeq(Sockaddr(e.path) \o <<0>>, 1, size))
        x == TranslateSocketcallExit(kernel, vm, a, size, room, user)
        want == OffsetofPath + Len(user) + 1
    IN e.status = Done /\ size <= max =>
         /\ Bytes(x.mem, a, Min({max, want})) = SubSeq(<<Unix>> \o user \o <<0>>, 1, Min({max, want}))
         /\ \A b \in DOMAIN mem \ (a..(a + max - 1)) : x.mem[b] = mem[b]
         /\ IF want <= max THEN x.size = want ELSE x.size > max
===============================================================================
