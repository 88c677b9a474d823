-------------------------------- MODULE Loading --------------------------------
(***************************************************************************)
(* execve/ and loader/: PRoot lets the kernel run its own loader in place  *)
(* of a program, and leaves on the loader's stack a script that maps the   *)
(* program.  First the algorithms: the expansion of #! lines, the arrays   *)
(* of pointers, the load information, the script and the loader; then what *)
(* processes do with them, with syscall/heap.c, which emulates brk().      *)
(***************************************************************************)
EXTENDS Integers, SequencesExt

CONSTANTS Files,         \* by path: scripts, programs, and files that are neither
          Width,         \* by path: the bytes of its name with the final null
          PageSize, WordSize, StackTop,
          ExecBase, InterpBase,     \* EXEC_PIC_ADDRESS, INTERP_PIC_ADDRESS
          MaxShebangs,   \* MAXSYMLINKS
          Guests, Boot,  \* processes, and the one there is at first
          Commands,      \* what is executed: paths with their arguments
          Sizes,         \* sizes of a heap
          Racing,        \* whether calls on one heap, of processes with one space, may overlap
          MaxLoadCalls   \* bound: calls of all processes

NoName == <<>>     \* names are sequences
-------------------------------------------------------------------------------
(* Arrays of pointers (aoxp.c): argv in the tracee's memory, of which some *)
(* entries are replaced.  An entry is an address there or a string here.   *)

Remote(a) == [remote |-> a]
Local(s) == [local |-> s]
IsLocal(e) == "local" \in DOMAIN e

\* resize_array_of_xpointers(array, 0, delta), and write_xpointees() from 0 on.
Unshifted(array, delta, strs) ==
    [i \in 1..(Len(array) + delta) |->
        IF i <= Len(strs) THEN Local(strs[i]) ELSE array[i - delta]]

\* push_array_of_xpointers(): a block below the stack with the table and the new strings.
Pushed(array, sp) ==
    LET size(i)  == IF IsLocal(array[i]) THEN Width[array[i].local] ELSE 0
        before[i \in 1..(Len(array) + 1)] ==
            IF i = 1 THEN Len(array) * WordSize ELSE before[i - 1] + size(i - 1)
        block    == sp - before[Len(array) + 1]
    IN IF \A i \in DOMAIN array : ~IsLocal(array[i])
       THEN [sp |-> sp, table |-> [i \in DOMAIN array |-> array[i].remote], strs |-> <<>>]
       ELSE [sp |-> block,
             table |-> [i \in 1..Len(array) |->
                      IF IsLocal(array[i]) THEN block + before[i] ELSE array[i].remote],
             strs |-> [a \in {block + before[i] : i \in {j \in 1..Len(array) : IsLocal(array[j])}} |->
                         array[CHOOSE i \in 1..Len(array) : IsLocal(array[i]) /\ block + before[i] = a].local]]

-------------------------------------------------------------------------------
(* Shebangs (shebang.c).                                                   *)

\* translate_and_check_exec()
CanExec(path) == path \in DOMAIN Files

\* One turn of the loop of expand_shebang().
ExpandOnce_Last(s) ==
    IF s.done THEN s
    ELSE IF ~CanExec(s.path) THEN [s EXCEPT !.done = TRUE, !.ok = FALSE]
    ELSE IF Files[s.path].kind # "script" THEN [s EXCEPT !.done = TRUE]
    ELSE LET f == Files[s.path]
             strs == IF f.option = NoName THEN <<f.interp, s.raw>> ELSE <<f.interp, f.option, s.raw>>
             alone == IF Len(s.argv) = 1 THEN 1 ELSE 0
         IN [s EXCEPT !.path = f.interp, !.argv = Unshifted(@, Len(strs) - 1 + alone, strs)]
ExpandOnce(s) ==
    IF s.done THEN s
    ELSE IF ~CanExec(s.path) THEN [s EXCEPT !.done = TRUE, !.ok = FALSE]
    ELSE IF Files[s.path].kind # "script" THEN [s EXCEPT !.done = TRUE]
    ELSE LET f == Files[s.path]
             strs == IF f.option = NoName THEN <<f.interp, s.path>> ELSE <<f.interp, f.option, s.path>>
             alone == IF Len(s.argv) = 1 THEN 1 ELSE 0
         IN [s EXCEPT !.path = f.interp, !.argv = Unshifted(@, Len(strs) - 1 + alone, strs)]

ExpandShebang(path, argv) ==
    LET end == FoldLeft(LAMBDA s, i : ExpandOnce(s), [path |-> path, raw |-> path, argv |-> argv, done |-> FALSE, ok |-> TRUE],
                        [i \in 1..MaxShebangs |-> i])
    IN [end EXCEPT !.ok = end.done /\ @]

-------------------------------------------------------------------------------
(* Load information (enter.c).                                             *)

Down(a) == a - (a % PageSize)
Mapping(anon, addr, length, offset, clear) ==
    [anon |-> anon, addr |-> addr, length |-> length, offset |-> offset, clear |-> clear]

\* add_mapping(): the pages with bytes of the file, and those without.
AddMapping_Tight(seg) ==
    LET start == Down(seg.vaddr)
        end   == Down(seg.vaddr + seg.filesz + PageSize)
        end2  == Down(seg.vaddr + seg.memsz)
        bss   == seg.memsz > seg.filesz
    IN <<Mapping(FALSE, start, end - start, Down(seg.offset), IF bss THEN end - seg.vaddr - seg.filesz ELSE 0)>>
       \o IF bss /\ end2 > end THEN <<Mapping(TRUE, end, end2 - end, 0, 0)>> ELSE <<>>
AddMapping(seg) ==
    LET start == Down(seg.vaddr)
        end   == Down(seg.vaddr + seg.filesz + PageSize)
        end2  == Down(seg.vaddr + seg.memsz + PageSize)
        bss   == seg.memsz > seg.filesz
    IN <<Mapping(FALSE, start, end - start, Down(seg.offset), IF bss THEN end - seg.vaddr - seg.filesz ELSE 0)>>
       \o IF bss /\ end2 > end THEN <<Mapping(TRUE, end, end2 - end, 0, 0)>> ELSE <<>>

\* extract_load_info() of one file; iterate_program_headers() meets the segments in order.
NoInfo == [path |-> NoName]
Bare(path) == [path |-> path, maps |-> <<>>]
IsElf(path) == CanExec(path) /\ Files[path].kind = "elf"
ExtractLoadInfo(path) ==
    [path |-> path, maps |-> FoldLeft(LAMBDA ms, seg : ms \o AddMapping(seg), <<>>, Files[path].loads),
     entry |-> Files[path].entry]

\* add_load_base()
Based(info, base) ==
    IF Files[info.path].dyn /\ info.maps[1].addr = 0
    THEN [info EXCEPT !.maps = [i \in DOMAIN @ |-> [@[i] EXCEPT !.addr = @ + base]], !.entry = @ + base]
    ELSE info

\* compute_load_addresses(), of a program and of its interpreter.
LibsOf(path) == IF Files[path].interp = NoName THEN NoInfo ELSE Based(ExtractLoadInfo(Files[path].interp), InterpBase)
InfoOf(path) == Based(ExtractLoadInfo(path), ExecBase)

-------------------------------------------------------------------------------
(* The load script (exit.c): statements, and below the stack of the new    *)
(* program, strings.                                                       *)

StatementSize(s) ==
    WordSize * CASE s.act \in {"open", "open_next", "stack_exec"} -> 2
                 [] s.act \in {"file", "anon"} -> 6
                 [] s.act \in {"start", "start_traced"} -> 8

\* transcript_mappings()
Transcript(maps) ==
    [i \in DOMAIN maps |-> [act |-> IF maps[i].anon THEN "anon" ELSE "file", map |-> maps[i]]]

\* transfer_load_script()
LoadScript(prog, interp, raw, sp, isTraced) ==
    LET alone   == interp = NoInfo
        size1   == Width[prog.path]
        size2   == IF alone THEN 0 ELSE Width[interp.path]
        size3   == IF raw = prog.path THEN 0 ELSE Width[raw]
        padding == (sp - size1 - size2 - size3) % 16
        strs    == size1 + size2 + size3 + padding
        at1     == sp - strs
        at2     == at1 + size1
        at3     == IF size3 = 0 THEN at1 ELSE at2 + size2
        code    == <<[act |-> "open", str |-> at1]>> \o Transcript(prog.maps)
                   \o (IF alone THEN <<>> ELSE <<[act |-> "open_next", str |-> at2]>> \o Transcript(interp.maps))
                   \o (IF Files[prog.path].stackx \/ (~alone /\ Files[interp.path].stackx)
                       THEN <<[act |-> "stack_exec", start |-> Down(sp)]>> ELSE <<>>)
                   \o <<[act |-> IF isTraced THEN "start_traced" ELSE "start",
                         sp |-> sp, pc |-> IF alone THEN prog.entry ELSE interp.entry,
                         aux |-> [phdr |-> Files[prog.path].phoff + prog.maps[1].addr,
                                  phnum |-> Files[prog.path].phnum, entry |-> prog.entry],
                         execfn |-> at3]>>
        \* The strings are copied one after the other behind the script.
        written == LET s1 == (at1 :> prog.path)
                       s2 == IF alone THEN <<>> ELSE (at1 + size1 :> interp.path)
                       s3 == IF size3 = 0 THEN <<>> ELSE (at1 + size1 + size2 :> raw)
                   IN s1 @@ s2 @@ s3
        bottom  == at1 - FoldLeft(LAMBDA n, s : n + StatementSize(s), 0, code)
    IN [code |-> code, strs |-> written, sp |-> bottom]

-------------------------------------------------------------------------------
(* The loader (loader.c).                                                  *)

Zero == <<"zero">>
Bus == <<"bus">>
\* What a file shows at an offset: nothing beyond the last page of it may be touched.
FileByte(path, eof, off) ==
    IF off < eof THEN <<path, off>>
    ELSE IF off < Down(eof + PageSize - 1) THEN Zero ELSE Bus

\* clear(), a word at a time.
Cleared(start, end) ==
    LET startAligned == IF start % WordSize = 0 THEN start ELSE start + WordSize - (start % WordSize)
        endAligned   == end - (end % WordSize)
    IN (start..(startAligned - 1)) \cup (startAligned..(endAligned - 1)) \cup (endAligned..(end - 1))

\* One statement; the files named have been there when the script was written.
Execute(m, strs, s) ==
    IF ~m.ok THEN m
    ELSE IF s.act \in {"open", "open_next"} THEN
        IF s.str \in DOMAIN strs THEN [m EXCEPT !.fd = strs[s.str], !.reset = TRUE] ELSE [m EXCEPT !.ok = FALSE]
    ELSE IF s.act = "file" THEN
        LET eof   == Files[m.fd].eof
            pages == s.map.addr..(s.map.addr + s.map.length - 1)
            zeros == IF s.map.clear = 0 THEN {}
                     ELSE Cleared(s.map.addr + s.map.length - s.map.clear, s.map.addr + s.map.length)
            byte(a) == FileByte(m.fd, eof, s.map.offset + a - s.map.addr)
        IN [m EXCEPT !.ok = \A a \in zeros : byte(a) # Bus,
                     !.mem = [a \in pages |-> IF a \in zeros THEN Zero ELSE byte(a)] @@ @,
                     !.base = IF m.reset THEN s.map.addr ELSE @, !.reset = FALSE]
    ELSE IF s.act = "anon" THEN
        [m EXCEPT !.mem = [a \in s.map.addr..(s.map.addr + s.map.length - 1) |-> Zero] @@ @]
    ELSE IF s.act = "stack_exec" THEN [m EXCEPT !.stackx = TRUE]
    ELSE [m EXCEPT !.pc = s.pc, !.sp = s.sp, !.comm = strs[s.execfn], !.notify = s.act = "start_traced",
                   !.aux = [phdr |-> s.aux.phdr, phnum |-> s.aux.phnum, entry |-> s.aux.entry, base |-> m.base]]

Loaded(script) ==
    FoldLeft(LAMBDA m, s : Execute(m, script.strs, s),
             [mem |-> <<>>, fd |-> NoName, reset |-> TRUE, base |-> 0, ok |-> TRUE, stackx |-> FALSE, notify |-> FALSE,
              pc |-> 0, sp |-> 0, comm |-> NoName, aux |-> <<>>],
             script.code)

-------------------------------------------------------------------------------
(* Processes.  A space is what the kernel has mapped for a process.        *)

VARIABLES life,       \* none, born, user, entered, replaced, loader, notify, brk, brkDone,
                      \* cloning, gone, crashed
          spaceOf,    \* the address space of each process
          image,      \* per space: the program, its arguments, its memory
          area,       \* per space: the mapping of the emulated heap, its first page aside
          info,       \* load_info
          exe, newExe,
          heapOf,     \* which Heap a process has, perhaps with others
          heaps,      \* base, size, disabled
          brkCall,    \* the call made in place of brk(), with its answer; or the clone()
          tracedBy,   \* whether there is an emulated tracer
          ignoring,   \* ignore_loader_syscalls
          loadCalls

loadVars == <<life, spaceOf, image, area, info, exe, newExe, heapOf, heaps, brkCall, tracedBy, ignoring, loadCalls>>

Spaces == 1..Cardinality(Guests) + 1
Unused(used) == CHOOSE n \in Spaces \ used : \A m \in Spaces \ used : n <= m
Living(p) == life[p] \notin {"none", "gone", "crashed"}
Others(p) == {q \in Guests \ {p} : Living(q)}
\* PRoot has heard of them, and given them a heap.
Sharers(p) == {q \in Others(p) : life[q] # "born" /\ heapOf[q] = heapOf[p]}
NoArea == [lo |-> 0, hi |-> 0]
NoHeap == [base |-> 0, size |-> 0, disabled |-> FALSE]
NoBrk == [act |-> "none"]
NoImage == [prog |-> NoName]

Called(p) ==
    /\ life[p] = "user" /\ loadCalls < MaxLoadCalls
    /\ loadCalls' = loadCalls + 1

\* argv in the memory of the caller, and what the kernel finds in an array that is pushed.
ArgvAddress(i) == StackTop + 8 * i
Given(args) == [i \in 1..(Len(args) + 1) |-> IF i > Len(args) THEN Remote(0) ELSE Remote(ArgvAddress(i))]
Strings(args, pushed) ==
    LET old == [a \in {ArgvAddress(i) : i \in DOMAIN args} |-> args[CHOOSE i \in DOMAIN args : ArgvAddress(i) = a]]
    IN [i \in 1..(Len(pushed.table) - 1) |-> (pushed.strs @@ old)[pushed.table[i]]]

\* translate_execve_enter(): an error before the load information changes nothing.
EnterExec(p, command) ==
    LET x    == ExpandShebang(command.path, Given(command.args))
        elf  == IsElf(x.path)
        libs == IF elf THEN Files[x.path].interp ELSE NoName
        fine == elf /\ (libs = NoName \/ IsElf(libs))
    IN /\ Called(p) /\ x.ok
       /\ newExe' = [newExe EXCEPT ![p] = x.path]
       /\ life' = [life EXCEPT ![p] = IF fine THEN "entered" ELSE @]
       /\ ignoring' = [ignoring EXCEPT ![p] = @ \/ fine]
       /\ info' = [info EXCEPT ![p] =
              IF ~fine THEN [prog |-> Bare(x.path), libs |-> NoInfo, raw |-> x.raw]
              ELSE [prog |-> InfoOf(x.path), libs |-> LibsOf(x.path), raw |-> x.raw, command |-> command,
                    args |-> Strings(command.args, Pushed(x.argv, StackTop))]]
       /\ UNCHANGED <<spaceOf, image, area, exe, heapOf, heaps, brkCall, tracedBy>>

\* The kernel runs the loader, in a space of its own, or refuses.
KernelExec(p) ==
    /\ life[p] = "entered"
    /\ \/ /\ life' = [life EXCEPT ![p] = "user"]
          /\ UNCHANGED <<spaceOf, image, area>>
       \/ LET s == Unused({spaceOf[q] : q \in Others(p)})
          IN /\ life' = [life EXCEPT ![p] = "replaced"]
             /\ spaceOf' = [spaceOf EXCEPT ![p] = s]
             /\ image' = [image EXCEPT ![s] = [prog |-> info[p].prog.path, command |-> info[p].command, args |-> info[p].args]]
             /\ area' = [area EXCEPT ![s] = NoArea]
    /\ UNCHANGED <<info, exe, newExe, heapOf, heaps, brkCall, tracedBy, ignoring, loadCalls>>

\* translate_execve_exit(): a heap that others have is left to them.
NewHeap_Zeroed(p) ==
    /\ heaps' = [heaps EXCEPT ![heapOf[p]] = NoHeap]
    /\ UNCHANGED heapOf
NewHeap(p) ==
    LET h == IF Sharers(p) # {} THEN Unused({heapOf[q] : q \in Guests}) ELSE heapOf[p]
    IN /\ heapOf' = [heapOf EXCEPT ![p] = h]
       /\ heaps' = [heaps EXCEPT ![h] = NoHeap]
ExecExit(p) ==
    /\ life[p] = "replaced"
    /\ life' = [life EXCEPT ![p] = "loader"]
    /\ exe' = [exe EXCEPT ![p] = newExe[p]]
    /\ NewHeap(p)
    /\ UNCHANGED <<spaceOf, image, area, info, newExe, brkCall, tracedBy, ignoring, loadCalls>>

\* The loader, whose calls PRoot translates like those of a program.
RunLoader(p) ==
    LET m == Loaded(LoadScript(info[p].prog, info[p].libs, info[p].raw, StackTop, tracedBy[p]))
    IN /\ life[p] = "loader"
       /\ life' = [life EXCEPT ![p] = IF ~m.ok THEN "gone" ELSE IF m.notify THEN "notify" ELSE "user"]
       /\ UNCHANGED <<spaceOf, image, area, info, exe, newExe, heapOf, heaps, brkCall, tracedBy, ignoring, loadCalls>>
\* Its last call, if the program is traced: only the notification.
LoadDone(p) ==
    /\ life[p] = "notify"
    /\ life' = [life EXCEPT ![p] = "user"]
    /\ ignoring' = [ignoring EXCEPT ![p] = FALSE]
    /\ UNCHANGED <<spaceOf, image, area, info, exe, newExe, heapOf, heaps, brkCall, tracedBy, loadCalls>>

\* translate_brk_enter(): the first is a mmap() behind the program, the others are
\* mremap().  A first one that asks for an address is left to the kernel, and so
\* is any one on a heap that is disabled.
BrkInPlace(heap, prog, new) ==
    IF heap.disabled \/ (heap.base = 0 /\ new # 0) THEN [act |-> "brk"]
    ELSE IF heap.base = 0
    THEN [act |-> "mmap", at |-> LET bss == Last(prog.maps) IN bss.addr + bss.length]
    ELSE IF new < heap.base THEN [act |-> "void"]
    ELSE [act |-> "mremap", at |-> heap.base, old |-> heap.size, new |-> new - heap.base]

\* There is no mapping to put the heap behind after an execve() that was refused
\* for what the file is.
Unmapped(p, new) ==
    LET heap == heaps[heapOf[p]]
    IN ~heap.disabled /\ heap.base = 0 /\ new = 0 /\ info[p].prog.maps = <<>>

\* What PRoot's own child does before the first program is not a brk(0).
EnterBrk(p, new) ==
    /\ Called(p) /\ (image[spaceOf[p]] = NoImage => new # 0)
    /\ Racing \/ \A q \in Sharers(p) : life[q] \notin {"brk", "brkDone", "cloning"}
    /\ ~Unmapped(p, new)
    /\ life' = [life EXCEPT ![p] = "brk"]
    /\ brkCall' = [brkCall EXCEPT ![p] = BrkInPlace(heaps[heapOf[p]], info[p].prog, new)]
    /\ UNCHANGED <<spaceOf, image, area, info, exe, newExe, heapOf, heaps, tracedBy, ignoring>>

\* The last of no mappings is read: the end of PRoot, and with it of all its tracees.
BrkCrashes(p) ==
    /\ Called(p) /\ image[spaceOf[p]] # NoImage
    /\ Unmapped(p, 0)
    /\ life' = [q \in Guests |-> IF Living(q) THEN "crashed" ELSE life[q]]
    /\ UNCHANGED <<spaceOf, image, area, info, exe, newExe, heapOf, heaps, brkCall, tracedBy, ignoring>>

Up(n) == Down(n + PageSize - 1)
\* What the kernel answers: the area after the call, or an error.  Its own heap is
\* not the area.
BrkAnswers(p) ==
    LET a == area[spaceOf[p]]
        c == brkCall[p]
        refused == [ok |-> FALSE, area |-> a]
        resized == [ok |-> TRUE, area |-> [a EXCEPT !.hi = a.lo + Up(c.new)]]
    IN CASE c.act = "void" -> {refused}
         [] c.act = "brk" -> {refused, [ok |-> TRUE, area |-> a]}
         [] c.act = "mmap" -> {refused, [ok |-> TRUE, area |-> [lo |-> c.at + PageSize, hi |-> c.at + PageSize]]}
         [] c.act = "mremap" ->
              IF c.at # a.lo \/ Up(c.old) # a.hi - a.lo THEN {refused}
              ELSE IF c.new <= c.old THEN {resized} ELSE {resized, refused}

KernelBrk(p) ==
    /\ life[p] = "brk"
    /\ life' = [life EXCEPT ![p] = "brkDone"]
    /\ \E answer \in BrkAnswers(p) :
         /\ area' = [area EXCEPT ![spaceOf[p]] = answer.area]
         /\ brkCall' = [brkCall EXCEPT ![p] = [call |-> @, ok |-> answer.ok, lo |-> answer.area.lo]]
    /\ UNCHANGED <<spaceOf, image, info, exe, newExe, heapOf, heaps, tracedBy, ignoring, loadCalls>>

\* translate_brk_exit()
HeapNoted(heap, c) ==
    IF heap.disabled \/ ~c.ok THEN heap
    ELSE CASE c.call.act = "mmap" -> [heap EXCEPT !.base = c.lo, !.size = 0]
           [] c.call.act = "mremap" -> IF heap.base = c.lo THEN [heap EXCEPT !.size = c.call.new] ELSE heap
           [] c.call.act = "brk" -> [heap EXCEPT !.disabled = TRUE]
ExitBrk(p) ==
    /\ life[p] = "brkDone"
    /\ life' = [life EXCEPT ![p] = "user"]
    /\ heaps' = [heaps EXCEPT ![heapOf[p]] = HeapNoted(@, brkCall[p])]
    /\ brkCall' = [brkCall EXCEPT ![p] = NoBrk]
    /\ UNCHANGED <<spaceOf, image, area, info, exe, newExe, heapOf, tracedBy, ignoring, loadCalls>>

\* clone(): without CLONE_VM the kernel copies the space, with it both share.
KernelClone(p, c, vm) ==
    LET s == IF vm THEN spaceOf[p] ELSE Unused({spaceOf[q] : q \in {r \in Guests : Living(r)}})
    IN /\ Called(p) /\ life[c] = "none"
       /\ Racing \/ \A q \in Others(p) : spaceOf[q] = spaceOf[p] => life[q] \notin {"brk", "brkDone"}
       /\ life' = [life EXCEPT ![p] = "cloning", ![c] = "born"]
       /\ brkCall' = [brkCall EXCEPT ![p] = [act |-> "clone", child |-> c, vm |-> vm]]
       /\ spaceOf' = [spaceOf EXCEPT ![c] = s]
       /\ image' = [image EXCEPT ![s] = image[spaceOf[p]]]
       /\ area' = [area EXCEPT ![s] = area[spaceOf[p]]]
       /\ UNCHANGED <<info, exe, newExe, heapOf, heaps, tracedBy, ignoring>>

\* new_child(), at the event of the clone(): what is PRoot's is shared or copied by now.
ChildHeap(p) ==
    LET c == brkCall[p].child
        h == IF brkCall[p].vm THEN heapOf[p] ELSE Unused({heapOf[q] : q \in Guests \ {c}})
    IN /\ life[p] = "cloning"
       /\ life' = [life EXCEPT ![p] = "user", ![c] = "user"]
       /\ heapOf' = [heapOf EXCEPT ![c] = h]
       /\ heaps' = [heaps EXCEPT ![h] = heaps[heapOf[p]]]
       /\ info' = [info EXCEPT ![c] = info[p]] /\ exe' = [exe EXCEPT ![c] = exe[p]]
       /\ brkCall' = [brkCall EXCEPT ![p] = NoBrk]
       /\ UNCHANGED <<spaceOf, image, area, newExe, tracedBy, ignoring, loadCalls>>

\* A tracer comes, and goes.
Attach(p) ==
    /\ Called(p)
    /\ tracedBy' = [tracedBy EXCEPT ![p] = ~@]
    /\ UNCHANGED <<life, spaceOf, image, area, info, exe, newExe, heapOf, heaps, brkCall, ignoring>>
End(p) ==
    /\ Called(p)
    /\ life' = [life EXCEPT ![p] = "gone"]
    /\ UNCHANGED <<spaceOf, image, area, info, exe, newExe, heapOf, heaps, brkCall, tracedBy, ignoring>>

\* The first process, before the program PRoot has been given.
LoadInit ==
    /\ life = [p \in Guests |-> IF p = Boot THEN "user" ELSE "none"]
    /\ spaceOf = [p \in Guests |-> 1] /\ heapOf = [p \in Guests |-> 1]
    /\ image = [s \in Spaces |-> NoImage] /\ area = [s \in Spaces |-> NoArea]
    /\ info = [p \in Guests |-> [prog |-> Bare(NoName), libs |-> NoInfo]]
    /\ exe = [p \in Guests |-> NoName] /\ newExe = exe
    /\ heaps = [h \in Spaces |-> NoHeap] /\ brkCall = [p \in Guests |-> NoBrk]
    /\ tracedBy = [p \in Guests |-> FALSE] /\ ignoring = tracedBy
    /\ loadCalls = 0

LoadNext ==
    \E p \in Guests :
      \/ KernelExec(p) \/ ExecExit(p) \/ RunLoader(p) \/ LoadDone(p) \/ Attach(p) \/ End(p)
      \/ KernelBrk(p) \/ ExitBrk(p) \/ BrkCrashes(p) \/ ChildHeap(p)
      \/ \E command \in Commands : EnterExec(p, command)
      \/ \E new \in {0} \cup {heaps[heapOf[p]].base + d : d \in Sizes} : EnterBrk(p, new)
      \/ \E c \in Guests, vm \in BOOLEAN : KernelClone(p, c, vm)

LoadSpec == LoadInit /\ [][LoadNext]_loadVars
-------------------------------------------------------------------------------
(* What a kernel would have done: the segments, arguments and vectors.     *)

Base(path, base) == IF Files[path].dyn /\ Down(Files[path].loads[1].vaddr) = 0 THEN base ELSE 0
Holds(mem, path, base) ==
    \A seg \in Range(Files[path].loads) :
      \A d \in 0..(seg.memsz - 1) :
           /\ base + seg.vaddr + d \in DOMAIN mem
           /\ mem[base + seg.vaddr + d] = IF d < seg.filesz THEN <<path, seg.offset + d>> ELSE Zero
\* A program, called by a name, has the memory and the vectors that the kernel gives it,
\* wherever PRoot has put it, and starts in its interpreter; the loader's stack is aligned.
Faithful(prog, raw, isTraced) ==
    LET f == Files[prog]
        base == Base(prog, ExecBase)
        libs == IF f.interp = NoName THEN 0 ELSE Base(f.interp, InterpBase)
        script == LoadScript(InfoOf(prog), LibsOf(prog), raw, StackTop, isTraced)
        m == Loaded(script)
    IN /\ script.sp % 16 = 0
       /\ m.ok /\ m.comm = raw /\ m.notify = isTraced
       /\ Holds(m.mem, prog, base)
       /\ f.interp # NoName => Holds(m.mem, f.interp, libs) /\ m.aux.base = libs
       /\ m.pc = IF f.interp = NoName THEN base + f.entry ELSE libs + Files[f.interp].entry
       /\ m.aux.entry = base + f.entry /\ m.mem[m.aux.phdr] = <<prog, f.phoff>> /\ m.aux.phnum = f.phnum

RECURSIVE KernelArgs(_, _)
KernelArgs(path, args) ==
    IF Files[path].kind # "script" THEN args
    ELSE LET f == Files[path]
         IN KernelArgs(f.interp, <<f.interp>> \o (IF f.option = NoName THEN <<>> ELSE <<f.option>>) \o <<path>>
                                 \o (IF args = <<>> THEN <<>> ELSE Tail(args)))

Running(p) == life[p] \in {"user", "brk", "brkDone", "cloning"} /\ image[spaceOf[p]] # NoImage

\* A program that runs has the arguments that its command would give it, and is the one
\* /proc/self/exe shows, also after calls of execve() that failed.
ProgramsRun ==
    \A p \in Guests : Running(p) =>
      LET i == image[spaceOf[p]]
      IN i.args = KernelArgs(i.command.path, i.command.args) /\ exe[p] = i.prog

\* The heap that PRoot has noted for a process is the one mapped in its space, but for a
\* call whose answer PRoot has not seen yet, and two processes have a heap together if they
\* have a space together.
HeapIsMapped ==
    \A p \in Guests : Running(p) =>
      LET heap == heaps[heapOf[p]]
          unseen == \E q \in Guests : life[q] = "brkDone" /\ spaceOf[q] = spaceOf[p]
      IN /\ unseen \/ area[spaceOf[p]] = [lo |-> heap.base, hi |-> heap.base + Up(heap.size)]
         /\ \A q \in Others(p) : Running(q) => (heapOf[p] = heapOf[q] <=> spaceOf[p] = spaceOf[q])

\* A process runs its program on a heap of its own.
ProgramsAndHeaps == ProgramsRun /\ HeapIsMapped

\* PRoot survives its tracees' calls.
NoCrash == \A p \in Guests : life[p] # "crashed"

\* Calls that are masked are those of the loader.
MaskedIsLoader == \A p \in Guests : tracedBy[p] /\ ignoring[p] => life[p] # "user"
===============================================================================
