# A TLA+ model of vm-forge

vm-forge is an Android app that runs Linux guests in two ways: as QEMU virtual
machines, and in containers built with PRoot, a ptrace-based emulation of
`chroot`, bind mounts and of system calls that Android refuses. This directory
holds TLA+ modules for the parts of it that are hard to test, configurations
with which TLC checks them on small instances, and proofs that TLAPS checks for
all instances. `PROJECT.json` maps every definition to the lines it models.

## The system

| Part | State it keeps | What is hard | What makes it correct |
|---|---|---|---|
| SysV IPC wait mechanism (`extension/sysvipc/sysvipc.c`) | per tracee: why it waits, how far its substituted `ppoll` is, the result to report | wake-ups race with time-outs, signals, deaths | its assertions hold; a decided call returns; PRoot's SIGSTOP never stops a tracee |
| Semaphores (`sysvipc_sem.c`) | sets, the `sops` of sleepers | several operations at once; a pass over sleepers that changes what it tests; removal under sleepers | every operation takes effect exactly once; sleepers have a live set; nobody sleeps who could go on |
| Message queues (`sysvipc_msg.c`) | queues, statistics, arguments of sleeping receivers | the gap between wake-up and retry | no message lost or delivered twice, no receiver stranded |
| Shared memory and its helper process (`sysvipc_shm.c`) | segments, mappings per process, the helper's pipe and socket | chains of injected calls of several tracees, kills, a helper that cannot tell its clients apart | a segment lives while it is mapped, the right one is mapped, the helper never blocks |
| IPC identifiers (`sysvipc_internal.h`) | slot and generation packed in an `int` | widths and signedness | an identifier finds its object or nothing |
| Event loop (`tracee/event.c`), translation and chains (`syscall/syscall.c`, `chain.c`) | per tracee: restart mode, stage, saved registers, chain, one held signal | two orders of stops, traps of the host's policy, calls inserted into calls | each call is translated once and answered once, nothing leaks from one call into the next |
| Ptrace emulation (`ptrace/`), tracee list (`tracee/tracee.c`) | tracer and ptracee relation, pending events, zombies | a debugger inside the container waits for events PRoot must invent; deaths on both sides | no event missed, nobody forgotten |
| Paths, bindings, emulated mounts (`path/`, `syscall/enter.c`) | two ordered lists of bindings, working directories | links, `..`, nested bindings, shared name-spaces | the guest sees what the kernel would show if bindings were mounts |
| Calls on paths and sockets, memory of tracees (`enter.c`, `exit.c`, `socket.c`, `mem.c`) | registers and memory of the tracee | which argument, which flag, which length, what to restore | the translated call names the same file, what is shown fits and is right |
| execve and loader (`execve/`, `loader/`), `heap.c` | load information, load script, emulated heap | failure after a partial effect; pages, zeros, a stack rebuilt in place | as the kernel would load it; the heap is always mapped |
| Seccomp filter and trapped calls (`seccomp.c`, `sysnum.c`) | merged lists of calls, the filter program | jump counts; arguments that shift over each other | every call of interest is reported; a replaced call means the same |
| Netlink emulation (`enter.c`) | descriptors that stand for netlink, one reply | replies of limited size; numbers that are reused | replies are whole; only marked descriptors are answered |
| Fake root (`extension/fake_id0`) | ids and capability of a tracee, a saved mode | drops that must be final; permissions lent for one call | as the kernel's rules for ids; modes come back |
| Hard links (`extension/link2symlink`) | counters in file names | several host operations per call, two tracees, kills | acts as hard links |
| kompat and small extensions | what they were told, per call | flags older kernels lack; state between entry and exit | the call does what it would on the kernel it was written for |
| talloc | the tree of chunks and references | freeing a tree that is shared | what has an owner lives, what has none is freed |
| Terminal sessions (`SessionService.kt` and the screens that call it) | a map, a list and an order of sessions, the current one | three views that change one after the other; ids chosen by users; a service that may stop itself | the views agree; a running shell can be reached and stays when the app is left; what is closed is what is seen |
| VM service (`VmService.kt`, `MainActivity.kt`, `NativeVmLauncher.kt`) | a map from arch to QEMU process | late intents, processes that take time to end, kills of the app | no VM out of hand, none unasked, never two on a disk |
| VM console, installers, settings, UI | readers, downloads, preferences | | not modelled |

PRoot is one thread that handles one ptrace stop at a time; the tracees, and
the kernel on their behalf, run in parallel with it and with each other. Its
extensions are callbacks, called from the entry and exit of a call (`syscall/`),
from clone (`INHERIT_CHILD`) and from the removal of a tracee. Apart from that
they share little: the IPC extension wakes a sleeper by editing the sleeper's
config and sending it SIGSTOP, which the event loop recognises as its own, and
it injects calls through the chain. The app's parts meet on Android's main
thread, through intents, binders and the processes they start.

## The modules

A handler of PRoot is one action, because PRoot restarts nobody before it has
returned. What the kernel and guest programs do is an action of the environment.

**IPC.** `SysVIpc` is the wait mechanism, used by the three kinds of objects
through EXTENDS. `at` says where the kernel has a tracee (guest code, rewound
after SIGSYS, inside the substituted call, dead, absent). `config`, `sigstop`
and `tracees` are the structures of the source; `kick` is the pending SIGSTOP.
`SysVSem` adds the sets; `SemCheck` is `sysvipc_sem_check`, `WakePass` the loop
over the sleepers; `call` and `ledger` are history. `SysVMsg` adds the queues
and the arguments kept for the retry; when the assertion of the retry fails
PRoot aborts (`MsgrcvRetryAborts`). `SysVShm` adds segments, the helper's
requests, backlog and inbox, and the address spaces (`regions`), which only the
kernel knows; every injected call of the shmat chain is an action. Where PRoot
and the kernel act at different times there are two actions, and `pending` says
what only one of them has done: PRoot drops the mappings when an execve or a
shmdt is entered (`ExecveEnter`, `Shmdt`) and the kernel unmaps later
(`ExecveDone` or `ExecveRefused`, `KernelMunmap`); the kernel maps and clones
(`KernelMmap`, `KernelClone`) and PRoot hears of it later (`ExitMmap`,
`NewChild`). Other threads and processes run in between. `IpcId` models the
identifiers with the widths of their fields as constants.

**Calls.** `SyscallFlow` is one tracee between the kernel and the event loop:
the entry, filter and exit stops in the order of old and new kernels, SIGSYS of
the host's policy, signals, the chain, and the three banks of registers. A host
is a constant that says what the kernel does. `GuestCalls` is what the guest
may expect: one call, one answer of the kind that the handlers decide;
`SyscallFlow` implements it (`Promised`), and every call is answered under
fairness (`Answered`).

**Processes.** `Ptrace` has the requests, the two kinds of wait, deaths,
zombies and forks of several guest processes, with the list of tracees.

**Files.** `Bindings` has the lists of bindings and their order; `Paths` the
two translations and the walk of `canonicalize`, with a reference walk that
takes bindings for mounts; `Mounts` the calls that change the name-space of a
tracee (mount, umount, pivot_root, chroot, chdir, rename, clone, unshare),
against the tree a kernel would show. pivot_root walks over a snapshot of the
bindings; one it has freed on the way (`FreedBindings`) still has its contents,
or has those of a binding made since, or is skipped, or is the end of PRoot
(`PivotStep`, `PivotTo`). `PathCalls` says which arguments of a
call are paths and with what flags they are translated, and treats
`socketcall`, `readlink` and the auxiliary vector. `LinkToSymlink` has every
host operation of a link, unlink or rename as a step of its own, two tracees,
and a kill of PRoot; it implements `HardLinks`, where a link is one more name
of a content.

**Programs.** `Loading` has `#!` expansion in the array of arguments, the load
information, the load script and the loader that executes it, execve with its
failures, and the heap of `brk`. `TraceeMemory` reads, writes and allocates in a
memory that is only partly reachable, and translates socket addresses.

**Algorithms and the rest.** `Filters` builds and interprets the seccomp
program and rewrites trapped calls. `Netlink` has the replies and the marked
descriptors. `Kompat` has the calls replaced for old kernels.
`SmallExtensions` has the inheritance of extensions, memory files made of
ashmem, hidden directory entries, switched ports and the table of mounts.
`FakeRoot` has the ids and the lent permissions. `Talloc` is the tree of chunks
as the library manipulates it; `OwnerGraph` says who owns what and when it may
go, and `Talloc` implements it (`OwnersDecide`). `VmService` has the QEMU
processes: taps and callbacks are one action each, the delivery of intents, the
end of processes and the kill of the app are the environment's; a Start whose
`startForegroundService` throws changes nothing and is no action. `Sessions` has
the maps of the session service and the handlers that change them, one action
each: all of them run on the main thread, while shells end and Android starts
and stops the activity. The view is made anew at every start of the activity.

`LoopLemmas` and the modules named `*Proofs` hold the proofs. The `MC*` modules give TLC its constants. `MCParts` puts the components
that share no state side by side: `which` says which of them moves, and `probe`
is one input of the algorithms that have no state. In these, the property
compares the algorithm with a reference definition.

Operators whose comment begins with "Mutant" are deliberately wrong versions of
the definition that follows them. No action uses them: each is put in the place
of the right one to see that a property notices (`PROJECT.json`, `mutants`).

## The runs

| Run | Instance | Shows |
|---|---|---|
| `sem_passed` | 3 tracees, one semaphore 0..2, single operations: give one, take two, wait for zero | **violated** (`SleepersMustWait`): the loop passes a sleeper that could go on once a later one is woken, and it sleeps on |
| `sem_sigsys` | 2 mortal tracees, calls by both routes, two semaphores 0..2, paired operations, SETVAL | the wait states, live sets of sleepers, exactly-once operations, and a decided semop returns |
| `msg_modes` | 2 mortal tracees, two types, all modes of msgrcv, both routes, removal and reuse | no message lost or delivered twice, statistics agree |
| `msg_live` | 3 tracees, one of them mortal, typed and untyped receivers, 2 messages | a receiver is left asleep next to a message it could take only when the one that was woken is killed before its retry; else whoever is on the way to the queue gets there |
| `msg_rmid` | 2 tracees | **violated**: `assert(queue->valid)` fails when the queue is removed between wake-up and retry |
| `shm_attach` | 2 mortal tracees, threads or processes, failing calls of the chain (its mmap too), a removal, execve with living siblings | the assertions of the chain, mappings and regions agree but for those on their way, the helper never waits for a connection; with `Careless = {}` and no refused execve |
| `shm_live` | 2 tracees, both routes, refused execve | every shmat returns |
| `shm_swap` | 2 tracees, 2 segments | **violated**: concurrent chains get each other's segment |
| `vm_twice` | two arches | **violated**: a second QEMU of an arch while the first is still ending |
| `calls` | every host the code tells apart and serves (`Served`), any four calls, two signals | each call translated once, answered once; no state of one call is left to the next |
| `links_lost` | one tracee, 3 names | **violated**: `rename(a, a)` takes one from the count of a file that keeps its two names |
| `parts` | see below | the components side by side |

The instances of `parts`, and why they are large enough:

* files: three processes, four steps, mounts of the guest and of a directory
  already bound; four steps are a mount, a pivot into it, a clone that shares
  the name-space and an umount, in any order. The walks take every pair of
  three links (two in the rootfs, one in the bound directory) with targets that
  lead up, across the binding, to each other and in a ring, and all paths of up
  to two components with two longer ones.
* ptrace: three processes (a tracer, a ptracee and its child, or a tracer of
  a tracer), four requests, one signal.
* ids: narrow fields, which reach the limits that depend only on whether a field
  is full. VMs: two arches, two taps each. Sessions: three terminals, two names
  for the user, one of them a name the app makes up itself.
* talloc: four chunks and the null context: enough for a chunk with an owner
  inside and one outside the tree that is freed.
* fake root: two tracees, three ids (root, and two others, so that a call may
  change one of the three ids and not the rest), three id calls or three calls
  on a directory and a file in it.
* links: two tracees, three names, two contents, six calls, a kill at any host
  operation; as many suffixes as names, and five counts: enough, and what the
  theorems suppose (`Few`).
* programs: static, dynamic, behind one and two scripts, not a program; two
  processes with one space or two, brk with and without an address, the end of
  PRoot at a brk without mappings; calls on one heap do not overlap
  (`Racing = FALSE`); every way a segment and its zeros can lie in one, two or three pages of 16 bytes.
* netlink: replies that just fit and just do not, up to five entries of three
  interfaces; three descriptors, of which two can be marked.
* probes of memory: one or two pages of 8 bytes, words of 4, strings that end at
  every place near a border, each with none, one or both pages readable.
* probes of calls: every call and every set of the flags it knows.

In the IPC runs two tracees suffice for every race between a call and one
sleeper; three are needed for a caller, a sleeper and a competitor, and for the
pass over two sleepers. Two messages allow one to arrive while the receiver of
another is on its way. One removal lets a slot be reused under a sleeper.
Tracees are symmetric where no liveness is checked.

**Fairness.** `FairSpec` of the IPC modules and `Spec` of `SyscallFlow` assume that
PRoot handles a stop that stays pending (its loop waits for any tracee and
handles what it gets), that the kernel ends calls that cannot block or that a
SIGSTOP interrupted, and that the helper, a process of its own, runs. Nothing is
assumed of guests: they may never make a call, and an undisturbed `ppoll` may
last for ever. Deaths are never forced.

**Deadlock** is checked in the IPC runs and in `calls`. The event loop's end
with the last tracee and the abort of a failed assertion are explicit stuttering
actions. `parts` and `links_lost` switch the check off: their bounded callers
may come to an end.

## What is proved

For every set of tracees, every limit and every set of operations allowed by
`SemAssumption`, `SysVSemProofs` shows of `SysVSem`: `TypeCorrect`,
`AssertionsHold` (WaitStatesAgree), `SleepersSafe` (SleepersHaveSet) and
`KicksExpected` (KickIsExpected). They follow from one inductive invariant, the
conjunction of these with `EveryoneListed`. None of them is inductive alone:
that IPC_RMID leaves no sleeper behind needs every sleeper on the list; that
needs that whoever is off the list has no wait left over; and the wait states
decide which of the two ways of waking applies and so where the SIGSTOP goes.
The two loops (over the operations and over the sleepers) are recursive
functions; `LoopLemmas` proves by the smallest-counterexample argument over the
naturals that such a function exists and is typed.

`SemopExactlyOnce` (ExactlyOnce) has an invariant of its own, `OnceInv`: `Inv`,
that no tracee is on the list twice (`ListedOnce`: else the wake-up loop could
carry out a sleeper's operations twice), that a call in progress is about
the set as it is or about one removed since (`CallsFit`), that a sleeper's `sops`
are those of its call (`SleepersCall`), and `Balanced`: each semaphore is its ledger
plus what is `Owed`, the sum over the callers whose success is on its way. Each
action either leaves the callers of a set alone (`Undisturbed`), moves one caller's
share from the sum to the ledger (`Returns`), empties the sum (`NobodyOwed`:
removal and reuse start a new generation), or adds to it: the operations
carried out change a semaphore by exactly `Delta` (`SemCheckAdds`, a refused
semop changes nothing), so a pass over the sleepers adds the shares of
exactly those it woke (`PassSum`).

`IpcIdProofs` proves `IdsExact`: if the slots fit their field and a slot is
removed less than half as often as the generation has values (`FieldsFit`),
`LookupIsExact` holds always. The invariant says that the generation of a slot
is its number of removals and that an issued identifier is slot plus removals
times the modulus; the rest is that quotient and remainder give both back.
The hypothesis is needed, see below.

`SysVMsgProofs` shows of `SysVMsg`, for every set of tracees, receivers and
limits: `AssertionsHold` (WaitStatesAgree), `BookkeepingRight` (QueuesAgree: the
types, the statistics of a queue, and that sleepers have one), `DeliveredOnce`
(ReceivedOnce) and `NothingLost` (NoMessageLost). One invariant carries them. To
the parts that are checked it adds that everybody not reaped is on the list,
that the messages of a queue are in the order they were sent, and that no
message is in two queues: otherwise a receipt from one could lose another's.

`SysVShmProofs` shows of `SysVShm`, for every set of tracees, segments and
addresses, with calls of the chain that fail and tracees that are killed at any
point:

* `TypeCorrect`, from `WaitInv`: what a config may hold in each place a tracee
  can be in, which is what decides which stop comes next.
* `HelperServesAll` (HelperNeverBlocks), from `HelperInv`: as many
  connections are queued as requests are sent *and* as tracees have connected
  without PRoot knowing yet. The second summand makes it inductive: the
  kernel's connect and PRoot's request are two steps.
* `ChainFindsMapping` (ChainsAgree), from `CountInv`: for each process and each
  segment there are at least as many pending mappings as living threads that
  will look for one. A mapping alone would not do: `find_pending_mapping` takes
  any pending mapping of the segment, so it may be that of another thread.
* `MappedSegmentsLive` (MappedSegmentLives) and `AttachedRegistered`
  (AttachedIsRegistered), from `RegionInv`: each region of a process has a mapping,
  or is on its way in or out, and each call on its way (`PendInv`) fits what
  the kernel and PRoot have. It needs that a mapping without a size has no
  address (`MapInv`: else shmdt could take the mapping of a region that another
  address belongs to) and `Finds`, that whoever is in the chain finds a pending
  mapping: the one a region that has just been mapped is to be noted in.

The first two have no condition beyond those on the constants. The others have
these, which are hypotheses of the theorems and not of the specification:

* no guest calls shmdt(0), the address of a pending mapping, which
  `sysvipc_shmdt` would free;
* for `ChainFindsMapping`, no process enters an execve while another of its
  threads attaches, detaches or forks (`"execve"` is not in `Careless`);
* for `MappedSegmentsLive` and `AttachedRegistered`, `Careless = {}`, which
  excludes that of a fork as well, and `ExecveFails = FALSE`.

Each is needed: without it the code breaks the property (see below).

`SyscallFlowProofs` shows of `SyscallFlow`, for any set of hosts that are
`Served`, any number of calls and signals and any length of a chain:
`StagesAlwaysAgree` (StagesAgree), `NothingEverUntranslated`
(NothingUntranslated), `UserIsAlwaysClean` (UserIsClean) and
`EveryCallAsPromised`, the refinement of `GuestCalls` (Promised). All follow from
`FlowHolds`. The properties look at single places, and each is true there only
because of what the handlers before left in the registers, the three banks
and the flags; so the invariant `FlowInv` follows a call through all of them.
`Phases` are the twelve things that can be going on:

* `User`: no call. `Fresh`: entered, PRoot has seen nothing of it yet.
* `Entered`: translated at its entry, the exit awaited. `Seen`: reported by the
  filter on a kernel that has the entry stop still to come. `Through`: seen by
  the filter alone, the exit goes unreported.
* `Caught` and `Trapping`: trapped by the host, with and without an exit handler
  to come. `Retry`: rewound after SIGSYS, to be made as another call.
* `Chained`: one of a chain. `Faulty` and `Replaced`: a call whose number cannot
  be set, and the one chained instead of it.
* `Finished`: on the way back with its result.

`Common` is what holds in each: the shape of the state, what PRoot knows of the
order of stops (`Detection`), which SIGSYS is to be dropped (`SkipRight`), the
call tried again (`Standing`) and where the latest signal is (`Signals`). There
is a lemma for each phase and stop, saying in which phase the handler leaves the
call. For the refinement the handlers leave `asked` and `answer` alone
(`GuestHandled`), and the return to user code is possible in `Finished` only,
whose result is the one `Expected`. The hypothesis that hosts are `Served` is
needed: on the three kinds it leaves out the properties fail, as `MCStuck`,
`MCSkipped` and `MCStale` show (see below).

`LinkProofs` shows of `LinkToSymlink`, for any names, contents and tracees:
`LinksAlwaysKept` (LinksKept: the count of a file is that of its names, every name
leads to what it was last given, and no content with a name is lost when PRoot is
killed between any two operations of a handler) and `HardLinksImplemented`, the
refinement of `HardLinks` (ActsAsHardLinks). Two hypotheses:

* `Careless = {}`: the kernel does what a call entered has counted on, and no two
  calls on their way are about one name. Both are needed: see `links_lost` and below.
* `Few`: no more names than suffixes (999, so that a free one is found) and at
  least two fewer than counts (10000, so that four digits hold every count, with
  one to spare for the link that is counted before the new name is found taken).

The invariant, `LinkInv`, speaks of the names that *live*: those with a file that
no call on its way removes or replaces. `Fits` says how a directory stands for
them: a name is a file of its own or a link to an intermediate; that of a name that
lives leads to a final with the file's content and count; no intermediate
is without a name that lives (`MidsLed`), no final without its intermediate (`FinsLed`),
and no content is in two places (`OnePlace`). The last three are what a handler
relies on without looking: the final it renames to is not there, and an unlink of the
last name takes nothing of another. The name of a call on its way may lead
nowhere, or to another file's intermediate made since. Each handler is a run of
operations of the host (`RenumberRuns`, `HideRuns`, `DropRuns`), with a lemma for what
the directory is then (`RelabelFits`, `HideFits`, `DropFits`, ...) and one for what is
still there after each of them (`RenumberSafe`, `HideSafe`, `DecrementCutSafe`,
`LinkCutSafe`), which is the case of the kill.

`PartsProofs` shows of four smaller parts, each by an invariant of its own:

* `SessionsAreKept` (SessionsKept), where the user avoids the slips listed below
  (`Slips = {}`), for any number of terminals, ids and shells. `SessInv` says that
  each id has a terminal of its own and one place in the order, that what runs is
  the terminal of an id, and that the open app has the service up and shows the
  terminal of the current session. Every handler is a composition of the four
  operations of the service; each keeps the lists whole (`CreateIsWhole`,
  `TerminateIsWhole`, `RenameIsWhole`, `ChangeIsWhole`), and the handlers follow.
  The assumption that made-up ids are numbers, each id one of its own and enough of
  them, is what `generateUniqueSessionId` does: it counts up from 1
  to the first that is free.
* `NetlinkAlwaysActs` (NetlinkActs), where descriptors are not copied, forked or
  closed on exec behind PRoot's back (`Loose = {}`) and the places for marks (8,
  `tracee.h:118`) are enough for the descriptors or for all the sockets made: a mark
  without a place is lost. `Marks`: a process's marks are its
  descriptors of such sockets, each once, no socket has two, and sockets not yet
  used have none. `Replies`: PRoot keeps the reply to the latest request of a
  process or none, and that one if only it is owed.
* `RootIsGone` (DropIsFinal, a conjunct of RootFaked): a tracee without a root id
  and without the capability passes the test of a set*id call only for ids among its
  own (`SetXidOwn`, `SetreXidOwn`, `SetresXidOwn`, `SetfsXidOwn`), so what it has shrinks
  until it runs a set-user-ID program. The rest of RootFaked is a fold over the
  names of a path and stays with TLC.
* `NoVmOutOfHand` (RunningIsRegistered), which with the types is inductive, for any
  arches and any number of taps. The case that matters is a launch: `isRunning` is
  false, so a process the map would forget is not running. `NoVmUnasked`
  (EveryVmWasAskedFor) counts: the QEMU processes that were launched and the intents
  on their way are together no more than the taps.

`LoopLemmas` holds what these proofs share: least elements, loops over a list as
functions, sums over finite sets (they exist, do not depend on the order, and
grow by the share of a new element), and how the number of positions of a list with some property
changes when an element is appended, pushed, taken off or unlinked.

Only model-checked: the liveness properties (`Answered`, `StrandedIsServed`,
`DecidedReturns`, `ShmatReturns`); the refinement of `OwnerGraph`;
`StrandedByDeath` and `PtraceesKept`, which hold of the instances of their runs
and not of all (see below); the files a fake root meets; and everything about
paths, ptrace, programs, talloc and the other extensions. Liveness is outside what TLAPS can prove,
and so is what the recursive walks and folds of those modules compute for every
input.

## Behaviour the models have and no run is kept for

Each is seen by changing a constant of a run, or is a definition of the module
that a run could name. They limit what the properties above say.

IPC
* `SleepersMustWait` also fails with `SetVals` not empty: SETVAL wakes nobody
  (`sysvipc_sem.c:213`). With one semaphore 0..1 and the operations -1, 0 and 1 it
  holds, as there no sleeper that is woken can enable one that was passed.
* When msgsnd wakes a receiver without room for the message, it gets E2BIG and
  another one with room sleeps on (`sysvipc_msg.c:163`): `StrandedByDeath` fails.
* A receiver that is killed between its wake-up and its retry takes the wake-up
  with it: another one that the message would serve sleeps on until the next
  msgsnd that wakes it. `StrandedByDeath` says that in the instance of
  `msg_live` nothing else does.
* `StrandedByDeath` fails with four tracees: receivers of any type and of types 1
  and 2 sleep; a message of type 1 wakes the third, one of type 2 the
  first; the first takes the message of type 1, the third finds none and
  returns, the second sleeps next to its message and nobody is on the way
  (`sysvipc_msg.c:163` wakes one receiver for each message, `:260` lets it take
  another).
* An execve drops the mappings of a process when it is entered
  (`sysvipc.c:199`). With `"execve"` in `Careless` a sibling may be in the chain: it then finds
  no pending mapping and PRoot dies on the assertion (`sysvipc_shm.c:330`;
  `ChainsAgree` fails in 7 states); or it attaches while the execve is on
  its way, and what is on the list is not what the process has
  (`MappedSegmentLives` and `AttachedIsRegistered` fail in 16 and 17). With
  `ExecveFails = TRUE` both fail for a single thread: a refused execve has
  already lost the mappings.
* A fork copies the regions in the kernel and the mappings when PRoot hears of
  the child (`sysvipc.c:190`). With `"fork"` in `Careless` a sibling attaches or detaches
  between the two, and the child has a region without a mapping
  (`AttachedIsRegistered` and `MappedSegmentLives` fail in 14 and 18 states).
* An mmap that fails in shmat is noted as one that succeeded, at the address
  that is the error number (`sysvipc_shm.c:419`). The mapping keeps the segment until the
  process ends or calls shmdt with that number.
* A shmat interrupted while it waits for the helper leaves a mapping of size 0,
  which holds up IPC_RMID until the process ends (`sysvipc.c:266`).
* A tracee that ends between connect and the distribution of its descriptor, by
  a kill or by the execve of a sibling, leaves its connection in the helper's
  backlog: the descriptor of the next shmat goes to it, and that shmat never
  returns. With three tracees TLC reports it as a deadlock; with the two of
  `shm_attach` somebody else can still move.
* With three tracees a waiter for the helper may be passed over for ever
  (`sysvipc_shm.c:276`).
* `LookupIsExact` fails with `MaxRemovals = GenMod / 2` (a signed generation
  against an unsigned field) and with `MaxObjects = IdxMod`.

Calls and processes
* Where the number of a call cannot be set and the filter is in use,
  `restart_current_syscall_as_chained` leaves `restart_how` alone and the chain
  is taken up one call late (`chain.c:182`, `MCStuck` of `MCSyscallFlow`).
* Where the host traps void calls and their exit goes unreported, the exit handler
  of a ptrace request runs at SIGSYS and asks to end the use of the filter. The
  stop that does so is then the entry of the next call, which is not translated
  (`event.c:568`; `MCSkipped`).
* `skip_next_seccomp_signal` is set at an entry that PRoot sees although it did
  not ask for it (an open of `/proc/self/auxv` leaves `sysexit_pending` set, so
  the next call is entered through PTRACE_SYSCALL), and where the host does not
  trap void calls nothing clears it: the SIGSYS of a later call, made under
  PTRACE_CONT, is dropped, and the guest gets no retry and no result
  (`event.c:539`, `:699`; `MCStale`, from the fourth call on, with the filter in
  use and the order of stops since Linux 4.8).
* One slot holds signals during a chain: the first of two is lost (`event.c:719`).
* `Ptrace`: a CONT before the wait leaves the stale event; a wait in PRoot
  ignores deaths of children that are not traced; a ptracee whose event is taken
  already is not restarted when its tracer dies (`TraceesAreFree`); a SIGSTOP of
  the guest that meets PRoot's own is swallowed (`event.c:681`). With four
  processes `PtraceesKept` fails: a tracer that waits in PRoot is killed by its
  own tracer, its ptracee's fork event cannot restart it, and PRoot then handles
  that event a second time (`wait.c:385`), which adds the child again.

Files
* `SnapshotAlive` fails: with a binding of the command line on `/u`, a mount on
  `/n/u` and a pivot to `/n`, the rebased binding replaces and frees the one on
  `/u`, which the loop of `pivot_root` has yet to read (`enter.c:301`). The model
  has every outcome of that read; `OldRootShown` and `NewRootShown` (parts of
  `EmulationShows`) speak of pivots without it.
* `pivot_root(".", ".")` leaves the name `/.` for the old root
  (`OldRootDetached`). umount removes startup bindings and does not restore what
  a binding replaced. `clone_stripped_newns` stays set after a clone that failed.
  A binding inside a renamed directory keeps its old name. chroot reads a
  path that was not translated.
* link2symlink: the count falls at the entry of unlink and rename, whatever the
  kernel then does; two calls on one name lower it twice (`Careless`); a name is
  gone between two steps of a link; the suffix and the count have three and four
  digits; linkat of a guest's symbolic link counts the wrong file.
* Fake root: a rename of a file that lacks owner permissions loses its mode; a
  chmod of another tracee meanwhile is undone; a chmod through a link is undone;
  setreuid(r, -1) leaves the saved id (`fake_id0.c:184`); getresuid writes 16
  bits (`:77`); `keep_caps` survives exec.
* Calls: mknod, mknodat and name_to_handle_at follow a last link; `openat2` loses
  its resolve flags after SIGSYS; readlink with a buffer just one byte too
  long counts the NUL (`exit.c:441`); bind and connect of an address that is not
  a Unix one, by socketcall, change arguments nobody restores (`exit.c:209`);
  getsockname into a short buffer shows a cut host path.

Programs and calls of old kernels
* `MaskedIsLoader` fails: `ignore_loader_syscalls` stays set after a refused
  exec.
* `NoCrash` fails: an execve that is refused for what the file is leaves no
  mappings (`enter.c:716`), and if the process has not called brk yet, its brk(0) reads
  the one before the first (`heap.c:106`): PRoot ends, and its tracees with it
  (`BrkCrashes`; 7 steps). An execve of the qemu runner, which sets
  `heap->disabled`, is left out; the model disables a heap as `heap.c:201` does.
* With `Racing = TRUE` `ProgramsAndHeaps` fails: of two brk in flight on one heap
  PRoot notes the size of the one that ends last, and a clone between the
  kernel's resizing and PRoot's note of it gives the child the old size.
* Zeros of a segment are cleared in a page beyond the end of a file.
* A trapped dup2(a, a) becomes dup3, which refuses it; ftruncate64 gets the
  registers of ARM on every host; select with usec beyond a second is refused;
  the lookup of a number reads one entry beyond its table (`sysnum.c:93`).
* A word-by-word read faults in the last bytes of mapped memory, and a partial
  `process_vm_readv` is taken for a whole word.
* kompat: pselect6 becomes select with a timespec in the place of a timeval
  (`kompat.c:470`); dup3 with O_NONBLOCK changes the status flags of the file;
  AT_RANDOM ends the adjustment of the vector, and forced mode has it twice.

Netlink and small extensions
* Marks are not moved by dup2, close_range, exec, fork or threads (`Loose`);
  one tracee has one reply buffer; a ninth socket is not marked.
* ashmem: ftruncate falls into the handling of fstat (`ashmem_memfd.c:131`), and
  a failed detection counts as support; an error of getdents is taken for a
  size (`hidden_files.c:68`); direct IPv6 sendto is not switched, the guest's
  own address is changed, and ports from 2001 can collide (`port_switch.c`);
  the order of extensions reverses every generation.
* talloc: a chunk whose only other owner is the null context is handed to a
  grandparent that is being freed; PRoot makes no such reference.

VMs
* A firmware copy that fails half-way is used ever after
  (`NativeVmLauncher.kt:63`); an import overwrites the image of a VM that runs
  (`MainActivity.kt:425`); stopSelf may end the service before a Start that is
  already on its way; a console that is closed leaves its reader.

Sessions (`Slips` of `Sessions` admits each)
* A saved command whose name is the id of a session takes its place in the map,
  and the shell of that session runs on unreachable (`TerminalScreen.kt:131`).
* The drawer deletes the session that is shown and leaves the view at it
  (`TerminalDrawer.kt:194`). A session that then gets the old id is the
  one that Enter closes; and when the others are deleted too, the service stops
  itself under the sessions that are made next.
* EXIT while the app is open stops the service once the app is left: a session
  created in between dies with it (`SessionService.kt:153`).

## What is not modelled

* IPC: `/proc/sysvipc`, permissions, sizes and times, the start of the helper,
  what shared memory calls report, an execve by another thread than the first, a
  child whose parent is killed before PRoot has heard of it, message types
  wider than 32 bits.
* Calls: getpgrp, time, statfs, statx and sendmmsg after SIGSYS, which compute a
  result; reading and writing of registers and memory by ptrace requests.
* Fake root: what stat, chown, SO_PEERCRED and SCM_CREDENTIALS show of the ids;
  the sources under `USERLAND`, which no build file defines.
* link2symlink: `PROOT_L2S_DIR` and files in several directories.
* talloc: pools, memory limits, destructors that refuse and reports; PRoot uses
  none of them. Strings change no owner.
* uname and host names, sizes of symbolic links, the placeholders of `glue.c`,
  qemu as a runner of foreign programs, the unpacking of the loader, temporary
  files: conversions and input or output with no state between two events.
* The command line of PRoot runs once, before there is a tracee; `KvmDetector`
  is a test of one file; settings and presentation decide nothing else.
* Sessions: their modes, the sorted order, the command lines of the shells, the
  notification, `terminateAllSessions`, which nobody calls.
* The VM console and the rootfs download of the app.
