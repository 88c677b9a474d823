-------------------------------- MODULE Ptrace --------------------------------
(***************************************************************************)
(* The emulation of ptrace(2) between the processes of the guest           *)
(* (ptrace/ptrace.c, ptrace/wait.c) on top of PRoot's own list of tracees  *)
(* (tracee/tracee.c) and its event loop (tracee/event.c): the kernel has   *)
(* one tracer for each process, PRoot, and PRoot plays the tracer of the   *)
(* guest for it.                                                           *)
(*                                                                         *)
(* Handlers work on h = [tr, kern, told, left], the variables of these names. *)
(* A system call has its enter and its exit stop; the calls that matter    *)
(* are ptrace, wait and fork, "nop" is any other.                          *)
(***************************************************************************)
EXTENDS Naturals, Sequences, FiniteSets, SequencesExt

CONSTANTS
    Procs,        \* the processes of the guest, with those to be
    First,        \* the one PRoot launches
    Requests,     \* the requests the guest makes: subset of AllRequests
    MaxCalls,     \* bound: system calls of all processes
    MaxSignals    \* bound: signals raised

AllRequests == {"traceme", "attach", "options", "cont", "syscall", "detach", "kill"}

ASSUME PtraceAssumption ==
    /\ First \in Procs /\ Requests \subseteq AllRequests
    /\ MaxCalls \in Nat /\ MaxSignals \in Nat

VARIABLES
    tr,           \* the Tracee structures
    kern,            \* the processes in the kernel
    told,         \* history: the deaths the waits of the guest have returned
    left,         \* history: ptracees whose tracer died after it took their event
    calls, signals,
    crashed       \* PRoot is gone, and the guest with it

ptraceVars == <<tr, kern, told, left, calls, signals, crashed>>

None == "none"

\* A Tracee as new_tracee() makes it; vpid numbers them.
NewTracee(vpid) ==
    [listed |-> TRUE, vpid |-> vpid, exe |-> FALSE, parent |-> None, running |-> FALSE,
     sigstop |-> "IGNORED", terminated |-> FALSE, status |-> 0,
     \* as_ptracee: event4.proot and event4.ptracer are pv, pp and tv, tp
     ptracer |-> None, pv |-> None, pp |-> FALSE, tv |-> None, tp |-> FALSE,
     started |-> FALSE, ignore |-> FALSE, options |-> FALSE,
     \* as_ptracer, and the call that restart_original_syscall() chains
     nb |-> 0, wait |-> None, waits |-> "DOESNT_WAIT", zombies |-> <<>>, chain |-> FALSE]

Unlisted == [NewTracee(0) EXCEPT !.listed = FALSE]

NoCall == [name |-> None, arg |-> None, nohang |-> FALSE]
NoResult == [pid |-> None, value |-> None]
NoProcess == [st |-> "none", ev |-> None, parent |-> None, call |-> NoCall, void |-> FALSE,
              stops |-> FALSE, result |-> NoResult]

PtraceInit ==
    /\ tr = [p \in Procs |-> IF p = First
                             THEN [NewTracee(1) EXCEPT !.exe = TRUE, !.running = TRUE,
                                                       !.sigstop = "ALLOWED"]
                             ELSE Unlisted]
    /\ kern = [p \in Procs |-> IF p = First THEN [NoProcess EXCEPT !.st = "run"] ELSE NoProcess]
    /\ told = {} /\ left = {}
    /\ calls = 0 /\ signals = 0 /\ crashed = FALSE

-------------------------------------------------------------------------------
(***************************************************************************)
(* The kernel: "run" in user code, "event" stopped with an event PRoot has *)
(* not waited for, "stop" one that it has, "wait" in a wait of its own,    *)
(* "zombie" reaped by PRoot, "gone" reaped by its parent too.              *)
(***************************************************************************)
Alive(h, p) == h.kern[p].st \in {"run", "event", "stop", "wait"} /\ h.kern[p].ev # "exited"

Event(kk, p, ev) == [kk EXCEPT ![p].st = "event", ![p].ev = ev]

Unborn(h) == {c \in Procs : h.kern[c].st = "none"}

\* fork: the parent stops with an event, the child with a SIGSTOP.
Forked(h, p) ==
    LET c == CHOOSE c \in Unborn(h) : TRUE
        child == [NoProcess EXCEPT !.parent = p, !.st = "event", !.ev = "SIGSTOP"]
    IN Event([h.kern EXCEPT ![c] = child, ![p].result = [pid |-> c, value |-> "0"]], p, "fork")

\* What a process does when it is restarted from the stop it is in.
Resume(h, p) ==
    LET me == h.kern[p]
        waits == \/ me.ev = "enter" /\ me.call.name = "wait" /\ ~me.void
                 \/ me.ev = "exit" /\ h.tr[p].chain
        forks == me.ev = "enter" /\ me.call.name = "fork" /\ Unborn(h) # {}
    IN IF waits THEN [h.kern EXCEPT ![p].st = "wait", ![p].ev = None]
       ELSE IF forks THEN Forked(h, p)
       ELSE IF me.ev \in {"enter", "fork"} THEN Event(h.kern, p, "exit")
       ELSE [h.kern EXCEPT ![p].st = "run", ![p].ev = None, ![p].call = NoCall,
                        ![p].void = FALSE, ![p].result = NoResult]

\* The guest is told of a death when its wait returns it.
Told(h, p) ==
    LET r == h.kern[p].result
    IN IF h.kern[p].ev = "exit" /\ h.kern[p].call.name = "wait" /\ ~h.tr[p].chain
          /\ r.value = "exited"
       THEN h.told \cup {<<p, r.pid>>} ELSE h.told

-------------------------------------------------------------------------------
\* restart_tracee(): a tracee that waits for a ptracee stays stopped.
Restarts(h, p, sig) ==
    /\ h.tr[p].wait = None /\ sig # "-1"
    /\ h.kern[p].st \in {"stop", "event"} /\ h.kern[p].ev # "exited"

Restart(h, p, sig) ==
    IF Restarts(h, p, sig)
    THEN [h EXCEPT !.tr[p].running = TRUE, !.kern = Resume(h, p), !.told = Told(h, p)]
    ELSE h

AttachTo(t, p, ptracer) ==
    [t EXCEPT ![p].ptracer = ptracer, ![p].pv = None, ![p].pp = FALSE, ![p].tv = None,
              ![p].tp = FALSE, ![p].started = FALSE, ![p].ignore = FALSE,
              ![p].options = FALSE, ![ptracer].nb = @ + 1]

Detach(t, p) == [t EXCEPT ![p].ptracer = None, ![t[p].ptracer].nb = @ - 1]

Poke(h, p, result) == [h EXCEPT !.kern[p].result = result]

-------------------------------------------------------------------------------
(* wait.c *)

\* get_ptracee(): zombies first, then the tracees from the latest.
Zombies(h, p, pid) == SelectSeq(h.tr[p].zombies, LAMBDA z : pid \in {"any", z.pid})

Ptracees(h, p, pid) ==
    {c \in Procs : h.tr[c].listed /\ h.tr[c].ptracer = p /\ pid \in {"any", c}}

Stopped(h, p, pid) == {c \in Ptracees(h, p, pid) : ~h.tr[c].running}
WithEvent(h, p, pid) == {c \in Stopped(h, p, pid) : h.tr[c].tp}

Latest(h, s) == CHOOSE c \in s : \A d \in s : h.tr[d].vpid <= h.tr[c].vpid

\* update_wait_status() of a ptracee in the list: a death the tracer also gets to
\* see as the parent is collected from the kernel by the call itself.
UpdateWaitStatus(h, p, c) ==
    IF h.tr[c].parent = p /\ h.tr[c].tv = "exited"
    THEN [h |-> [h EXCEPT !.tr = [Detach(h.tr, c) EXCEPT ![p].chain = TRUE]], restart |-> TRUE]
    ELSE [h |-> Poke([h EXCEPT !.tr[c].tp = FALSE], p, [pid |-> c, value |-> h.tr[c].tv]),
          restart |-> FALSE]

\* update_wait_status() of a zombie.
UpdateFromZombie(h, p, z) ==
    LET rest == [h EXCEPT !.tr[p].zombies = SelectSeq(@, LAMBDA x : x # z), !.tr[p].nb = @ - 1]
    IN IF z.parent = p THEN [rest EXCEPT !.tr[p].chain = TRUE]
       ELSE Poke(rest, p, [pid |-> z.pid, value |-> "exited"])

\* translate_wait_enter(): emulated only if a ptracee is meant.
WaitEnter(h, p) ==
    LET pid == h.kern[p].call.arg
    IN IF h.tr[p].nb = 0 \/ (pid # "any" /\ (~h.tr[pid].listed \/ h.tr[pid].ptracer # p))
       THEN [h EXCEPT !.tr[p].waits = "WAITS_IN_KERNEL"]
       ELSE [h EXCEPT !.tr[p].waits = "WAITS_IN_PROOT", !.kern[p].void = TRUE]

\* translate_wait_exit()
WaitExit(h0, p) ==
    LET h == [h0 EXCEPT !.tr[p].waits = "DOESNT_WAIT"]
        pid == h.kern[p].call.arg
        zs == Zombies(h, p, pid)
        ready == WithEvent(h, p, pid)
    IN IF zs # <<>> THEN UpdateFromZombie(h, p, Head(zs))
       ELSE IF ready # {} THEN UpdateWaitStatus(h, p, Latest(h, ready)).h
       ELSE IF h.tr[p].nb = 0 THEN Poke(h, p, [pid |-> None, value |-> "ECHILD"])
       ELSE IF h.kern[p].call.nohang
       THEN Poke(h, p, [pid |-> None,
                        value |-> IF Ptracees(h, p, pid) # {} THEN "0" ELSE "ECHILD"])
       ELSE Poke([h EXCEPT !.tr[p].wait = pid], p, [pid |-> None, value |-> "0"])

\* The end of handle_ptracee_event(): the event is the tracer's now, which is
\* woken if it waits for it.
Notify(h0, c, ev) ==
    LET p == h0.tr[c].ptracer
        h == [h0 EXCEPT !.tr[c].tv = ev, !.tr[c].tp = TRUE]
        keep == ev # "exited"
        u == UpdateWaitStatus(h, p, c)
        woken == [u.h EXCEPT !.tr[p].wait = None]
    IN IF h.tr[p].wait \in {"any", c}
       THEN [h |-> Restart(woken, p, "0"), keep |-> keep /\ Restarts(woken, p, "0")]
       ELSE [h |-> h, keep |-> keep]
-------------------------------------------------------------------------------
(* handle_tracee_event(): the handlers give [h, sig], the signal to restart  *)
(* the tracee with.                                                          *)

With(h, sig) == [h |-> h, sig |-> sig]

\* Events that PRoot may have to handle later, when the tracer restarts its
\* ptracee: the entry of a call, a stop by a signal, the end.
HandleLater(h, p, ev) ==
    LET g == [h EXCEPT !.tr[p].pp = FALSE]
    IN CASE ev = "enter" ->
              LET e == [g EXCEPT !.tr[p].status = 1]
              IN With(IF h.kern[p].call.name = "wait" THEN WaitEnter(e, p)
                      ELSE [e EXCEPT !.kern[p].void = h.kern[p].call.name \in AllRequests], "0")
         [] ev = "exited"  -> With([g EXCEPT !.tr[p].terminated = TRUE], "0")
         [] ev = "SIGSTOP" ->
              IF ~h.tr[p].exe THEN With([g EXCEPT !.tr[p].sigstop = "PENDING"], "-1")
              ELSE IF h.tr[p].sigstop = "IGNORED"
              THEN With([g EXCEPT !.tr[p].sigstop = "ALLOWED"], "0")
              ELSE With(g, "SIGSTOP")
         [] OTHER -> With(g, ev)

\* Restart a ptracee from the event PRoot has kept for it.
Release(h, c, forced) ==
    LET x == IF h.tr[c].pp THEN HandleLater(h, c, h.tr[c].pv) ELSE With(h, h.tr[c].pv)
    IN Restart(x.h, c, IF forced THEN "0" ELSE x.sig)

SendSigstop(h, p) == [h EXCEPT !.kern[p].stops = TRUE]

\* Mutant: a tracer that waits in the kernel already is not woken.
Traceme_Silent(h, p) ==
    Poke([h EXCEPT !.tr = AttachTo(h.tr, p, h.tr[p].parent)], p, [pid |-> None, value |-> "0"])

\* PTRACE_TRACEME: a tracer that is in a wait of the kernel is kicked out of it.
Traceme(h, p) ==
    LET ptracer == h.tr[p].parent
        g == Poke([h EXCEPT !.tr = AttachTo(h.tr, p, ptracer)], p, [pid |-> None, value |-> "0"])
    IN IF g.tr[ptracer].waits = "WAITS_IN_KERNEL"
       THEN SendSigstop([g EXCEPT !.tr[ptracer].sigstop = "IGNORED",
                                  !.tr[ptracer].waits = "WAITS_IN_PROOT"], ptracer)
       ELSE g

Kill(h, p) == [h EXCEPT !.kern[p].st = "event", !.kern[p].ev = "exited", !.kern[p].stops = FALSE]

\* Mutant: PTRACE_DETACH forgets to restart the ptracee.
RequestTo_Stuck(h, p, c, request) ==
    CASE request = "options" -> [h EXCEPT !.tr[c].options = TRUE]
      [] request \in {"cont", "syscall"} ->
           Release([h EXCEPT !.tr[c].ignore = request = "cont"], c, TRUE)
      [] request = "detach" -> [h EXCEPT !.tr = Detach(h.tr, c)]
      [] OTHER -> Release(Kill(h, c), c, FALSE)

\* The requests to a stopped ptracee.
RequestTo(h, p, c, request) ==
    CASE request = "options" -> [h EXCEPT !.tr[c].options = TRUE]
      [] request \in {"cont", "syscall"} ->
           Release([h EXCEPT !.tr[c].ignore = request = "cont"], c, TRUE)
      [] request = "detach" -> Release([h EXCEPT !.tr = Detach(h.tr, c)], c, FALSE)
      [] OTHER -> Release(Kill(h, c), c, FALSE)

\* translate_ptrace_exit()
PtraceExit(h, p) ==
    LET request == h.kern[p].call.name
        c == h.kern[p].call.arg
        fine(x) == Poke(x, p, [pid |-> None, value |-> "0"])
        fails == Poke(h, p, [pid |-> None, value |-> "error"])
    IN IF request = "traceme"
       THEN IF h.tr[p].ptracer # None THEN fails ELSE Traceme(h, p)
       ELSE IF request = "attach"
       THEN IF ~h.tr[c].listed \/ h.tr[c].ptracer # None \/ c = p THEN fails
            ELSE fine(SendSigstop([h EXCEPT !.tr = AttachTo(h.tr, c, p)], c))
       ELSE IF Zombies(h, p, c) # <<>> \/ Stopped(h, p, c) = {} THEN fails
       ELSE fine(RequestTo(h, p, c, request))

\* The exit of a call, and of the wait that was chained to one.
HandleExit(h0, p) ==
    LET h == [h0 EXCEPT !.tr[p].status = 0, !.tr[p].pp = FALSE]
    IN IF h.tr[p].chain THEN [h EXCEPT !.tr[p].chain = FALSE]
       ELSE IF h.kern[p].call.name \in AllRequests THEN PtraceExit(h, p)
       ELSE IF h.kern[p].call.name = "wait" /\ h.tr[p].waits = "WAITS_IN_PROOT" THEN WaitExit(h, p)
       ELSE h

\* get_tracee() with create.
Known(h, p) ==
    IF h.tr[p].listed THEN h
    ELSE [h EXCEPT !.tr[p] = NewTracee(1 + Max({h.tr[q].vpid : q \in Procs}))]

\* new_child()
NewChild(h0, p) ==
    LET c  == h0.kern[p].result.pid
        h  == [Known(h0, c) EXCEPT !.tr[p].pp = FALSE]
        t  == [h.tr EXCEPT ![c].exe = TRUE, ![c].parent = p]
        traced == h.tr[p].ptracer # None /\ h.tr[p].options
        u  == IF traced THEN [AttachTo(t, c, h.tr[p].ptracer) EXCEPT ![c].options = TRUE] ELSE t
        x  == [h EXCEPT !.tr = [u EXCEPT ![c].sigstop = "ALLOWED"]]
        n  == Notify([x EXCEPT !.tr[c].started = TRUE], c, "SIGSTOP")
        y  == [n.h EXCEPT !.tr[c].pp = FALSE, !.tr[c].pv = "0"]
    IN IF h.tr[c].sigstop # "PENDING" THEN [h EXCEPT !.tr = u]
       ELSE IF ~traced THEN Restart(x, c, "0")
       ELSE IF n.keep THEN y ELSE Restart(y, c, "0")

HandleTracee(h, p, ev) ==
    CASE ev = "exit" -> With(HandleExit(h, p), "0")
      [] ev = "fork" -> With(NewChild(h, p), "0")
      [] OTHER -> HandleLater(h, p, ev)

\* handle_ptracee_event(), for an event that is the tracer's business.
HandlePtracee(h0, p, ev) ==
    LET h == [h0 EXCEPT !.tr[p].pv = ev, !.tr[p].pp = TRUE,
                        !.tr[p].started = @ \/ ev \notin {"enter", "exit"}]
        first == HandleTracee(h, p, ev)
    IN Notify(IF ev \in {"exit", "fork"} THEN [first.h EXCEPT !.tr[p].pv = first.sig] ELSE h,
              p, ev)

\* Events that are not.
PassedOver(h, p, ev) ==
    \/ ev \in {"enter", "exit"} /\ (h.tr[p].ignore \/ ~h.tr[p].started)
    \/ ev = "fork" /\ ~h.tr[p].options

-------------------------------------------------------------------------------
(* remove_tracee() *)

\* Its ptracees are released, the event they are stopped for included.
FreePtracee(h0, p, c) ==
    LET h == [h0 EXCEPT !.tr[c].ptracer = None]
        r == IF h.tr[c].pp THEN Release(h, c, FALSE)
             ELSE IF h.tr[c].tp THEN Restart(h, c, h.tr[c].pv)
             ELSE [h EXCEPT !.left = IF h.tr[c].running THEN @ ELSE @ \cup {c}]
    IN [r EXCEPT !.tr[c].pv = None, !.tr[c].pp = FALSE, !.tr[c].tv = None, !.tr[c].tp = FALSE,
                 !.tr[c].started = FALSE, !.tr[c].ignore = FALSE, !.tr[c].options = FALSE]

\* Mutant: children keep the pointer to their dead parent.
Orphan_Kept(h, p) == h

Orphan(h, p) ==
    [h EXCEPT !.tr = [c \in Procs |-> IF h.tr[c].parent = p
                                      THEN [h.tr[c] EXCEPT !.parent = None] ELSE h.tr[c]]]

\* Mutant: the zombie is not attached to the tracer.
LeaveTracer_Uncounted(h, p) ==
    LET ptracer == h.tr[p].ptracer
        z == [pid |-> p, parent |-> h.tr[p].parent]
        g == [h EXCEPT !.tr = Detach(h.tr, p)]
    IN IF ptracer = None THEN h
       ELSE IF h.tr[p].tp /\ h.tr[p].tv = "exited"
       THEN [g EXCEPT !.tr[ptracer].zombies = <<z>> \o @]
       ELSE g

\* Towards its own tracer it stays a zombie until that one has seen its end.
LeaveTracer(h, p) ==
    LET ptracer == h.tr[p].ptracer
        z == [pid |-> p, parent |-> h.tr[p].parent]
        g == [h EXCEPT !.tr = Detach(h.tr, p)]
        nobody == Poke([g EXCEPT !.tr[ptracer].wait = None], ptracer,
                       [pid |-> None, value |-> "ECHILD"])
    IN IF ptracer = None THEN h
       ELSE IF h.tr[p].tp /\ h.tr[p].tv = "exited"
       THEN [h EXCEPT !.tr[ptracer].zombies = <<z>> \o @]
       ELSE IF g.tr[ptracer].nb = 0 /\ g.tr[ptracer].wait # None
       THEN Restart(nobody, ptracer, "0") ELSE g

\* free_terminated_tracees() after the event of p.
Freed(h, p) ==
    IF ~h.tr[p].terminated THEN h
    ELSE LET tracees == SetToSeq({c \in Procs : h.tr[c].ptracer = p})
             g == FoldLeft(LAMBDA x, c : FreePtracee(x, p, c), Orphan(h, p), tracees)
             u == LeaveTracer(g, p)
         IN [u EXCEPT !.tr[p] = [Unlisted EXCEPT !.vpid = h.tr[p].vpid]]

-------------------------------------------------------------------------------
(* One turn of event_loop(). *)

\* The death of a process leaves a zombie for its parent, if it has one.
Waited(kk, p) ==
    [kk EXCEPT ![p].st = IF kk[p].ev # "exited" THEN "stop"
                         ELSE IF kk[p].parent = None \/ kk[kk[p].parent].st \in {"zombie", "gone"}
                         THEN "gone" ELSE "zombie"]

Turn(h0, p) ==
    LET ev == h0.kern[p].ev
        h == [Known([h0 EXCEPT !.kern = Waited(@, p)], p) EXCEPT !.tr[p].running = FALSE]
        traced == h.tr[p].ptracer # None /\ ~PassedOver(h, p, ev)
        n == HandlePtracee(h, p, ev)
        g == IF traced THEN n.h ELSE h
        x == HandleTracee(g, p, ev)
    IN IF traced /\ n.keep THEN g ELSE Freed(Restart(x.h, p, x.sig), p)

Become(h) == tr' = h.tr /\ kern' = h.kern /\ told' = h.told /\ left' = h.left

State == [tr |-> tr, kern |-> kern, told |-> told, left |-> left]

\* Nothing checks that there is a parent to be the tracer, and new_child() asserts
\* that a child has none yet.
Crashes(p) ==
    \/ /\ kern[p].ev = "exit" /\ kern[p].call.name = "traceme" /\ ~tr[p].chain
       /\ tr[p].ptracer = None /\ tr[p].parent = None
    \/ kern[p].ev = "fork" /\ tr[kern[p].result.pid].ptracer # None

EventLoop(p) ==
    /\ kern[p].st = "event"
    /\ \/ Crashes(p) /\ crashed' = TRUE /\ UNCHANGED <<tr, kern, told, left>>
       \/ /\ ~Crashes(p) /\ UNCHANGED crashed
          /\ \E h \in {Turn(State, p)} : Become(h)
    /\ UNCHANGED <<calls, signals>>

-------------------------------------------------------------------------------
(* The guest *)

\* All the arguments of a TRACEME are alike.
Calls(p) ==
    [name : Requests \ {"traceme"}, arg : Procs \ {p}, nohang : {FALSE}]
    \cup [name : Requests \cap {"traceme"}, arg : {None}, nohang : {FALSE}]
    \cup [name : {"wait"}, arg : Procs \ {p}, nohang : {FALSE}]
    \cup [name : {"wait"}, arg : {"any"}, nohang : BOOLEAN]
    \cup [name : {"fork", "nop"}, arg : {None}, nohang : {FALSE}]

GuestCall(p) ==
    /\ kern[p].st = "run" /\ calls < MaxCalls
    /\ \E c \in Calls(p) : kern' = [Event(kern, p, "enter") EXCEPT ![p].call = c]
    /\ calls' = calls + 1
    /\ UNCHANGED <<tr, told, left, signals, crashed>>

Raise(p) ==
    /\ kern[p].st = "run" /\ signals < MaxSignals
    /\ kern' = Event(kern, p, "SIGUSR1")
    /\ signals' = signals + 1
    /\ UNCHANGED <<tr, told, left, calls, crashed>>

Exit(p) ==
    /\ kern[p].st = "run"
    /\ kern' = [c \in Procs |-> IF c = p THEN [Event(kern, p, "exited")[p] EXCEPT !.stops = FALSE]
                             ELSE IF kern[c].parent = p THEN [kern[c] EXCEPT !.parent = None]
                             ELSE kern[c]]
    /\ UNCHANGED <<tr, told, left, calls, signals, crashed>>

\* A SIGSTOP that was sent interrupts a wait, and stops the process.
SigstopArrives(p) ==
    /\ kern[p].st \in {"run", "wait"} /\ kern[p].stops
    /\ kern' = IF kern[p].st = "wait"
            THEN [Event(kern, p, "exit") EXCEPT ![p].result = [pid |-> None, value |-> "EINTR"]]
            ELSE [Event(kern, p, "SIGSTOP") EXCEPT ![p].stops = FALSE]
    /\ UNCHANGED <<tr, told, left, calls, signals, crashed>>

\* wait4() in the kernel.
Children(p) == {c \in Procs : kern[c].parent = p /\ kern[c].st \notin {"none", "gone"}
                              /\ (kern[p].call.arg \in {"any", c})}

KernelWait(p) ==
    /\ kern[p].st = "wait"
    /\ \/ \E c \in Children(p) :
            /\ kern[c].st = "zombie"
            /\ kern' = [Event(kern, p, "exit") EXCEPT ![p].result = [pid |-> c, value |-> "exited"],
                                                ![c].st = "gone"]
       \/ /\ Children(p) = {}
          /\ kern' = [Event(kern, p, "exit") EXCEPT ![p].result = [pid |-> None,
                                                                  value |-> "ECHILD"]]
       \/ /\ kern[p].call.nohang /\ \A c \in Children(p) : kern[c].st # "zombie"
          /\ kern' = [Event(kern, p, "exit") EXCEPT ![p].result = [pid |-> None, value |-> "0"]]
    /\ UNCHANGED <<tr, told, left, calls, signals, crashed>>

PtraceNext ==
    /\ ~crashed
    /\ \/ \E p \in Procs : EventLoop(p) \/ SigstopArrives(p) \/ KernelWait(p)
       \/ \E p \in Procs : GuestCall(p) \/ Raise(p) \/ Exit(p)

PtraceSpec == PtraceInit /\ [][PtraceNext]_ptraceVars
-------------------------------------------------------------------------------
\* Names refer to processes, and only to known ones.
PtraceTypeOK ==
    \A p \in Procs :
      /\ tr[p].parent \in Procs \cup {None} /\ tr[p].ptracer \in Procs \cup {None}
      /\ tr[p].nb \in 0..Cardinality(Procs)
      /\ tr[p].waits \in {"DOESNT_WAIT", "WAITS_IN_KERNEL", "WAITS_IN_PROOT"}
      /\ tr[p].parent # None => tr[tr[p].parent].listed
      /\ tr[p].ptracer # None => tr[tr[p].ptracer].listed

\* nb_ptracees, which decides whether a wait is emulated at all and when it fails
\* with ECHILD, counts the ptracees and the zombies.
PtraceesCounted ==
    \A p \in Procs : tr[p].listed =>
      tr[p].nb = Cardinality({c \in Procs : tr[c].ptracer = p}) + Len(tr[p].zombies)

\* No tracer sleeps next to an event it waits for, or with nobody to wait for.
EventNotMissed ==
    \A p \in Procs : tr[p].wait # None =>
      tr[p].nb > 0 /\ WithEvent(State, p, tr[p].wait) = {} /\ Zombies(State, p, tr[p].wait) = <<>>

\* No tracer sleeps in the kernel next to a ptracee it cannot hear of there.
NoDeafTracer ==
    \A p \in Procs : kern[p].st = "wait" /\ ~kern[p].stops /\ ~tr[p].chain =>
      WithEvent(State, p, kern[p].call.arg) = {}

\* In PRoot or in the kernel, no wait sleeps through what it waits for.
NoEventMissed == EventNotMissed /\ NoDeafTracer

\* translate_wait_enter() makes the call a void one "if the expected pid is one of its
\* ptracees", so that its death is told: the kernel knows of no such child.
DeathIsFound ==
    \A p \in Procs :
      kern[p].st = "event" /\ kern[p].ev = "exit" /\ kern[p].call.name = "wait"
      /\ kern[p].result.value = "ECHILD" => Zombies(State, p, kern[p].call.arg) = <<>>

\* A process PRoot keeps stopped is somebody's business: its tracer's, its own as it
\* waits for a ptracee, or that of a fork event of its parent that is to come.
NobodyForgotten ==
    \A p \in Procs :
      kern[p].st = "stop" /\ p \notin left =>
        \/ tr[p].ptracer # None
        \/ tr[p].wait # None
        \/ tr[p].sigstop = "PENDING"

\* No ptracee is lost: the count that waits go by is right, and who is stopped has somebody to go on with.
PtraceesKept == PtraceesCounted /\ NobodyForgotten

\* PRoot survives: there is a tracer to be attached to, and new_child() finds what it
\* asserts, a child without one.
AssertsHold == ~crashed

\* "Its tracees are now free": a ptracee goes on when its tracer has died.
TraceesAreFree == \A p \in left : kern[p].st # "stop" \/ tr[p].wait # None

\* A child the kernel has reaped for a wait is reported by that wait.
ReapedIsTold ==
    \A p, c \in Procs :
      kern[c].st = "gone" /\ kern[c].parent = p /\ kern[p].st = "run" => <<p, c>> \in told
===============================================================================
