------------------------------ MODULE SyscallFlow ------------------------------
(***************************************************************************)
(* The way of one tracee's system calls through the kernel's stops and     *)
(* PRoot's handlers: handle_tracee_event() and restart_tracee() of         *)
(* tracee/event.c, translate_syscall() of syscall/syscall.c, the chained   *)
(* system calls of syscall/chain.c, the register banks of tracee/reg.c and *)
(* the replacement of blocked calls after SIGSYS of tracee/seccomp.c.      *)
(*                                                                         *)
(* A system call is abstracted to its kind: what the filter, the enter and *)
(* the exit handlers do with such a call.  Registers are abstracted to the *)
(* number of the call, whether the arguments are the guest's, translated   *)
(* to the host or deliberately invalid, and where the result comes from.   *)
(***************************************************************************)
EXTENDS Naturals, Sequences

(***************************************************************************)
(* "untraced": not in the filter.  "enter": translated at its entry only   *)
(* (open).  "exit": also at its exit (execve).  "late": its enter handler  *)
(* asks for the exit (open of /proc/self/auxv).  "fails": its enter        *)
(* handler returns an error.  "emulated": replaced by a void call          *)
(* (mount).  "swapped": replaced by another call.  "chain": its exit       *)
(* handler registers more calls.  "ptrace": its exit disables seccomp for  *)
(* this tracee.  "clone": the kernel reports a new child during it.        *)
(* "blocked": trapped by the policy of the host, PRoot retries it as       *)
(* another call.  "refused": trapped, and PRoot gives the result itself.   *)
(***************************************************************************)
Kinds == {"untraced", "enter", "exit", "late", "fails", "emulated", "swapped",
          "chain", "ptrace", "clone", "blocked", "refused"}

CONSTANTS MaxCalls,     \* bound: calls the guest makes
          MaxSignals,   \* bound: signals sent to it
          ChainLength,  \* system calls a "chain" call has PRoot insert
          Hosts         \* the kernels it may run on

\* The order of the stops, whether PRoot's filter is installed, whether the
\* policy of the host traps void calls, whether the exit of a trapped call may
\* go unreported, whether a tracer can change the number of a call that was
\* entered; and the kinds of calls the guest makes.
AllHosts == [order : {"old", "new"}, filter : BOOLEAN, trapsVoid : BOOLEAN,
             skips : BOOLEAN, canSet : BOOLEAN, kinds : SUBSET Kinds]

ASSUME FlowAssumption == /\ MaxCalls \in Nat /\ MaxSignals \in Nat
                         /\ ChainLength \in Nat /\ Hosts \subseteq AllHosts

\* Calls PRoot makes the tracee do: another call instead of "swapped" and
\* "blocked", one that was chained, none at all.
Inserted == {"other", "chained", "void"}

Trapped == {"blocked", "refused"}

\* The hosts on which every call of the guest is served.  PRoot's filter is not
\* used where a tracer cannot change the number of a call; hosts with the old
\* order of stops have no policy that traps void calls; nobody traces another
\* process where void calls are trapped without an exit; and where they are not
\* trapped, a mark left for the SIGSYS of one (skip_next_seccomp_signal, set at
\* an entry that a "late" call had PRoot report) would drop that of the next
\* call of Trapped, so a guest there does not make both.
Served(h) ==
    /\ h.canSet \/ ~h.filter
    /\ h.order = "old" => ~h.skips /\ ~h.trapsVoid
    /\ h.trapsVoid /\ h.skips => "ptrace" \notin h.kinds
    /\ h.order = "new" /\ h.filter /\ ~h.trapsVoid
         => "late" \notin h.kinds \/ Trapped \cap h.kinds = {}

\* What PRoot's filter does with a call: allow it, report it, report it and
\* ask for its exit.
Filter(num) ==
    CASE num \in {"enter", "late", "fails", "clone", "swapped", "other"} -> "trace"
      [] num \in {"exit", "emulated", "chain", "ptrace"}                  -> "traceExit"
      [] OTHER                                                          -> "allow"

\* Calls whose arguments must not reach the kernel untranslated.
NeedHost == {"enter", "late", "other", "swapped"}

\* The result the guest must see.
Expected(c) ==
    CASE c = "fails"                  -> "error"
      [] c \in {"emulated", "ptrace"} -> "emulated"
      [] c = "chain"                  -> "forced"
      [] c = "refused"                -> "refused"
      [] OTHER                        -> "kernel"

VARIABLES
    conf,   \* the host: order of stops, filter installed, void trapped, number settable
    g,      \* PRoot's globals: seccomp_detected, seccomp_after_ptrace_enter
    t,      \* the Tracee structure
    k       \* the process in the kernel

vars == <<conf, g, t, k>>

Regs(num, args, res) == [num |-> num, args |-> args, res |-> res]
NoRegs == Regs("void", "guest", "none")

Init ==
    /\ conf \in Hosts
    /\ g \in [detected : {FALSE}, after : {FALSE, conf.order = "new"}]
    \* PROOT_ASSUME_NEW_SECCOMP is for hosts that trap void calls when PRoot
    \* installs no filter of its own.
    /\ conf.trapsVoid /\ conf.order = "new" /\ ~conf.filter => g.after
    /\ t = [status |-> 0, restart |-> "none", last |-> "SYSCALL",
            seccomp |-> "DISABLED", exitPending |-> FALSE, already |-> FALSE,
            skip |-> FALSE, chain |-> "NULL", queue |-> <<>>, force |-> FALSE,
            workaround |-> "INACTIVE", suppressed |-> 0,
            restore |-> FALSE, restoreSeccomp |-> FALSE,
            cur |-> NoRegs, orig |-> NoRegs, mod |-> NoRegs, rewrite |-> NoRegs,
            signal |-> 0]
    /\ k = [pc |-> "user", ev |-> "none", sig |-> 0, sigsys |-> "none",
            rerun |-> FALSE, how |-> "SYSCALL", regs |-> NoRegs,
            asked |-> "none", answer |-> "none", calls |-> 0, sent |-> 0,
            got |-> 0]

-------------------------------------------------------------------------------
(***************************************************************************)
(* The kernel.  A call passes the stages "enter" and "seccomp" (in this    *)
(* order since Linux 4.8, in the other before), "body" and "exit", then    *)
(* the tracee is on its way "back" to user code.                           *)
(***************************************************************************)
Stages == IF conf.order = "new" THEN <<"enter", "seccomp", "body", "exit", "back">>
                                ELSE <<"seccomp", "enter", "body", "exit", "back">>
After(pc) == LET i == CHOOSE i \in 1..4 : Stages[i] = pc IN Stages[i + 1]

Running == k.ev = "none"

\* The guest makes a call; its first one is the execve(2) of launch_process().
GuestCall(c) ==
    /\ Running /\ k.pc = "user" /\ k.calls < MaxCalls
    /\ k.calls = 0 => c = "exit"
    /\ k' = [k EXCEPT !.pc = Stages[1], !.regs = Regs(c, "guest", "none"),
                      !.asked = c, !.calls = @ + 1]
    /\ UNCHANGED <<conf, g, t>>

\* A stop at a stage is reported only if the tracee was restarted for it.
EnterStop ==
    /\ Running /\ k.pc \in {"enter", "exit"}
    /\ k' = [k EXCEPT !.pc = After(k.pc),
                      !.ev = IF k.how = "SYSCALL" THEN "syscall" ELSE "none"]
    /\ UNCHANGED <<conf, g, t>>

TrappedNow == \/ k.regs.num \in Trapped
              \/ k.regs.num = "void" /\ conf.trapsVoid

\* The policy of the host goes before PRoot's filter.
SeccompAllows ==
    /\ Running /\ k.pc = "seccomp" /\ ~TrappedNow
    /\ k' = [k EXCEPT !.pc = After("seccomp"),
                      !.ev = IF conf.filter /\ Filter(k.regs.num) # "allow"
                             THEN "seccomp" ELSE "none"]
    /\ UNCHANGED <<conf, g, t>>

\* A trapped call is not executed and SIGSYS is pending; the exit may or may
\* not be reported.
SeccompTraps ==
    /\ Running /\ k.pc = "seccomp" /\ TrappedNow
    /\ \E pc \in {"exit", "back"} :
         /\ conf.order = "old" => pc = "back"
         /\ pc = "back" => conf.order = "old" \/ conf.skips
         /\ k' = [k EXCEPT !.pc = pc, !.sigsys = k.regs.num, !.regs.res = "none"]
    /\ UNCHANGED <<conf, g, t>>

\* A void call leaves the result register alone.
Body ==
    /\ Running /\ k.pc = "body"
    /\ k' = [k EXCEPT !.pc = "exit",
                      !.ev = IF k.regs.num = "clone" THEN "fork" ELSE "none",
                      !.regs.res = IF k.regs.num = "void" THEN @
                                   ELSE IF k.regs.args = "bad" THEN "einval"
                                   ELSE "kernel"]
    /\ UNCHANGED <<conf, g, t>>

\* Signals are delivered on the way back and in user code.
SigsysArrives ==
    /\ Running /\ k.pc = "back" /\ k.sigsys # "none"
    /\ k' = [k EXCEPT !.ev = "sigsys"]
    /\ UNCHANGED <<conf, g, t>>

SignalArrives ==
    /\ Running /\ k.pc \in {"back", "user"} /\ k.sigsys = "none"
    /\ k.sent < MaxSignals
    /\ k' = [k EXCEPT !.ev = "signal", !.sig = k.sent + 1, !.sent = @ + 1]
    /\ UNCHANGED <<conf, g, t>>

\* Back in user code: the trap instruction again if PRoot moved the
\* instruction pointer back to it, otherwise the guest sees the result.
Back ==
    /\ Running /\ k.pc = "back" /\ k.sigsys = "none"
    /\ k' = IF k.rerun THEN [k EXCEPT !.pc = Stages[1], !.rerun = FALSE]
            ELSE [k EXCEPT !.pc = "user", !.asked = "none", !.answer = k.regs.res]
    /\ UNCHANGED <<conf, g, t>>

Kernel == EnterStop \/ SeccompAllows \/ SeccompTraps \/ Body \/ SigsysArrives \/ Back

-------------------------------------------------------------------------------
(***************************************************************************)
(* Handlers work on h = [t |-> the tracee, k |-> the process].             *)
(***************************************************************************)

\* The enter handlers, on the current registers.
EnterHandler(u) ==
    CASE u.cur.num \in {"enter", "other", "blocked"} -> [u EXCEPT !.cur.args = "host"]
      [] u.cur.num = "late" -> [u EXCEPT !.cur.args = "host", !.exitPending = TRUE,
                                         !.restart = "SYSCALL"]
      [] u.cur.num = "emulated" -> [u EXCEPT !.cur.num = "void", !.cur.res = "emulated"]
      [] u.cur.num = "ptrace"   -> [u EXCEPT !.cur.num = "void"]
      [] u.cur.num = "swapped"  -> [u EXCEPT !.cur.num = "other", !.cur.args = "host"]
      [] OTHER -> u

\* A status below 0 is written 2, one that keeps the exit stage 1.
EnterStatus(u) == IF u.cur.num = "fails" THEN 2 ELSE 1

\* The exit handlers: the number of the call is that of the original bank.
ExitHandler(u) ==
    IF u.status = 2 THEN [u EXCEPT !.cur.res = "error"]
    ELSE LET v == IF u.mod.num = "void" /\ u.orig.num # "void"
                  THEN [u EXCEPT !.cur.res = u.mod.res] ELSE u
         IN CASE u.orig.num = "chain" ->
                   [v EXCEPT !.chain = "list", !.force = TRUE,
                             !.queue = @ \o [i \in 1..ChainLength |->
                                             [num |-> "chained", args |-> "host"]]]
              [] u.orig.num = "ptrace" ->
                   [v EXCEPT !.cur.res = "emulated",
                             !.seccomp = IF @ = "ENABLED" THEN "DISABLING" ELSE @]
              [] u.orig.num = "late" ->
                   [v EXCEPT !.exitPending = TRUE, !.restart = "SYSCALL"]
              [] OTHER -> v

\* Mutant: the call that was inserted stays in the list.
ChainNext_Repeats(h) ==
    LET u == h.t IN
    IF u.queue = <<>>
    THEN [h EXCEPT !.t = [u EXCEPT !.chain = "NULL", !.force = FALSE]]
    ELSE [t |-> [u EXCEPT !.restore = FALSE, !.restart = "SYSCALL",
                          !.cur.num = Head(u.queue).num, !.cur.args = Head(u.queue).args],
          k |-> [h.k EXCEPT !.rerun = TRUE]]

\* chain_next_syscall(): the last one forces the result of the first call.
ChainNext(h) ==
    LET u == h.t IN
    IF u.queue = <<>>
    THEN [h EXCEPT !.t = [u EXCEPT !.chain = "NULL", !.force = FALSE,
                             !.cur.res = IF u.force THEN "forced" ELSE @]]
    ELSE [t |-> [u EXCEPT !.queue = Tail(@), !.restore = FALSE, !.restart = "SYSCALL",
                          !.cur.num = Head(u.queue).num, !.cur.args = Head(u.queue).args],
          k |-> [h.k EXCEPT !.rerun = TRUE]]

\* push_specific_regs(): at the end of a call its original registers come
\* back, those from before the SIGSYS if the call replaced a blocked one.
Push(h) ==
    LET u    == h.t
        from == IF u.restoreSeccomp THEN u.rewrite ELSE u.orig
    IN IF u.restore
       THEN LET v == [u EXCEPT !.restoreSeccomp = FALSE, !.cur.num = from.num,
                               !.cur.args = from.args]
            IN [t |-> v, k |-> [h.k EXCEPT !.regs = v.cur]]
       ELSE [h EXCEPT !.k.regs = u.cur]

\* Without the number of the call, which not every kernel lets a tracer set
\* in the middle of a call.
PushArgs(h) == [h EXCEPT !.k.regs = [h.t.cur EXCEPT !.num = h.k.regs.num]]

\* Mutant: a call whose exit is not reported stays entered.
EnterStage_KeepsStatus(h) ==
    LET u == [h.t EXCEPT !.cur = h.k.regs, !.restore = FALSE, !.status = EnterStatus(h.t)]
        w == EnterHandler([u EXCEPT !.orig = u.cur])
    IN IF u.chain # "NULL" THEN [h EXCEPT !.t = [u EXCEPT !.status = 1, !.restart = "SYSCALL"]]
       ELSE [h EXCEPT !.t = [w EXCEPT !.mod = w.cur]]

\* The part of translate_syscall() for the enter stage, up to the push.
EnterStage(h) ==
    LET u == [h.t EXCEPT !.cur = h.k.regs, !.restore = FALSE]
        asked == u.chain = "NULL"
        v == IF asked
             THEN LET w == EnterHandler([u EXCEPT !.orig = u.cur])
                  IN [w EXCEPT !.mod = w.cur]
             ELSE [u EXCEPT !.restart = "SYSCALL"]
        status == IF asked THEN EnterStatus(u) ELSE 1
        x == IF status = 2 THEN [v EXCEPT !.cur.num = "void", !.cur.res = "error"] ELSE v
    IN [h EXCEPT !.t = [x EXCEPT !.status = IF x.restart = "CONT" THEN 0 ELSE status]]

\* The workaround for a number that could not be set: the call is made to
\* fail with invalid arguments, and the wanted one follows as a chained call.
NumberStuck(h, suppressed) ==
    LET u == h.t
        v == IF u.cur.num # "void"
             THEN [u EXCEPT !.workaround = "FAULTY", !.chain = "list",
                            !.queue = <<[num |-> u.cur.num, args |-> u.cur.args]>> \o @]
             ELSE IF suppressed # 0
             THEN [u EXCEPT !.status = suppressed, !.restart = "SYSCALL"]
             ELSE u
    IN PushArgs([h EXCEPT !.t = [v EXCEPT !.cur.args = "bad"]])

TranslateEnter(h) ==
    LET e == EnterStage(h)
        suppressed == IF e.t.restart = "CONT" THEN EnterStatus([cur |-> h.k.regs]) ELSE 0
    IN IF e.t.chain # "NULL" THEN PushArgs(e)
       ELSE IF ~conf.canSet /\ e.t.cur.num # e.t.orig.num THEN NumberStuck(e, suppressed)
       ELSE Push(e)

TranslateExit(h) ==
    LET u == [h.t EXCEPT !.cur = h.k.regs, !.restore = TRUE]
        v == IF u.chain = "NULL" \/ u.workaround = "REPLACED"
             THEN ExitHandler([u EXCEPT !.workaround = "INACTIVE"])
             ELSE IF u.workaround = "FAULTY" THEN [u EXCEPT !.workaround = "REPLACED"]
             ELSE u
        x == [h EXCEPT !.t = [v EXCEPT !.status = 0]]
    IN Push(IF v.chain # "NULL" THEN ChainNext(x) ELSE x)

TranslateSyscall(h) == IF h.t.status = 0 THEN TranslateEnter(h) ELSE TranslateExit(h)

Chaining(u) == u.chain # "NULL" \/ u.restoreSeccomp

\* Mutant: a chain does not keep the exits.
ExitNecessary_PendingOnly(u) == u.exitPending

\* The default: only the next call the filter reports, unless an exit is due.
ExitNecessary(u) == u.exitPending \/ Chaining(u)
Default(u) == IF u.restart # "none" THEN u
              ELSE [u EXCEPT !.restart = IF u.seccomp = "ENABLED" /\ ~ExitNecessary(u)
                                         THEN "CONT" ELSE "SYSCALL"]
-------------------------------------------------------------------------------
(* SIGTRAP | 0x80: the entry or the exit of a call. *)

\* The signal that came during a chain is injected when it is over.
Redelivered(h) ==
    IF h.t.suppressed # 0 /\ ~Chaining(h.t)
    THEN [h EXCEPT !.t.signal = h.t.suppressed, !.t.suppressed = 0] ELSE h

SyscallStop(h0) ==
    LET enter == h0.t.status = 0
        u == h0.t
        h == [h0 EXCEPT !.t = IF u.seccomp = "ENABLED"
                              THEN [u EXCEPT !.restart = IF enter THEN "SYSCALL" ELSE "CONT",
                                             !.exitPending = enter]
                              ELSE u]
        x == IF u.already
             THEN [h EXCEPT !.t.already = FALSE, !.t.restart = "SYSCALL"]
             ELSE LET y == TranslateSyscall(h)
                  IN Redelivered([y EXCEPT !.t.skip = IF enter THEN g.after /\ y.t.cur.num = "void"
                                                      ELSE @])
    IN IF u.seccomp = "DISABLING"
       THEN [h0 EXCEPT !.t.seccomp = "DISABLED", !.t.status = IF enter THEN 1 ELSE @]
       ELSE IF x.t.seccomp = "DISABLING"
       THEN [x EXCEPT !.t.restart = "SYSCALL", !.t.seccomp = "DISABLED"]
       ELSE x

(* PTRACE_EVENT_SECCOMP: the filter reports a call. *)

\* Mutant: the entry that follows counts as handled on every kernel.
SeccompStop_Already(h0, after) ==
    LET u == [h0.t EXCEPT !.skip = FALSE, !.seccomp = "ENABLED"]
        x == TranslateSyscall([h0 EXCEPT !.t = [u EXCEPT !.restart = "SYSCALL"]])
    IN IF after /\ u.status # 0 THEN [h0 EXCEPT !.t = [u EXCEPT !.restart = u.last]]
       ELSE [x EXCEPT !.t.restart = "SYSCALL", !.t.already = TRUE]

SeccompStop(h0, after) ==
    LET first == ~g.detected
        u == [h0.t EXCEPT !.skip = FALSE, !.seccomp = IF first THEN "ENABLED" ELSE @]
        h == [h0 EXCEPT !.t = u]
        needExit == Filter(h0.k.regs.num) = "traceExit" \/ ExitNecessary(h0.t)
        now == TranslateSyscall([h EXCEPT !.t.restart = "CONT"])
        x == IF now.t.exitPending \/ now.t.seccomp = "DISABLING"
             THEN [now EXCEPT !.t.restart = "SYSCALL"] ELSE now
    IN IF after /\ u.status # 0 THEN [h EXCEPT !.t.restart = u.last]
       ELSE IF u.seccomp # "ENABLED" THEN h
       ELSE IF needExit
       THEN LET y == IF after THEN TranslateSyscall([h EXCEPT !.t.restart = "SYSCALL"]) ELSE h
            IN [y EXCEPT !.t.restart = "SYSCALL"]
       ELSE [x EXCEPT !.t.already = IF ~after /\ x.t.restart = "SYSCALL" THEN TRUE ELSE @]

(* SIGSYS: handle_seccomp_event() retries the call as another one, or gives *)
(* its result.                                                              *)
HandleSeccompEvent(h) ==
    LET u == [h.t EXCEPT !.status = 0, !.restore = FALSE, !.cur = h.k.regs,
                         !.rewrite = h.k.regs]
    IN IF u.cur.num = "blocked"
       THEN Push([t |-> [u EXCEPT !.cur.num = "other", !.restoreSeccomp = TRUE,
                                  !.restart = "SYSCALL"],
                  k |-> [h.k EXCEPT !.rerun = TRUE]])
       ELSE Push([h EXCEPT !.t = [u EXCEPT !.cur.res = IF u.cur.num = "refused"
                                                       THEN "refused" ELSE "enosys"]])

\* Mutant: the SIGSYS of a call that PRoot voided is not told apart.
SigsysStop_Loud(h0) ==
    LET h == IF h0.t.status # 0 THEN TranslateSyscall(h0) ELSE h0
    IN [HandleSeccompEvent(h) EXCEPT !.k.sigsys = "none"]

SigsysStop(h0) ==
    LET h == IF h0.t.status # 0 THEN TranslateSyscall(h0) ELSE h0
        quiet == h.t.skip \/ (g.after /\ h.k.sigsys = "void")
        x == IF quiet THEN [h EXCEPT !.t.skip = FALSE] ELSE HandleSeccompEvent(h)
    IN [x EXCEPT !.k.sigsys = "none"]

(* Other signals wait for the end of a chain, in a slot for one.            *)
SignalStop(h) ==
    IF Chaining(h.t) THEN [h EXCEPT !.t.suppressed = h.k.sig]
    ELSE [h EXCEPT !.t.signal = h.k.sig]
-------------------------------------------------------------------------------

\* restart_tracee() after the handler: a signal is injected.
Restart(h) ==
    /\ t' = [h.t EXCEPT !.last = h.t.restart, !.restart = "none", !.signal = 0]
    /\ k' = [h.k EXCEPT !.ev = "none", !.sig = 0, !.how = h.t.restart,
                        !.got = IF h.t.signal # 0 THEN h.t.signal ELSE @]

Stopped == [t |-> Default(t), k |-> k]

HandleSyscall == /\ k.ev = "syscall"
                 /\ \E h \in {SyscallStop(Stopped)} : Restart(h)
                 /\ UNCHANGED <<conf, g>>

HandleSeccomp ==
    /\ k.ev = "seccomp"
    /\ LET after == IF g.detected THEN g.after ELSE t.status # 0
       IN /\ g' = [detected |-> TRUE, after |-> after]
          /\ \E h \in {SeccompStop(Stopped, after)} : Restart(h)
    /\ UNCHANGED conf

HandleSigsys == /\ k.ev = "sigsys"
                /\ \E h \in {SigsysStop(Stopped)} : Restart(h)
                /\ UNCHANGED <<conf, g>>

HandleSignal == /\ k.ev = "signal"
                /\ \E h \in {SignalStop(Stopped)} : Restart(h)
                /\ UNCHANGED <<conf, g>>

\* new_child() does not touch the parent's flow of system calls.
HandleFork == /\ k.ev = "fork"
              /\ Restart(Stopped)
              /\ UNCHANGED <<conf, g>>

EventLoop == HandleSyscall \/ HandleSeccomp \/ HandleSigsys \/ HandleSignal \/ HandleFork

Done == /\ Running /\ k.pc = "user" /\ k.calls = MaxCalls
        /\ UNCHANGED vars

Next == \/ \E c \in conf.kinds : GuestCall(c)
        \/ SignalArrives
        \/ Kernel \/ EventLoop \/ Done

\* The kernel goes on with a tracee that runs, and the event loop comes round to
\* one that is stopped: what WF_vars(EventLoop) says, which is enabled exactly
\* while the tracee is stopped and restarts it.
Spec == Init /\ [][Next]_vars /\ WF_vars(Kernel) /\ []<>Running
-------------------------------------------------------------------------------
TypeOK ==
    /\ conf \in Hosts
    /\ g \in [detected : BOOLEAN, after : BOOLEAN]
    /\ t.status \in 0..2 /\ t.restart = "none" /\ t.last \in {"CONT", "SYSCALL"}
    /\ t.seccomp \in {"DISABLED", "DISABLING", "ENABLED"}
    /\ t.suppressed \in 0..MaxSignals
    /\ k.pc \in {"user", "enter", "seccomp", "body", "exit", "back"}
    /\ k.ev \in {"none", "syscall", "seccomp", "sigsys", "signal", "fork"}

\* Nothing the kernel executes has a path of the guest in it: a call that needs
\* translation was translated first, whichever stop it was noticed at.
NothingUntranslated ==
    k.pc = "body" /\ Running /\ k.regs.num \in NeedHost => k.regs.args # "guest"

\* Whenever the guest runs its own code PRoot waits for the entry of a call, and
\* no chain, no bank to restore and no suppressed signal is left over.
UserIsClean ==
    k.pc = "user" /\ Running
      => t.status = 0 /\ t.chain = "NULL" /\ ~t.restoreSeccomp /\ t.suppressed = 0

\* The latest signal that was sent is delivered before the guest goes on, were
\* it suppressed during a chain of calls or not.
LatestDelivered == k.pc = "user" /\ Running => k.got = k.sent

\* The assertions of handle_tracee_event() on the stage it is in.
Asserts ==
    /\ k.ev = "syscall" /\ t.already => t.status # 0 /\ ~g.after
    /\ k.ev = "seccomp" /\ g.detected =>
         IF g.after THEN t.status # 0 => t.last # "CONT" ELSE t.status = 0

StagesAgree == TypeOK /\ Asserts /\ LatestDelivered

\* Every call is answered once, with the result of its kind: the steps of the
\* kernel and of PRoot in between are invisible to the guest.
Promise == INSTANCE GuestCalls WITH asked <- k.asked, answer <- k.answer
Promised == Promise!Spec

\* And it is answered at last.
Answered == k.asked # "none" ~> k.asked = "none"
===============================================================================
