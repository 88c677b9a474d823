-------------------------- MODULE SyscallFlowProofs --------------------------
(***************************************************************************)
(* Proofs about SyscallFlow: on every host that serves its guests          *)
(* (Served), whatever calls a guest makes and however many signals arrive, *)
(* the assertions of the event loop hold, no call is executed before it    *)
(* was translated, nothing of one call is left over for the next, and      *)
(* every call is answered with the result of its kind.                     *)
(*                                                                         *)
(* The invariant follows a call of the guest through twelve phases.  Each  *)
(* phase says where the kernel is, what PRoot remembers of the call, and   *)
(* that the registers are those the phase before left.                     *)
(***************************************************************************)
EXTENDS SyscallFlow, SequenceTheorems, TLAPS

\* The types of the records.
Numbers == Kinds \cup Inserted
Bank == [num : Numbers, args : {"guest", "host", "bad"},
         res : {"none", "kernel", "error", "emulated", "einval", "refused", "enosys", "forced"}]
Tracee == [status : 0..2, restart : {"none", "CONT", "SYSCALL"}, last : {"CONT", "SYSCALL"},
           seccomp : {"DISABLED", "DISABLING", "ENABLED"}, exitPending : BOOLEAN,
           already : BOOLEAN, skip : BOOLEAN, chain : {"NULL", "list"},
           queue : Seq([num : Numbers, args : {"guest", "host", "bad"}]), force : BOOLEAN,
           workaround : {"INACTIVE", "FAULTY", "REPLACED"}, suppressed : Nat,
           restore : BOOLEAN, restoreSeccomp : BOOLEAN,
           cur : Bank, orig : Bank, mod : Bank, rewrite : Bank, signal : Nat]
Process == [pc : {"user", "enter", "seccomp", "body", "exit", "back"},
            ev : {"none", "syscall", "seccomp", "sigsys", "signal", "fork"}, sig : Nat,
            sigsys : Numbers \cup {"none"}, rerun : BOOLEAN, how : {"CONT", "SYSCALL"},
            regs : Bank, asked : Kinds \cup {"none"},
            answer : {"none", "kernel", "error", "emulated", "einval", "refused", "enosys", "forced"},
            calls : Nat, sent : Nat, got : Nat]
Pairs == [t : Tracee, k : Process]
-------------------------------------------------------------------------------
(* What PRoot makes of a call.                                             *)

\* The registers after the enter handler, and with the call that failed voided.
Handled(n) ==
    CASE n \in {"enter", "other", "blocked", "late"} -> Regs(n, "host", "none")
      [] n = "emulated" -> Regs("void", "guest", "emulated")
      [] n = "ptrace"   -> Regs("void", "guest", "none")
      [] n = "swapped"  -> Regs("other", "host", "none")
      [] OTHER          -> Regs(n, "guest", "none")
Wanted(n) == IF n = "fails" THEN Regs("void", "guest", "error") ELSE Handled(n)

\* The number of the call can be set, or need not be.
Settable(n) == conf.canSet \/ Wanted(n).num = n

\* The registers the kernel goes on with, and those it leaves behind.
Given(n) == IF Settable(n) THEN Wanted(n) ELSE Regs(n, "bad", Wanted(n).res)
RanRes(r) == CASE r.num = "void" -> r.res
               [] r.num # "void" /\ r.args = "bad" -> "einval"
               [] OTHER -> "kernel"
Ran(r) == IF k.pc \in {"exit", "back"} THEN Regs(r.num, r.args, RanRes(r)) ELSE r
-------------------------------------------------------------------------------
(* The phases of a call.                                                   *)

Filtering == t.seccomp = "ENABLED"

\* No call of PRoot's own is under way; nor is a SIGSYS or a second try.
Idle == t.chain = "NULL" /\ t.queue = <<>> /\ ~t.force /\ t.workaround = "INACTIVE"
Plain == k.sigsys = "none" /\ ~k.rerun

\* An exit that is still due is the one a "late" call asked for.
Late == Filtering => t.exitPending /\ "late" \in conf.kinds
Steady == IF k.how = "SYSCALL" THEN Late ELSE ~t.exitPending

\* The call in the registers: the guest's, or the one tried instead of it.
Current == IF t.restoreSeccomp THEN "other" ELSE k.asked

\* In user code.
User ==
    /\ k.pc = "user" /\ k.ev \in {"none", "signal"} /\ k.asked = "none"
    /\ t.status = 0 /\ ~t.restoreSeccomp /\ ~t.already
    /\ Idle /\ Plain /\ Steady

\* Made, and not seen by PRoot yet.
FreshAt ==
    IF conf.order = "new"
    THEN \/ k.pc = "enter" /\ k.ev = "none"
         \/ k.pc = "seccomp" /\ k.ev = "syscall" /\ k.how = "SYSCALL"
         \/ k.pc = "seccomp" /\ k.ev = "none" /\ k.how = "CONT"
         \/ k.pc = "body" /\ k.ev = "seccomp" /\ k.how = "CONT" /\ Filter(Current) # "allow"
    ELSE \/ k.pc = "seccomp" /\ k.ev = "none"
         \/ k.pc = "enter" /\ k.ev = "seccomp" /\ Filter(Current) # "allow"
         \/ k.pc = "enter" /\ k.ev = "none" /\ k.how = "SYSCALL" /\ Current \notin Trapped
         \/ k.pc = "body" /\ k.ev = "syscall" /\ k.how = "SYSCALL" /\ Current \notin Trapped
Fresh ==
    /\ k.asked \in conf.kinds /\ t.status = 0 /\ ~t.already
    /\ Idle /\ Plain /\ FreshAt
    /\ k.regs = Regs(Current, "guest", "none")
    /\ k.how = "CONT" => ~t.exitPending /\ ~t.restoreSeccomp
    /\ (conf.order = "new" \/ k.pc = "seccomp") /\ ~t.restoreSeccomp => Steady

\* Seen at its entry; PRoot waits for the exit.
EnteredAt ==
    /\ k.how = "SYSCALL" /\ Plain
    /\ \/ k.pc = "seccomp" /\ k.ev = "none" /\ conf.order = "new"
       \/ k.pc = "body" /\ k.ev = "none"
       \/ k.pc = "body" /\ k.ev = "seccomp" /\ conf.order = "new"
       \/ k.pc = "exit" /\ k.ev \in {"none", "fork"}
       \/ k.pc = "back" /\ k.ev = "syscall"
Banks(n) == /\ t.orig.num = n /\ t.orig.args = "guest" /\ t.mod = Handled(n)
            /\ t.status = IF n = "fails" THEN 2 ELSE 1
Entered ==
    /\ k.asked \in conf.kinds /\ Banks(Current) /\ ~t.already
    /\ Idle /\ EnteredAt
    /\ k.regs = Ran(Given(Current)) /\ (Current = "swapped" => conf.canSet)
    /\ k.pc # "seccomp" => Current \notin Trapped
    /\ k.ev = "fork" => Current = "clone"
    /\ k.ev = "seccomp" => Filter(Given(Current).num) # "allow"
    /\ Current = "clone" /\ Filtering => t.exitPending
    /\ Current \in Trapped => ~t.skip
    /\ t.skip => Wanted(Current).num = "void"
    /\ k.pc = "seccomp" /\ ~t.restoreSeccomp => Late
    /\ k.pc # "seccomp" /\ t.skip /\ Filtering => Late /\ ~conf.trapsVoid

\* Seen by the filter, which asked for the entry as well.
Seen ==
    /\ k.asked = "late" /\ k.asked \in conf.kinds /\ Banks("late") /\ t.already
    /\ conf.order = "old" /\ Filtering /\ ~t.skip /\ ~t.restoreSeccomp
    /\ Idle /\ Plain /\ k.regs = Handled("late") /\ k.how = "SYSCALL"
    /\ \/ k.pc = "enter" /\ k.ev = "none"
       \/ k.pc = "body" /\ k.ev = "syscall"

\* Translated or let through by the filter; its exit will not be seen.
Through ==
    /\ k.asked \in conf.kinds \cap {"untraced", "enter", "fails", "clone", "swapped"}
    /\ t.status = 0 /\ ~t.already /\ ~t.restoreSeccomp /\ ~t.exitPending
    /\ Idle /\ Plain /\ Filtering /\ k.how = "CONT" /\ k.regs = Ran(Wanted(k.asked))
    /\ \/ k.pc = "enter" /\ k.ev = "none" /\ conf.order = "old"
       \/ k.pc \in {"body", "exit"} /\ k.ev = "none"
       \/ k.pc = "exit" /\ k.ev = "fork"

\* Trapped after PRoot saw the entry.
Caught ==
    /\ k.asked \in conf.kinds /\ Banks(k.asked) /\ ~t.already /\ ~t.restoreSeccomp
    /\ conf.order = "new" /\ Idle /\ ~k.rerun /\ k.how = "SYSCALL" /\ Late
    /\ k.sigsys = Given(k.asked).num
    /\ k.regs = Regs(Given(k.asked).num, Given(k.asked).args, "none")
    /\ IF k.sigsys \in Trapped THEN ~t.skip ELSE k.sigsys = "void" /\ conf.trapsVoid
    /\ \/ k.pc = "exit" /\ k.ev = "none"
       \/ k.pc = "back" /\ k.ev = "syscall"
       \/ k.pc = "back" /\ k.ev \in {"none", "sigsys"} /\ conf.skips

\* Trapped, with no exit handler to come: PRoot answers it at SIGSYS, or has
\* answered a void call.
Trapping ==
    /\ k.asked \in conf.kinds /\ t.status = 0 /\ ~t.already /\ ~t.restoreSeccomp
    /\ Idle /\ ~k.rerun /\ Steady
    /\ \/ /\ k.sigsys \in Trapped /\ k.sigsys = k.asked /\ ~t.skip
          /\ k.regs = Regs(k.asked, "guest", "none")
       \/ k.sigsys = "void" /\ k.regs.res = Expected(k.asked) /\ g.after
    /\ \/ k.pc = "exit" /\ k.ev = "none" /\ k.how = "CONT" /\ k.sigsys # "void"
       \/ k.pc = "back" /\ k.ev \in {"none", "sigsys"}

\* On the way back, to be made again as another call.
Retry ==
    /\ k.asked = "blocked" /\ k.asked \in conf.kinds
    /\ t.status = 0 /\ ~t.already /\ t.restoreSeccomp
    /\ Idle /\ k.rerun /\ k.sigsys = "none" /\ k.how = "SYSCALL"
    /\ k.regs = Regs("other", "guest", "none")
    /\ k.pc = "back" /\ k.ev \in {"none", "signal"}

\* On the way back, with its result.
Finished ==
    /\ k.asked \in conf.kinds /\ k.regs.res = Expected(k.asked)
    /\ t.status = 0 /\ ~t.already /\ ~t.restoreSeccomp
    /\ Idle /\ Plain /\ Steady
    /\ k.pc = "back" /\ k.ev \in {"none", "signal"}

\* A call of PRoot's own: on its way to the entry, or entered.
AgainAt ==
    /\ k.how = "SYSCALL" /\ k.sigsys = "none"
    /\ IF k.rerun THEN k.pc = "back" /\ k.ev \in {"none", "signal"}
       ELSE \/ k.pc = "enter" /\ k.ev = "none"
            \/ k.pc = "seccomp" /\ k.ev = (IF conf.order = "new" THEN "syscall" ELSE "none")
            \/ k.pc = "body" /\ k.ev = "syscall" /\ conf.order = "old"
Inserting(n) ==
    /\ k.asked = n /\ n \in conf.kinds
    /\ t.orig.num = n /\ t.orig.args = "guest" /\ t.mod = Handled(n)
    /\ t.chain = "list" /\ ~t.already /\ ~t.restoreSeccomp
    /\ \/ t.status = 0 /\ AgainAt
       \/ t.status = 1 /\ EnteredAt /\ k.ev \in {"none", "syscall"} /\ ~t.skip

\* One of a chain; the last one forces the result.
Chained ==
    /\ Inserting("chain") /\ t.force /\ t.workaround = "INACTIVE"
    /\ t.queue \in Seq({[num |-> "chained", args |-> "host"]})
    /\ k.regs = Regs("chained", "host", "kernel")

\* The call whose number could not be set, and the one that follows it.
Faulty ==
    /\ Inserting("swapped") /\ ~conf.canSet /\ ~t.force
    /\ t.workaround = "FAULTY" /\ t.status = 1
    /\ t.queue = <<[num |-> "other", args |-> "host"]>>
    /\ k.regs = Ran(Regs("swapped", "bad", "none"))
Replaced ==
    /\ Inserting("swapped") /\ ~conf.canSet /\ ~t.force
    /\ t.workaround = "REPLACED" /\ t.queue = <<>>
    /\ k.regs = Regs("other", "host", IF t.status = 1 /\ k.pc \in {"exit", "back"}
                                      THEN "kernel" ELSE "einval")

Phases == \/ User \/ Fresh \/ Entered \/ Seen \/ Through \/ Caught \/ Trapping
          \/ Retry \/ Finished \/ Chained \/ Faulty \/ Replaced
-------------------------------------------------------------------------------
(* What holds in every phase.                                              *)

Shape ==
    /\ conf \in Hosts /\ g \in [detected : BOOLEAN, after : BOOLEAN]
    /\ t \in Tracee /\ k \in Process
    /\ t.restart = "none" /\ t.signal = 0 /\ t.last = k.how
    /\ t.seccomp # "DISABLING" /\ (~Filtering => k.how = "SYSCALL")

\* The order of the stops is found out at the first report of the filter, during
\* the first call.
Detection ==
    /\ ~conf.filter => ~g.detected /\ (conf.trapsVoid /\ conf.order = "new" => g.after)
    /\ ~g.detected => ~Filtering
    /\ g.detected => (g.after <=> conf.order = "new")
    /\ g.after => conf.order = "new"
    /\ conf.filter /\ ~g.detected /\ k.calls # 0 =>
         /\ k.asked = "exit"
         /\ \/ k.pc = "enter" /\ conf.order = "new"
            \/ k.pc = "seccomp" \/ k.ev = "seccomp"
    /\ k.ev = "seccomp" => conf.filter
    /\ (k.calls = 0 => k.pc = "user")

\* The SIGSYS that is to be dropped is not that of a call PRoot has to answer.
SkipRight ==
    t.skip => /\ conf.order = "new" /\ g.after
              /\ \/ Trapped \cap conf.kinds = {} \/ ~Filtering
                 \/ t.exitPending \/ k.sigsys = "void"

Standing == t.restoreSeccomp => /\ k.asked = "blocked" /\ t.rewrite.num = "blocked"
                                /\ t.rewrite.args = "guest"

\* Of the signals that were sent the latest is delivered, pending or kept.
Signals ==
    /\ k.sent \in 0..MaxSignals
    /\ t.suppressed \in 0..k.sent /\ (t.suppressed # 0 => Chaining(t))
    /\ IF k.ev = "signal" THEN k.sig = k.sent /\ k.sent # 0
       ELSE IF t.suppressed # 0 THEN t.suppressed = k.sent ELSE k.got = k.sent

Common == Shape /\ Detection /\ SkipRight /\ Standing /\ Signals
FlowInv == Common /\ Phases
-------------------------------------------------------------------------------
(* What the handlers of PRoot compute.                                     *)

\* The registers a handler leaves are registers.
LEMMA HandledIs ==
    ASSUME NEW n \in Kinds \cup {"other"}
    PROVE  Handled(n) \in Bank /\ Wanted(n) \in Bank /\ Regs(n, "guest", "none") \in Bank
BY DEF Handled, Wanted, Regs, Bank, Numbers, Kinds, Inserted

\* The fields translate_syscall() leaves alone, and those its handlers may change.
Untouched(u, v) ==
    /\ v.last = u.last /\ v.already = u.already /\ v.skip = u.skip
    /\ v.suppressed = u.suppressed /\ v.signal = u.signal
    /\ v.rewrite = u.rewrite
SameBanks(u, v) ==
    /\ v.orig = u.orig /\ v.mod = u.mod
    /\ v.restore = u.restore /\ v.restoreSeccomp = u.restoreSeccomp
SameChain(u, v) ==
    /\ v.chain = u.chain /\ v.queue = u.queue
    /\ v.force = u.force /\ v.workaround = u.workaround
SameStops(u, v) ==
    /\ v.exitPending = u.exitPending /\ v.restart = u.restart
    /\ v.seccomp = u.seccomp
Alike(u, v) == Untouched(u, v) /\ SameChain(u, v) /\ SameStops(u, v)

\* The enter handler of a call the guest made.
LEMMA EnterHandlerIs ==
    ASSUME NEW u \in Tracee, NEW n \in Kinds \cup {"other"}, u.cur = Regs(n, "guest", "none"),
           NEW e, e = EnterHandler(u)
    PROVE  /\ e \in Tracee /\ e.cur = Handled(n) /\ e.status = u.status
           /\ Untouched(u, e) /\ SameChain(u, e) /\ SameBanks(u, e)
           /\ e.exitPending = IF n = "late" THEN TRUE ELSE u.exitPending
           /\ e.restart = IF n = "late" THEN "SYSCALL" ELSE u.restart
           /\ e.seccomp = u.seccomp
<1> USE DEF Untouched, SameChain, SameBanks, SameStops, Alike
<1>1. Handled(n) \in Bank BY HandledIs
<1>2. CASE n \in {"enter", "other", "blocked"}
  <2>1. e = [u EXCEPT !.cur.args = "host"]
    BY <1>2 DEF EnterHandler, Regs
  <2>2. [u.cur EXCEPT !.args = "host"] = Handled(n) /\ n # "late" BY <1>2 DEF Handled, Regs
  <2> QED BY ONLY <1>1, <2>1, <2>2 DEF Tracee
<1>3. CASE n = "late"
  <2>1. PICK v : v = [u EXCEPT !.cur.args = "host"] OBVIOUS
  <2>2. e = [v EXCEPT !.exitPending = TRUE, !.restart = "SYSCALL"]
    BY <1>3, <2>1 DEF EnterHandler, Regs
  <2>3. [u.cur EXCEPT !.args = "host"] = Handled(n) BY <1>3 DEF Handled, Regs
  <2>4. v \in Tracee /\ v.cur = Handled(n) /\ Alike(u, v) /\ SameBanks(u, v) /\ v.status = u.status
    BY ONLY <1>1, <2>1, <2>3 DEF Tracee
  <2>5. /\ e \in Tracee /\ e.cur = Handled(n) /\ e.status = u.status
        /\ Untouched(u, e) /\ SameChain(u, e) /\ SameBanks(u, e)
        /\ e.exitPending = TRUE /\ e.restart = "SYSCALL" /\ e.seccomp = u.seccomp
    BY ONLY <2>2, <2>4 DEF Tracee
  <2> QED BY ONLY <1>3, <2>5
<1>4. CASE n = "emulated"
  <2>1. PICK v : v = [u EXCEPT !.cur.num = "void"] OBVIOUS
  <2>2. e = [v EXCEPT !.cur.res = "emulated"]
    BY <1>4, <2>1 DEF EnterHandler, Regs
  <2>3. /\ [u.cur EXCEPT !.num = "void"] = Regs("void", "guest", "none")
        /\ [Regs("void", "guest", "none") EXCEPT !.res = "emulated"] = Handled(n)
        /\ Regs("void", "guest", "none") \in Bank
    BY <1>4 DEF Handled, Regs, Bank, Numbers, Inserted
  <2>4. /\ v \in Tracee /\ v.cur = Regs("void", "guest", "none")
        /\ Alike(u, v) /\ SameBanks(u, v) /\ v.status = u.status
    BY ONLY <2>1, <2>3 DEF Tracee
  <2>5. e \in Tracee /\ e.cur = Handled(n) /\ Alike(u, e) /\ SameBanks(u, e) /\ e.status = u.status
    BY ONLY <1>1, <2>2, <2>3, <2>4, SMTT(30) DEF Tracee
  <2> QED BY ONLY <1>4, <2>5
<1>5. CASE n = "ptrace"
  <2>1. e = [u EXCEPT !.cur.num = "void"] BY <1>5 DEF EnterHandler, Regs
  <2>2. [u.cur EXCEPT !.num = "void"] = Handled(n) /\ n # "late" BY <1>5 DEF Handled, Regs
  <2> QED BY ONLY <1>1, <2>1, <2>2 DEF Tracee
<1>6. CASE n = "swapped"
  <2>1. PICK v : v = [u EXCEPT !.cur.num = "other"] OBVIOUS
  <2>2. e = [v EXCEPT !.cur.args = "host"]
    BY <1>6, <2>1 DEF EnterHandler, Regs
  <2>3. /\ [u.cur EXCEPT !.num = "other"] = Regs("other", "guest", "none")
        /\ [Regs("other", "guest", "none") EXCEPT !.args = "host"] = Handled(n)
        /\ Regs("other", "guest", "none") \in Bank
    BY <1>6 DEF Handled, Regs, Bank, Numbers, Inserted
  <2>4. /\ v \in Tracee /\ v.cur = Regs("other", "guest", "none")
        /\ Alike(u, v) /\ SameBanks(u, v) /\ v.status = u.status
    BY ONLY <2>1, <2>3 DEF Tracee
  <2>5. e \in Tracee /\ e.cur = Handled(n) /\ Alike(u, e) /\ SameBanks(u, e) /\ e.status = u.status
    BY ONLY <1>1, <2>2, <2>3, <2>4 DEF Tracee
  <2> QED BY ONLY <1>6, <2>5
<1>7. CASE n \notin {"enter", "other", "blocked", "late", "emulated", "ptrace", "swapped"}
  <2>1. e = u /\ Handled(n) = Regs(n, "guest", "none") /\ n # "late"
    BY <1>7 DEF EnterHandler, Handled, Regs
  <2> QED BY <2>1
<1> QED BY ONLY <1>2, <1>3, <1>4, <1>5, <1>6, <1>7

\* No call of PRoot's own is under way.
AtRest(u) == u.chain = "NULL" /\ u.queue = <<>> /\ ~u.force /\ u.workaround = "INACTIVE"

\* What the enter stage makes of the tracee u for a call of the guest.
AtEntry(u, v, n) ==
    /\ Untouched(u, v) /\ v.seccomp = u.seccomp /\ v.restoreSeccomp = u.restoreSeccomp
    /\ v.orig = Regs(n, "guest", "none") /\ v.mod = Handled(n) /\ v.force = u.force
    /\ v.exitPending = IF n = "late" THEN TRUE ELSE u.exitPending

\* The stage of the call that follows.
StageOf(n) == IF n = "fails" THEN 2 ELSE 1

\* The enter stage hands the call to its handler and keeps both banks.
LEMMA EnterStageIs ==
    ASSUME NEW h \in Pairs, NEW n \in Kinds \cup {"other"}, h.t.chain = "NULL",
           h.k.regs = Regs(n, "guest", "none"), NEW e, e = EnterStage(h)
    PROVE  /\ e \in Pairs /\ e.k = h.k /\ AtEntry(h.t, e.t, n)
           /\ e.t.cur = Wanted(n) /\ e.t.restore = FALSE
           /\ e.t.restart = IF n = "late" THEN "SYSCALL" ELSE h.t.restart
           /\ e.t.status = IF e.t.restart = "CONT" THEN 0 ELSE StageOf(n)
           /\ SameChain(h.t, e.t)
<1> USE DEF Untouched, SameChain, SameBanks, SameStops, Alike
<1>1. PICK u : u = h.t OBVIOUS
<1>2. PICK a : a = [u EXCEPT !.cur = h.k.regs, !.restore = FALSE] OBVIOUS
<1>3. PICK b : b = [a EXCEPT !.orig = a.cur] OBVIOUS
<1>4. PICK w : w = EnterHandler(b) OBVIOUS
<1>5. PICK v : v = [w EXCEPT !.mod = w.cur] OBVIOUS
<1>6. PICK c : c = [v EXCEPT !.cur.num = "void"] OBVIOUS
<1>7. PICK d : d = [c EXCEPT !.cur.res = "error"] OBVIOUS
<1>8. PICK x : x = IF n = "fails" THEN d ELSE v OBVIOUS
<1>9. PICK y : y = [x EXCEPT !.status = IF x.restart = "CONT" THEN 0 ELSE StageOf(n)] OBVIOUS
<1>10. u \in Tracee /\ h.k.regs \in Bank BY <1>1 DEF Pairs, Process
<1>11. /\ a \in Tracee /\ a.cur = Regs(n, "guest", "none") /\ a.restore = FALSE
       /\ Alike(u, a) /\ a.restoreSeccomp = u.restoreSeccomp
  <2>1. h.k.regs = Regs(n, "guest", "none") OBVIOUS
  <2> QED BY ONLY <1>2, <1>10, <2>1 DEF Tracee
<1>12. /\ b \in Tracee /\ b.cur = Regs(n, "guest", "none") /\ b.restore = FALSE
       /\ b.orig = Regs(n, "guest", "none")
       /\ Alike(u, b) /\ b.restoreSeccomp = u.restoreSeccomp
  BY ONLY <1>3, <1>11 DEF Tracee
<1>13. /\ w \in Tracee /\ w.cur = Handled(n) /\ w.restore = FALSE
       /\ w.orig = Regs(n, "guest", "none")
       /\ Untouched(u, w) /\ SameChain(u, w) /\ w.restoreSeccomp = u.restoreSeccomp
       /\ w.exitPending = IF n = "late" THEN TRUE ELSE u.exitPending
       /\ w.restart = IF n = "late" THEN "SYSCALL" ELSE u.restart
       /\ w.seccomp = u.seccomp
  <2>0. b \in Tracee /\ b.cur = Regs(n, "guest", "none") BY ONLY <1>12
  <2>1. /\ w \in Tracee /\ w.cur = Handled(n) /\ w.status = b.status
        /\ Untouched(b, w) /\ SameChain(b, w) /\ SameBanks(b, w)
        /\ w.exitPending = IF n = "late" THEN TRUE ELSE b.exitPending
        /\ w.restart = IF n = "late" THEN "SYSCALL" ELSE b.restart
        /\ w.seccomp = b.seccomp
    <3> HIDE DEF Untouched, SameChain, SameBanks
    <3> QED BY ONLY <1>4, <2>0, EnterHandlerIs, n \in Kinds \cup {"other"}, ZenonT(60)
  <2> QED BY ONLY <1>12, <2>1
<1>14. /\ v \in Tracee /\ v.cur = Handled(n) /\ v.mod = Handled(n)
       /\ Alike(w, v) /\ v.restoreSeccomp = w.restoreSeccomp
       /\ v.orig = w.orig /\ v.restore = w.restore
  BY ONLY <1>5, <1>13 DEF Tracee
<1>15. x \in Tracee /\ x.cur = Wanted(n) /\ Alike(v, x) /\ SameBanks(v, x)
  <2>1. CASE n = "fails"
    <3>1. /\ Handled(n) = Regs(n, "guest", "none") /\ Wanted(n) = Regs("void", "guest", "error")
          /\ [Regs(n, "guest", "none") EXCEPT !.num = "void"] = Regs("void", "guest", "none")
          /\ [Regs("void", "guest", "none") EXCEPT !.res = "error"] = Regs("void", "guest", "error")
          /\ Regs("void", "guest", "none") \in Bank /\ Regs("void", "guest", "error") \in Bank
      BY <2>1 DEF Handled, Wanted, Regs, Bank, Numbers, Inserted
    <3>2. /\ c \in Tracee /\ c.cur = Regs("void", "guest", "none") /\ Alike(v, c) /\ SameBanks(v, c)
      BY ONLY <1>6, <1>14, <3>1 DEF Tracee
    <3>3. PICK r : r = Regs("void", "guest", "error") OBVIOUS
    <3>4. [c.cur EXCEPT !.res = "error"] = r /\ r \in Bank BY ONLY <3>1, <3>2, <3>3
    <3>5. /\ d \in Tracee /\ d.cur = r /\ Alike(c, d) /\ SameBanks(c, d)
      BY ONLY <1>7, <3>2, <3>4 DEF Tracee
    <3>6. x = d /\ Wanted(n) = r BY ONLY <1>8, <2>1, <3>1, <3>3
    <3> QED BY ONLY <3>2, <3>5, <3>6
  <2>2. CASE n # "fails" BY ONLY <1>8, <1>14, <2>2 DEF Wanted
  <2> QED BY ONLY <2>1, <2>2
<1>16. /\ y \in Tracee /\ y.cur = Wanted(n) /\ Alike(x, y) /\ SameBanks(x, y)
       /\ y.status = IF x.restart = "CONT" THEN 0 ELSE StageOf(n)
  <2>1. PICK s : s = IF x.restart = "CONT" THEN 0 ELSE StageOf(n) OBVIOUS
  <2>2. s \in 0..2 BY <2>1 DEF StageOf
  <2>3. y = [x EXCEPT !.status = s] BY ONLY <1>9, <2>1
  <2>4. /\ y \in Tracee /\ y.cur = x.cur /\ Alike(x, y) /\ SameBanks(x, y) /\ y.status = s
    BY ONLY <1>15, <2>2, <2>3 DEF Tracee
  <2> QED BY ONLY <1>15, <2>1, <2>4
<1>17. e = [h EXCEPT !.t = y]
  <2>1. a.cur = Regs(n, "guest", "none") /\ a.chain = "NULL"
    BY ONLY <1>1, <1>11, h.t.chain = "NULL"
  <2>2. EnterStatus(a) = StageOf(n) /\ (StageOf(n) = 2 <=> n = "fails")
    BY ONLY <2>1 DEF EnterStatus, StageOf, Regs
  <2>3. d = [v EXCEPT !.cur.num = "void", !.cur.res = "error"] BY <1>6, <1>7
  <2> QED BY <1>1, <1>2, <1>3, <1>4, <1>5, <1>8, <1>9, <2>1, <2>2, <2>3 DEF EnterStage
<1>18. e \in Pairs /\ e.k = h.k /\ e.t = y
  BY ONLY h \in Pairs, <1>16, <1>17 DEF Pairs
<1>19. /\ Untouched(u, y) /\ SameChain(u, y) /\ y.restoreSeccomp = u.restoreSeccomp
       /\ y.orig = Regs(n, "guest", "none") /\ y.mod = Handled(n) /\ y.restore = FALSE
       /\ y.exitPending = IF n = "late" THEN TRUE ELSE u.exitPending
       /\ y.restart = IF n = "late" THEN "SYSCALL" ELSE u.restart
       /\ y.seccomp = u.seccomp
  BY ONLY <1>13, <1>14, <1>15, <1>16
<1>20. y.cur = Wanted(n) /\ y.status = IF y.restart = "CONT" THEN 0 ELSE StageOf(n)
  BY ONLY <1>16
<1> QED BY ONLY <1>1, <1>18, <1>19, <1>20 DEF AtEntry

\* The translation of an entry: the handler's registers are pushed.  A number
\* that cannot be set stays, and the arguments make the call fail.
LEMMA EntryIs ==
    ASSUME NEW h \in Pairs, NEW n \in Kinds \cup {"other"}, h.t.chain = "NULL",
           h.k.regs = Regs(n, "guest", "none"), NEW y, y = TranslateEnter(h),
           Settable(n) \/ (Wanted(n).num = "void" /\ h.t.restart = "SYSCALL")
    PROVE  /\ y \in Pairs /\ AtEntry(h.t, y.t, n) /\ SameChain(h.t, y.t)
           /\ y.t.restart = IF n = "late" THEN "SYSCALL" ELSE h.t.restart
           /\ y.t.status = IF y.t.restart = "CONT" THEN 0 ELSE StageOf(n)
           /\ y.t.cur.num = Wanted(n).num
           /\ y.k = [h.k EXCEPT !.regs = Given(n)]
<1>1. PICK e : e = EnterStage(h) OBVIOUS
<1>2. /\ e \in Pairs /\ e.k = h.k /\ AtEntry(h.t, e.t, n)
      /\ e.t.cur = Wanted(n) /\ e.t.restore = FALSE
      /\ e.t.restart = IF n = "late" THEN "SYSCALL" ELSE h.t.restart
      /\ e.t.status = IF e.t.restart = "CONT" THEN 0 ELSE StageOf(n)
      /\ SameChain(h.t, e.t)
  BY ONLY <1>1, EnterStageIs, h \in Pairs, n \in Kinds \cup {"other"}, h.t.chain = "NULL",
          h.k.regs = Regs(n, "guest", "none")
<1>3. e.t.orig.num = n /\ e.t.chain = "NULL" BY <1>2 DEF AtEntry, SameChain, Regs
<1>4. CASE Settable(n)
  <2>1. conf.canSet \/ e.t.cur.num = e.t.orig.num BY <1>2, <1>3, <1>4 DEF Settable
  <2>2. y = [e EXCEPT !.k.regs = Wanted(n)]
    BY <1>1, <1>2, <1>3, <2>1 DEF TranslateEnter, Push
  <2>3. Given(n) = Wanted(n) /\ Wanted(n) \in Bank BY <1>4, HandledIs DEF Given
  <2>4. y \in Pairs /\ y.t = e.t /\ y.k = [e.k EXCEPT !.regs = Wanted(n)]
    BY ONLY <1>2, <2>2, <2>3 DEF Pairs, Process
  <2> QED BY ONLY <1>2, <2>3, <2>4
<1>5. CASE ~Settable(n)
  <2>1. PICK r : r = Wanted(n) OBVIOUS
  <2>2. r \in Bank /\ r.num = "void" /\ r.num # n /\ ~conf.canSet
    BY <1>5, <2>1, HandledIs DEF Settable
  <2>3. e.t.restart = "SYSCALL" BY <1>2, <1>5
  <2>4. y = NumberStuck(e, 0)
    BY <1>1, <1>2, <1>3, <2>1, <2>2, <2>3 DEF TranslateEnter
  <2>5. y = PushArgs([e EXCEPT !.t = [e.t EXCEPT !.cur.args = "bad"]])
    BY <1>2, <2>1, <2>2, <2>4 DEF NumberStuck
  <2>6. PICK v : v = [e.t EXCEPT !.cur.args = "bad"] OBVIOUS
  <2>7. PICK z : z = [e EXCEPT !.t = v] OBVIOUS
  <2>8. e.t \in Tracee /\ e.k \in Process BY <1>2 DEF Pairs
  <2>9. /\ v \in Tracee /\ v.cur = [e.t.cur EXCEPT !.args = "bad"] /\ v.status = e.t.status
        /\ Alike(e.t, v) /\ SameBanks(e.t, v)
    BY ONLY <2>6, <2>8, SMTT(30) DEF Tracee, Bank, Alike, Untouched, SameChain, SameBanks, SameStops
  <2>10. z \in Pairs /\ z.t = v /\ z.k = e.k BY ONLY <1>2, <2>7, <2>9 DEF Pairs
  <2>11. y = [z EXCEPT !.k.regs = [z.t.cur EXCEPT !.num = z.k.regs.num]]
    BY <2>5, <2>6, <2>7 DEF PushArgs
  <2>12. [z.t.cur EXCEPT !.num = z.k.regs.num] = Given(n) /\ Given(n) \in Bank
    <3>1. z.k.regs.num = n /\ n \in Numbers
      BY <1>2, <2>10 DEF Regs, Numbers, Inserted
    <3>2. z.t.cur = [r EXCEPT !.args = "bad"] BY <1>2, <2>1, <2>9, <2>10
    <3>3. Given(n) = Regs(n, "bad", r.res) BY <1>5, <2>1 DEF Given
    <3>4. PICK a : a = [r EXCEPT !.args = "bad"] OBVIOUS
    <3>5. a \in Bank /\ a.args = "bad" /\ a.res = r.res BY ONLY <2>2, <3>4 DEF Bank
    <3>6. PICK b : b = [a EXCEPT !.num = n] OBVIOUS
    <3>7. b \in Bank /\ b = [num |-> n, args |-> "bad", res |-> r.res]
      BY ONLY <3>1, <3>5, <3>6 DEF Bank
    <3>8. [z.t.cur EXCEPT !.num = z.k.regs.num] = b BY ONLY <3>1, <3>2, <3>4, <3>6
    <3> QED BY ONLY <3>3, <3>7, <3>8 DEF Regs
  <2>13. y \in Pairs /\ y.t = v /\ y.k = [z.k EXCEPT !.regs = Given(n)]
    BY ONLY <2>10, <2>11, <2>12 DEF Pairs, Process
  <2>14. v.cur.num = Wanted(n).num
    <3>1. v.cur = [r EXCEPT !.args = "bad"] BY <1>2, <2>1, <2>9
    <3> QED BY ONLY <2>1, <2>2, <3>1 DEF Bank
  <2>15. y.k = [h.k EXCEPT !.regs = Given(n)] BY ONLY <1>2, <2>10, <2>13
  <2>16. AtEntry(h.t, v, n) /\ SameChain(h.t, v)
    BY ONLY <1>2, <2>9 DEF AtEntry, Alike, Untouched, SameChain, SameBanks, SameStops
  <2>17. v.restart = e.t.restart /\ v.status = e.t.status
    BY ONLY <2>9 DEF Alike, SameStops
  <2> QED BY ONLY <1>2, <2>13, <2>14, <2>15, <2>16, <2>17
<1> QED BY ONLY <1>4, <1>5

\* Where the number of a "swapped" call cannot be set, the call is made to fail
\* and the wanted one is registered to follow.
LEMMA StuckIs ==
    ASSUME NEW h \in Pairs, AtRest(h.t), h.t.restart = "SYSCALL", ~conf.canSet,
           h.k.regs = Regs("swapped", "guest", "none"), NEW y, y = TranslateEnter(h)
    PROVE  /\ y \in Pairs /\ AtEntry(h.t, y.t, "swapped")
           /\ y.t.chain = "list" /\ y.t.workaround = "FAULTY"
           /\ y.t.queue = <<[num |-> "other", args |-> "host"]>>
           /\ y.t.restart = "SYSCALL" /\ y.t.status = 1 /\ y.t.cur.num = "other"
           /\ y.k = [h.k EXCEPT !.regs = Regs("swapped", "bad", "none")]
<1>1. PICK e : e = EnterStage(h) OBVIOUS
<1>2. PICK n : n = "swapped" OBVIOUS
<1>3. n \in Kinds \cup {"other"} /\ h.t.chain = "NULL" /\ h.k.regs = Regs(n, "guest", "none")
  BY ONLY <1>2, AtRest(h.t), h.k.regs = Regs("swapped", "guest", "none") DEF Kinds, AtRest
<1>4. /\ e \in Pairs /\ e.k = h.k /\ AtEntry(h.t, e.t, n)
      /\ e.t.cur = Wanted(n) /\ e.t.restore = FALSE
      /\ e.t.restart = IF n = "late" THEN "SYSCALL" ELSE h.t.restart
      /\ e.t.status = IF e.t.restart = "CONT" THEN 0 ELSE StageOf(n)
      /\ SameChain(h.t, e.t)
  BY ONLY <1>1, EnterStageIs, h \in Pairs, <1>3, ZenonT(60)
<1>5. /\ e.t.cur = Regs("other", "host", "none") /\ e.t.restart = "SYSCALL" /\ e.t.status = 1
      /\ e.t.chain = "NULL" /\ e.t.queue = <<>> /\ e.t.orig.num = "swapped"
  BY <1>2, <1>4 DEF AtEntry, SameChain, Wanted, Handled, Regs, StageOf, AtRest
<1>6. y = NumberStuck(e, 0)
  BY <1>1, <1>5 DEF TranslateEnter, Regs
<1>7. PICK q : q = <<[num |-> "other", args |-> "host"]>> \o <<>> OBVIOUS
<1>8. PICK v : v = [e.t EXCEPT !.workaround = "FAULTY", !.chain = "list", !.queue = q] OBVIOUS
<1>9. PICK w : w = [v EXCEPT !.cur.args = "bad"] OBVIOUS
<1>10. PICK z : z = [e EXCEPT !.t = w] OBVIOUS
<1>11. y = PushArgs(z)
  BY <1>5, <1>6, <1>7, <1>8, <1>9, <1>10 DEF NumberStuck, Regs
<1>12. /\ q = <<[num |-> "other", args |-> "host"]>>
       /\ q \in Seq([num : Numbers, args : {"guest", "host", "bad"}])
  BY <1>7 DEF Numbers, Inserted
<1>13. e.t \in Tracee /\ e.k \in Process BY <1>4 DEF Pairs
<1>14. /\ v \in Tracee /\ v.cur = e.t.cur /\ v.status = e.t.status
       /\ Untouched(e.t, v) /\ SameBanks(e.t, v) /\ SameStops(e.t, v) /\ v.force = e.t.force
       /\ v.workaround = "FAULTY" /\ v.chain = "list" /\ v.queue = q
  BY ONLY <1>8, <1>12, <1>13 DEF Tracee, Untouched, SameBanks, SameStops
<1>15. w \in Tracee /\ w.cur = [v.cur EXCEPT !.args = "bad"] /\ w.status = v.status
       /\ Alike(v, w) /\ SameBanks(v, w)
  BY ONLY <1>9, <1>14, SMTT(30) DEF Tracee, Bank, Alike, Untouched, SameChain, SameBanks, SameStops
<1>16. z \in Pairs /\ z.t = w /\ z.k = e.k BY ONLY <1>4, <1>10, <1>15 DEF Pairs
<1>17. PICK r : r = Regs("swapped", "bad", "none") OBVIOUS
<1>18. y = [z EXCEPT !.k.regs = r]
  <2>1. w.cur = [Regs("other", "host", "none") EXCEPT !.args = "bad"] BY ONLY <1>5, <1>14, <1>15
  <2>2. w.cur = Regs("other", "bad", "none") BY ONLY <2>1 DEF Regs
  <2>3. z.k.regs.num = "swapped" BY ONLY <1>2, <1>3, <1>4, <1>16 DEF Regs
  <2>4. [Regs("other", "bad", "none") EXCEPT !.num = "swapped"] = r BY ONLY <1>17 DEF Regs
  <2> QED BY <1>11, <1>16, <2>2, <2>3, <2>4 DEF PushArgs
<1>19. r \in Bank BY ONLY <1>17 DEF Regs, Bank, Numbers, Kinds
<1>20. y \in Pairs /\ y.t = w /\ y.k = [e.k EXCEPT !.regs = r]
  BY ONLY <1>16, <1>18, <1>19 DEF Pairs, Process
<1>21. w.cur.num = "other"
  <2>1. w.cur = [Regs("other", "host", "none") EXCEPT !.args = "bad"] BY ONLY <1>5, <1>14, <1>15
  <2> QED BY ONLY <2>1 DEF Regs
<1>22. AtEntry(h.t, w, n)
  BY ONLY <1>4, <1>14, <1>15 DEF AtEntry, Alike, Untouched, SameChain, SameBanks, SameStops
<1>23. w.chain = "list" /\ w.workaround = "FAULTY" /\ w.queue = q /\ w.restart = "SYSCALL" /\ w.status = 1
  BY ONLY <1>5, <1>14, <1>15 DEF Alike, SameChain, SameStops
<1> QED BY ONLY <1>2, <1>4, <1>12, <1>17, <1>20, <1>21, <1>22, <1>23

\* The entry of a call of PRoot's own: nothing but the stage changes.
LEMMA AgainIs ==
    ASSUME NEW h \in Pairs, h.t.chain # "NULL", NEW y, y = TranslateEnter(h)
    PROVE  /\ y \in Pairs /\ y.k = h.k /\ y.t.status = 1 /\ y.t.restart = "SYSCALL"
           /\ Untouched(h.t, y.t) /\ SameChain(h.t, y.t)
           /\ y.t.orig = h.t.orig /\ y.t.mod = h.t.mod
           /\ y.t.restoreSeccomp = h.t.restoreSeccomp
           /\ y.t.exitPending = h.t.exitPending /\ y.t.seccomp = h.t.seccomp
           /\ y.t.cur = h.k.regs
<1>1. PICK u : u = h.t OBVIOUS
<1>2. PICK a : a = [u EXCEPT !.cur = h.k.regs, !.restore = FALSE] OBVIOUS
<1>3. PICK v : v = [a EXCEPT !.restart = "SYSCALL"] OBVIOUS
<1>4. PICK w : w = [v EXCEPT !.status = 1] OBVIOUS
<1>5. PICK e : e = [h EXCEPT !.t = w] OBVIOUS
<1>6. u \in Tracee /\ h.k \in Process /\ h.k.regs \in Bank BY <1>1 DEF Pairs, Process
<1>7. /\ a \in Tracee /\ a.cur = h.k.regs /\ Alike(u, a) /\ a.restoreSeccomp = u.restoreSeccomp
      /\ a.orig = u.orig /\ a.mod = u.mod
  BY ONLY <1>2, <1>6 DEF Tracee, Alike, Untouched, SameChain, SameStops
<1>8. /\ v \in Tracee /\ v.cur = a.cur /\ Untouched(a, v) /\ SameChain(a, v) /\ SameBanks(a, v)
      /\ v.restart = "SYSCALL" /\ v.exitPending = a.exitPending /\ v.seccomp = a.seccomp
  BY ONLY <1>3, <1>7 DEF Tracee, Untouched, SameChain, SameBanks
<1>9. w \in Tracee /\ w.cur = v.cur /\ w.status = 1 /\ Alike(v, w) /\ SameBanks(v, w)
  BY ONLY <1>4, <1>8 DEF Tracee, Alike, Untouched, SameChain, SameBanks, SameStops
<1>10. EnterStage(h) = e
  <2>1. a.chain # "NULL" BY <1>1, <1>7 DEF Alike, SameChain
  <2> QED BY <1>1, <1>2, <1>3, <1>4, <1>5, <1>8, <2>1 DEF EnterStage
<1>11. e \in Pairs /\ e.t = w /\ e.k = h.k BY ONLY h \in Pairs, <1>5, <1>9 DEF Pairs
<1>12. w.chain # "NULL" /\ w.cur = h.k.regs
  BY <1>1, <1>7, <1>8, <1>9 DEF Alike, SameChain
<1>13. y = PushArgs(e) BY <1>10, <1>11, <1>12 DEF TranslateEnter
<1>14. PICK r : r = h.k.regs OBVIOUS
<1>15. r \in Bank /\ [r EXCEPT !.num = r.num] = r BY ONLY <1>6, <1>14 DEF Bank
<1>16. y = [e EXCEPT !.k.regs = r]
  BY <1>11, <1>12, <1>13, <1>14, <1>15 DEF PushArgs
<1>17. y \in Pairs /\ y.t = w /\ y.k = h.k
  <2>1. y \in Pairs /\ y.t = w /\ y.k = [e.k EXCEPT !.regs = r]
    BY ONLY <1>11, <1>15, <1>16 DEF Pairs, Process
  <2>2. [e.k EXCEPT !.regs = e.k.regs] = e.k BY ONLY <1>11 DEF Pairs, Process
  <2> QED BY ONLY <1>11, <1>14, <2>1, <2>2
<1> QED
  BY ONLY <1>1, <1>7, <1>8, <1>9, <1>12, <1>17
  DEF Alike, Untouched, SameChain, SameBanks, SameStops

\* The result an exit handler leaves, from the one the kernel left.
ExitRes(n, res) ==
    CASE n = "fails" -> "error"
      [] n \in {"emulated", "ptrace"} -> "emulated"
      [] OTHER -> res

\* The calls that register no other.
Single == (Kinds \cup {"other"}) \ {"chain"}

\* The exit of call n is due.
Due(u, n) == u.orig.num = n /\ u.mod = Handled(n) /\ u.status = StageOf(n)

\* What the exit handler of such a call does.
ByExit(u, e, n) ==
    /\ e.cur = Regs(u.cur.num, u.cur.args, ExitRes(n, u.cur.res))
    /\ Untouched(u, e) /\ SameChain(u, e) /\ SameBanks(u, e)
    /\ e.exitPending = IF n = "late" THEN TRUE ELSE u.exitPending
    /\ e.restart = IF n = "late" THEN "SYSCALL" ELSE u.restart
    /\ e.seccomp = IF n = "ptrace" /\ u.seccomp = "ENABLED" THEN "DISABLING" ELSE u.seccomp

\* The exit handler of a call that registers no other.
LEMMA ExitHandlerIs ==
    ASSUME NEW u \in Tracee, NEW n \in Single, Due(u, n), NEW e, e = ExitHandler(u)
    PROVE  /\ e \in Tracee /\ ByExit(u, e, n)
<1> USE DEF Untouched, SameChain, SameBanks, SameStops, Alike, ByExit
<1>0. u.orig.num = n /\ u.mod = Handled(n) /\ u.status = StageOf(n)
  BY ONLY Due(u, n) DEF Due
<1>1. PICK c : c = u.cur OBVIOUS
<1>2. PICK r : r = Regs(c.num, c.args, ExitRes(n, c.res)) OBVIOUS
<1>3. c \in Bank /\ r \in Bank
  <2>1. c \in Bank BY ONLY <1>1, u \in Tracee DEF Tracee
  <2> QED BY ONLY <1>2, <2>1 DEF Bank, Regs, ExitRes
<1>4. c = Regs(c.num, c.args, c.res) BY ONLY <1>3 DEF Bank, Regs
<1>5. CASE n = "fails"
  <2>1. e = [u EXCEPT !.cur.res = "error"] BY <1>0, <1>5 DEF ExitHandler, StageOf
  <2>2. [c EXCEPT !.res = "error"] = r BY ONLY <1>2, <1>3, <1>5 DEF Bank, Regs, ExitRes
  <2>3. e \in Tracee /\ e.cur = r /\ Alike(u, e) /\ SameBanks(u, e)
    BY ONLY <1>1, <1>3, <2>1, <2>2, u \in Tracee DEF Tracee
  <2> QED BY ONLY <1>1, <1>2, <1>5, <2>3
<1>6. CASE n = "emulated"
  <2>1. u.mod.num = "void" /\ u.mod.res = "emulated" BY ONLY <1>6, <1>0 DEF Handled, Regs
  <2>2. e = [u EXCEPT !.cur.res = "emulated"] BY ONLY <1>6, <2>1, e = ExitHandler(u), <1>0 DEF ExitHandler, StageOf
  <2>3. [c EXCEPT !.res = "emulated"] = r BY ONLY <1>2, <1>3, <1>6 DEF Bank, Regs, ExitRes
  <2>4. e \in Tracee /\ e.cur = r /\ Alike(u, e) /\ SameBanks(u, e)
    BY ONLY <1>1, <1>3, <2>2, <2>3, u \in Tracee DEF Tracee
  <2> QED BY ONLY <1>1, <1>2, <1>6, <2>4
<1>7. CASE n = "ptrace"
  <2>1. u.mod.num = "void" /\ u.mod.res = "none" BY ONLY <1>7, <1>0 DEF Handled, Regs
  <2>2. PICK v : v = [u EXCEPT !.cur.res = "none"] OBVIOUS
  <2>3. PICK s : s = IF v.seccomp = "ENABLED" THEN "DISABLING" ELSE v.seccomp OBVIOUS
  <2>4. PICK x : x = [v EXCEPT !.cur.res = "emulated"] OBVIOUS
  <2>5. e = [v EXCEPT !.cur.res = "emulated",
                      !.seccomp = IF @ = "ENABLED" THEN "DISABLING" ELSE @]
    BY ONLY <1>7, <2>1, <2>2, e = ExitHandler(u), <1>0
       DEF ExitHandler, StageOf
  <2>6. e = [x EXCEPT !.seccomp = s] BY <2>3, <2>4, <2>5
  <2>7. PICK d : d = [c EXCEPT !.res = "none"] OBVIOUS
  <2>8. d \in Bank /\ [d EXCEPT !.res = "emulated"] = r
    <3>1. d = Regs(c.num, c.args, "none") BY ONLY <1>3, <2>7 DEF Bank, Regs
    <3>2. [Regs(c.num, c.args, "none") EXCEPT !.res = "emulated"] = r
      BY ONLY <1>2, <1>7 DEF Regs, ExitRes
    <3> QED BY ONLY <1>3, <3>1, <3>2 DEF Bank, Regs
  <2>9. v \in Tracee /\ v.cur = d /\ Alike(u, v) /\ SameBanks(u, v)
    BY ONLY <1>1, <2>2, <2>7, <2>8, u \in Tracee DEF Tracee
  <2>10. x \in Tracee /\ x.cur = r /\ Alike(v, x) /\ SameBanks(v, x)
    BY ONLY <1>3, <2>4, <2>8, <2>9 DEF Tracee
  <2>11. s \in {"DISABLED", "DISABLING", "ENABLED"} BY ONLY <2>3, <2>9 DEF Tracee
  <2>12. /\ e \in Tracee /\ e.cur = r /\ e.seccomp = s /\ Untouched(x, e) /\ SameChain(x, e)
         /\ SameBanks(x, e) /\ e.exitPending = x.exitPending /\ e.restart = x.restart
    BY ONLY <2>6, <2>10, <2>11 DEF Tracee
  <2>13. s = IF u.seccomp = "ENABLED" THEN "DISABLING" ELSE u.seccomp BY ONLY <2>3, <2>9
  <2> QED BY ONLY <1>1, <1>2, <1>7, <2>9, <2>10, <2>12, <2>13
<1>8. CASE n = "late"
  <2>1. u.mod.num = "late" BY ONLY <1>8, <1>0 DEF Handled, Regs
  <2>2. e = [u EXCEPT !.exitPending = TRUE, !.restart = "SYSCALL"]
    BY ONLY <1>8, <2>1, e = ExitHandler(u), <1>0 DEF ExitHandler, StageOf
  <2>3. r = c BY ONLY <1>2, <1>4, <1>8 DEF ExitRes
  <2>4. /\ e \in Tracee /\ e.cur = u.cur /\ Untouched(u, e) /\ SameChain(u, e) /\ SameBanks(u, e)
        /\ e.exitPending = TRUE /\ e.restart = "SYSCALL" /\ e.seccomp = u.seccomp
    BY ONLY <2>2, u \in Tracee DEF Tracee
  <2> QED BY ONLY <1>1, <1>2, <1>8, <2>3, <2>4
<1>9. CASE n \notin {"fails", "emulated", "ptrace", "late"}
  <2>1. u.mod.num # "void" BY ONLY <1>9, <1>0, n \in Single DEF Single, Handled, Regs, Kinds
  <2>2. e = u
    BY ONLY <1>9, <2>1, e = ExitHandler(u), <1>0, n \in Single DEF Single, ExitHandler, StageOf
  <2>3. r = c BY ONLY <1>2, <1>4, <1>9 DEF ExitRes
  <2> QED BY ONLY <1>1, <1>2, <1>9, <2>2, <2>3, u \in Tracee
<1> QED BY ONLY <1>5, <1>6, <1>7, <1>8, <1>9

\* The bank a call ends with: the one from before the SIGSYS if it replaced a
\* blocked call.
Own(u) == IF u.restoreSeccomp THEN u.rewrite ELSE u.orig

\* push_specific_regs() at the end of a call: the result stays, the rest is its own.
LEMMA PushIs ==
    ASSUME NEW h \in Pairs, h.t.restore, NEW y, y = Push(h)
    PROVE  /\ y \in Pairs
           /\ y.k = [h.k EXCEPT !.regs = Regs(Own(h.t).num, Own(h.t).args, h.t.cur.res)]
           /\ y.t.cur = Regs(Own(h.t).num, Own(h.t).args, h.t.cur.res)
           /\ Alike(h.t, y.t) /\ y.t.status = h.t.status /\ y.t.restoreSeccomp = FALSE
           /\ y.t.orig = h.t.orig /\ y.t.mod = h.t.mod
<1> USE DEF Untouched, SameChain, SameBanks, SameStops, Alike
<1>1. PICK u : u = h.t OBVIOUS
<1>2. PICK o : o = IF u.restoreSeccomp THEN u.rewrite ELSE u.orig OBVIOUS
<1>3. PICK a : a = [u EXCEPT !.restoreSeccomp = FALSE] OBVIOUS
<1>4. PICK b : b = [a EXCEPT !.cur.num = o.num] OBVIOUS
<1>5. PICK v : v = [b EXCEPT !.cur.args = o.args] OBVIOUS
<1>6. PICK z : z = [h EXCEPT !.t = v] OBVIOUS
<1>7. PICK r : r = Regs(o.num, o.args, u.cur.res) OBVIOUS
<1>8. u \in Tracee /\ h.k \in Process BY <1>1 DEF Pairs
<1>9. o \in Bank /\ u.cur \in Bank BY ONLY <1>2, <1>8 DEF Tracee
<1>10. o.num \in Numbers /\ o.args \in {"guest", "host", "bad"} BY ONLY <1>9 DEF Bank
<1>11. /\ a \in Tracee /\ a.cur = u.cur /\ Alike(u, a) /\ a.status = u.status
       /\ a.orig = u.orig /\ a.mod = u.mod /\ a.restoreSeccomp = FALSE
  BY ONLY <1>3, <1>8 DEF Tracee
<1>12. /\ b \in Tracee /\ b.cur = [a.cur EXCEPT !.num = o.num] /\ Alike(a, b) /\ b.status = a.status
       /\ SameBanks(a, b)
  BY ONLY <1>4, <1>10, <1>11, SMTT(30) DEF Tracee, Bank
<1>13. /\ v \in Tracee /\ v.cur = [b.cur EXCEPT !.args = o.args] /\ Alike(b, v) /\ v.status = b.status
       /\ SameBanks(b, v)
  BY ONLY <1>5, <1>10, <1>12, ZenonT(60) DEF Tracee, Bank
<1>14. v.cur = r
  <2>1. PICK c : c = u.cur OBVIOUS
  <2>2. PICK d : d = [c EXCEPT !.num = o.num] OBVIOUS
  <2>3. d = Regs(o.num, c.args, c.res) BY ONLY <1>9, <2>1, <2>2 DEF Bank, Regs
  <2>4. [Regs(o.num, c.args, c.res) EXCEPT !.args = o.args] = Regs(o.num, o.args, c.res)
    BY ONLY <1>9, <2>1 DEF Bank, Regs
  <2>5. a.cur = c BY ONLY <1>11, <2>1
  <2>6. b.cur = d BY ONLY <1>12, <2>2, <2>5
  <2>7. v.cur = [d EXCEPT !.args = o.args] BY ONLY <1>13, <2>6
  <2> QED BY ONLY <1>7, <2>1, <2>3, <2>4, <2>7
<1>15. r \in Bank BY ONLY <1>7, <1>9 DEF Bank, Regs
<1>16. z = [h EXCEPT !.t = v] /\ z \in Pairs /\ z.t = v /\ z.k = h.k
  BY ONLY <1>6, <1>13, h \in Pairs DEF Pairs
<1>17. y = [t |-> v, k |-> [h.k EXCEPT !.regs = r]]
  <2>1. v = [a EXCEPT !.cur.num = o.num, !.cur.args = o.args] BY ONLY <1>4, <1>5
  <2>2. v = [u EXCEPT !.restoreSeccomp = FALSE, !.cur.num = o.num, !.cur.args = o.args]
    BY ONLY <1>3, <2>1
  <2>3. u.restore BY <1>1
  <2> QED BY ONLY <1>1, <1>2, <1>14, <2>2, <2>3, y = Push(h) DEF Push
<1>18. PICK p : p = [h.k EXCEPT !.regs = r] OBVIOUS
<1>19. p \in Process BY ONLY <1>8, <1>15, <1>18 DEF Process
<1>20. y = [t |-> v, k |-> p] BY ONLY <1>17, <1>18
<1>21. y \in Pairs /\ y.t = v /\ y.k = p BY ONLY <1>13, <1>19, <1>20 DEF Pairs
<1>22. r = Regs(Own(h.t).num, Own(h.t).args, h.t.cur.res) BY ONLY <1>1, <1>2, <1>7 DEF Own
<1> QED BY ONLY <1>1, <1>11, <1>12, <1>13, <1>14, <1>18, <1>21, <1>22

\* One more call of a chain: its registers, and the trap instruction again.
LEMMA NextIs ==
    ASSUME NEW h \in Pairs, h.t.queue # <<>>, NEW y, y = Push(ChainNext(h))
    PROVE  /\ y \in Pairs
           /\ y.k = [h.k EXCEPT !.rerun = TRUE,
                                !.regs = Regs(Head(h.t.queue).num, Head(h.t.queue).args, h.t.cur.res)]
           /\ y.t.cur = Regs(Head(h.t.queue).num, Head(h.t.queue).args, h.t.cur.res)
           /\ y.t.queue = Tail(h.t.queue) /\ y.t.restart = "SYSCALL"
           /\ y.t.chain = h.t.chain /\ y.t.force = h.t.force /\ y.t.workaround = h.t.workaround
           /\ Untouched(h.t, y.t) /\ y.t.status = h.t.status
           /\ y.t.orig = h.t.orig /\ y.t.mod = h.t.mod
           /\ y.t.restoreSeccomp = h.t.restoreSeccomp
           /\ y.t.exitPending = h.t.exitPending /\ y.t.seccomp = h.t.seccomp
<1> USE DEF Untouched, SameChain, SameBanks, SameStops, Alike
<1>1. PICK u : u = h.t OBVIOUS
<1>2. PICK q : q = u.queue OBVIOUS
<1>3. PICK o : o = Head(q) OBVIOUS
<1>4. PICK s : s = Tail(q) OBVIOUS
<1>5. PICK a : a = [u EXCEPT !.queue = s, !.restore = FALSE, !.restart = "SYSCALL"] OBVIOUS
<1>6. PICK b : b = [a EXCEPT !.cur.num = o.num] OBVIOUS
<1>7. PICK v : v = [b EXCEPT !.cur.args = o.args] OBVIOUS
<1>8. PICK p : p = [h.k EXCEPT !.rerun = TRUE] OBVIOUS
<1>9. PICK r : r = Regs(o.num, o.args, u.cur.res) OBVIOUS
<1>10. PICK l : l = [p EXCEPT !.regs = r] OBVIOUS
<1>11. u \in Tracee /\ h.k \in Process BY <1>1 DEF Pairs
<1>12. q \in Seq([num : Numbers, args : {"guest", "host", "bad"}]) /\ u.cur \in Bank
  BY ONLY <1>2, <1>11 DEF Tracee
<1>13. q # <<>> BY <1>1, <1>2
<1>14. /\ o \in [num : Numbers, args : {"guest", "host", "bad"}]
       /\ s \in Seq([num : Numbers, args : {"guest", "host", "bad"}])
  BY ONLY <1>3, <1>4, <1>12, <1>13, HeadTailProperties
<1>15. o.num \in Numbers /\ o.args \in {"guest", "host", "bad"} BY ONLY <1>14
<1>16. /\ a \in Tracee /\ a.cur = u.cur /\ Untouched(u, a) /\ a.status = u.status
       /\ a.orig = u.orig /\ a.mod = u.mod /\ a.restoreSeccomp = u.restoreSeccomp
       /\ a.queue = s /\ a.restart = "SYSCALL" /\ a.restore = FALSE
       /\ a.chain = u.chain /\ a.force = u.force /\ a.workaround = u.workaround
       /\ a.exitPending = u.exitPending /\ a.seccomp = u.seccomp
  BY ONLY <1>5, <1>11, <1>14 DEF Tracee
<1>17. /\ b \in Tracee /\ b.cur = [a.cur EXCEPT !.num = o.num] /\ Alike(a, b) /\ b.status = a.status
       /\ SameBanks(a, b)
  BY ONLY <1>6, <1>15, <1>16, ZenonT(60) DEF Tracee, Bank
<1>18. /\ v \in Tracee /\ v.cur = [b.cur EXCEPT !.args = o.args] /\ Alike(b, v) /\ v.status = b.status
       /\ SameBanks(b, v)
  BY ONLY <1>7, <1>15, <1>17, ZenonT(60) DEF Tracee, Bank
<1>19. v.cur = r
  <2>1. PICK c : c = u.cur OBVIOUS
  <2>2. PICK d : d = [c EXCEPT !.num = o.num] OBVIOUS
  <2>3. d = Regs(o.num, c.args, c.res) BY ONLY <1>12, <2>1, <2>2 DEF Bank, Regs
  <2>4. [Regs(o.num, c.args, c.res) EXCEPT !.args = o.args] = Regs(o.num, o.args, c.res)
    BY ONLY <1>12, <2>1 DEF Bank, Regs
  <2>5. a.cur = c BY ONLY <1>16, <2>1
  <2>6. b.cur = d BY ONLY <1>17, <2>2, <2>5
  <2>7. v.cur = [d EXCEPT !.args = o.args] BY ONLY <1>18, <2>6
  <2> QED BY ONLY <1>9, <2>1, <2>3, <2>4, <2>7
<1>20. r \in Bank BY ONLY <1>9, <1>12, <1>15 DEF Bank, Regs
<1>21. p \in Process BY ONLY <1>8, <1>11 DEF Process
<1>22. l \in Process BY ONLY <1>10, <1>20, <1>21 DEF Process
<1>23. PICK x : x = ChainNext(h) OBVIOUS
<1>24. x = [t |-> v, k |-> p]
  <2>1. v = [a EXCEPT !.cur.num = o.num, !.cur.args = o.args] BY ONLY <1>6, <1>7
  <2>2. v = [u EXCEPT !.queue = s, !.restore = FALSE, !.restart = "SYSCALL",
                      !.cur.num = o.num, !.cur.args = o.args]
    BY ONLY <1>5, <2>1
  <2>3. u.queue # <<>> BY ONLY <1>2, <1>13
  <2>4. v = [u EXCEPT !.queue = Tail(@), !.restore = FALSE, !.restart = "SYSCALL",
                      !.cur.num = Head(u.queue).num, !.cur.args = Head(u.queue).args]
    BY ONLY <1>2, <1>3, <1>4, <2>2
  <2> QED BY ONLY <1>1, <1>8, <1>23, <2>3, <2>4 DEF ChainNext
<1>25. x \in Pairs /\ x.t = v /\ x.k = p BY ONLY <1>18, <1>21, <1>24 DEF Pairs
<1>26. ~v.restore BY ONLY <1>16, <1>17, <1>18
<1>27. y = [x EXCEPT !.k.regs = r]
  BY ONLY <1>19, <1>23, <1>25, <1>26, y = Push(ChainNext(h)) DEF Push
<1>28. y \in Pairs /\ y.t = v /\ y.k = [p EXCEPT !.regs = r]
  BY ONLY <1>20, <1>25, <1>27 DEF Pairs, Process
<1>29. y.k = [h.k EXCEPT !.rerun = TRUE, !.regs = r] BY ONLY <1>8, <1>28
<1>30. /\ r = Regs(Head(h.t.queue).num, Head(h.t.queue).args, h.t.cur.res)
       /\ s = Tail(h.t.queue)
  BY ONLY <1>1, <1>2, <1>3, <1>4, <1>9
<1> QED BY ONLY <1>1, <1>16, <1>17, <1>18, <1>19, <1>28, <1>29, <1>30

\* The end of a chain: the registers of the first call, with the forced result.
LEMMA LastIs ==
    ASSUME NEW h \in Pairs, h.t.queue = <<>>, h.t.restore, NEW y, y = Push(ChainNext(h))
    PROVE  /\ y \in Pairs
           /\ y.k = [h.k EXCEPT !.regs = Regs(Own(h.t).num, Own(h.t).args,
                                              IF h.t.force THEN "forced" ELSE h.t.cur.res)]
           /\ y.t.cur = Regs(Own(h.t).num, Own(h.t).args,
                             IF h.t.force THEN "forced" ELSE h.t.cur.res)
           /\ y.t.queue = <<>> /\ y.t.chain = "NULL" /\ ~y.t.force
           /\ y.t.workaround = h.t.workaround
           /\ Untouched(h.t, y.t) /\ SameStops(h.t, y.t) /\ y.t.status = h.t.status
           /\ y.t.orig = h.t.orig /\ y.t.mod = h.t.mod
           /\ y.t.restoreSeccomp = FALSE
<1> USE DEF Untouched, SameChain, SameBanks, SameStops, Alike
<1>1. PICK u : u = h.t OBVIOUS
<1>2. PICK s : s = IF u.force THEN "forced" ELSE u.cur.res OBVIOUS
<1>3. PICK a : a = [u EXCEPT !.chain = "NULL", !.force = FALSE] OBVIOUS
<1>4. PICK v : v = [a EXCEPT !.cur.res = s] OBVIOUS
<1>5. PICK x : x = [h EXCEPT !.t = v] OBVIOUS
<1>6. u \in Tracee /\ u.cur \in Bank BY ONLY <1>1, h \in Pairs DEF Pairs, Tracee
<1>7. PICK c : c = u.cur OBVIOUS
<1>8. PICK d : d = [c EXCEPT !.res = s] OBVIOUS
<1>9. c \in Bank BY ONLY <1>6, <1>7
<1>10. s \in {"none", "kernel", "error", "emulated", "einval", "refused", "enosys", "forced"}
  BY ONLY <1>2, <1>7, <1>9 DEF Bank
<1>11. d \in Bank /\ d.num = c.num /\ d.res = s BY ONLY <1>8, <1>9, <1>10 DEF Bank
<1>12. /\ a \in Tracee /\ a.cur = c /\ Untouched(u, a) /\ SameStops(u, a) /\ SameBanks(u, a)
       /\ a.status = u.status /\ a.queue = u.queue /\ a.workaround = u.workaround
       /\ a.chain = "NULL" /\ a.force = FALSE
  BY ONLY <1>3, <1>6, <1>7 DEF Tracee
<1>13. v \in Tracee /\ v.cur = d /\ Alike(a, v) /\ SameBanks(a, v) /\ v.status = a.status
  BY ONLY <1>4, <1>8, <1>11, <1>12 DEF Tracee
<1>14. x = ChainNext(h)
  <2>1. v = [u EXCEPT !.chain = "NULL", !.force = FALSE, !.cur.res = s] BY ONLY <1>3, <1>4
  <2>2. v = [u EXCEPT !.chain = "NULL", !.force = FALSE,
                      !.cur.res = IF u.force THEN "forced" ELSE @]
    BY ONLY <1>2, <2>1
  <2> QED BY ONLY <1>1, <1>5, <2>2, h.t.queue = <<>> DEF ChainNext
<1>15. x \in Pairs /\ x.t = v /\ x.k = h.k BY ONLY <1>5, <1>13, h \in Pairs DEF Pairs
<1>16. x.t.restore /\ y = Push(x)
  BY ONLY <1>1, <1>12, <1>13, <1>14, <1>15, h.t.restore, y = Push(ChainNext(h))
<1>17. PICK r : r = Regs(Own(x.t).num, Own(x.t).args, x.t.cur.res) OBVIOUS
<1>18. /\ y \in Pairs /\ y.k = [x.k EXCEPT !.regs = r] /\ y.t.cur = r
       /\ Alike(x.t, y.t) /\ y.t.status = x.t.status /\ y.t.restoreSeccomp = FALSE
       /\ y.t.orig = x.t.orig /\ y.t.mod = x.t.mod
  <2> HIDE DEF Untouched, SameChain, SameBanks, SameStops, Alike
  <2> QED BY ONLY <1>15, <1>16, <1>17, PushIs
<1>19. r = Regs(Own(h.t).num, Own(h.t).args, IF h.t.force THEN "forced" ELSE h.t.cur.res)
  <2>1. v.restoreSeccomp = u.restoreSeccomp /\ v.rewrite = u.rewrite /\ v.orig = u.orig
    BY ONLY <1>12, <1>13
  <2>2. x.t.cur.res = s BY ONLY <1>11, <1>13, <1>15
  <2> QED BY ONLY <1>1, <1>2, <1>15, <1>17, <2>1, <2>2 DEF Own
<1> QED BY ONLY <1>1, <1>12, <1>13, <1>15, <1>18, <1>19, h.t.queue = <<>>

\* The exit stage up to the push, in two parts.
Began(h) == [h.t EXCEPT !.cur = h.k.regs, !.restore = TRUE]
Exited(h) ==
    LET u == Began(h)
    IN IF u.chain = "NULL" \/ u.workaround = "REPLACED"
       THEN ExitHandler([u EXCEPT !.workaround = "INACTIVE"])
       ELSE IF u.workaround = "FAULTY" THEN [u EXCEPT !.workaround = "REPLACED"]
       ELSE u

\* The exit stage begins with the registers of the kernel, in the exit handler or not.
LEMMA BeganIs ==
    ASSUME NEW h \in Pairs, NEW b, b = Began(h)
    PROVE  /\ b \in Tracee /\ b.cur = h.k.regs /\ b.restore = TRUE /\ Alike(h.t, b)
           /\ b.status = h.t.status /\ b.restoreSeccomp = h.t.restoreSeccomp
           /\ b.orig = h.t.orig /\ b.mod = h.t.mod
<1>1. PICK u : u = h.t OBVIOUS
<1>2. u \in Tracee /\ h.k.regs \in Bank BY ONLY <1>1, h \in Pairs DEF Pairs, Process
<1>3. b = [u EXCEPT !.cur = h.k.regs, !.restore = TRUE] BY ONLY <1>1, b = Began(h) DEF Began
<1>4. /\ b \in Tracee /\ b.cur = h.k.regs /\ b.restore = TRUE /\ Alike(u, b)
      /\ b.status = u.status /\ b.restoreSeccomp = u.restoreSeccomp
      /\ b.orig = u.orig /\ b.mod = u.mod
  BY ONLY <1>2, <1>3 DEF Tracee, Alike, Untouched, SameChain, SameStops
<1> QED BY ONLY <1>1, <1>4

\* The stage ends, and a call of PRoot's own follows if there is a chain.
LEMMA ExitedIs ==
    ASSUME NEW h \in Pairs, NEW v \in Tracee, v = Exited(h), NEW y, y = TranslateExit(h)
    PROVE  \E x \in Pairs : /\ x.k = h.k /\ x.t.cur = v.cur /\ x.t.status = 0
                            /\ Alike(v, x.t) /\ SameBanks(v, x.t)
                            /\ y = Push(IF v.chain # "NULL" THEN ChainNext(x) ELSE x)
<1>1. PICK w : w = [v EXCEPT !.status = 0] OBVIOUS
<1>2. PICK x : x = [h EXCEPT !.t = w] OBVIOUS
<1>3. w \in Tracee /\ w.cur = v.cur /\ w.status = 0 /\ Alike(v, w) /\ SameBanks(v, w)
  BY ONLY <1>1, v \in Tracee DEF Tracee, Alike, Untouched, SameChain, SameBanks, SameStops
<1>4. x \in Pairs /\ x.t = w /\ x.k = h.k BY ONLY <1>2, <1>3, h \in Pairs DEF Pairs
<1>5. y = Push(IF v.chain # "NULL" THEN ChainNext(x) ELSE x)
  BY ONLY <1>1, <1>2, v = Exited(h), y = TranslateExit(h) DEF Exited, Began, TranslateExit
<1> QED BY ONLY <1>3, <1>4, <1>5

\* What stays of a tracee whose call ends or is followed by one of PRoot's own.
Kept(u, v) == /\ Untouched(u, v) /\ v.orig = u.orig /\ v.mod = u.mod
              /\ v.exitPending = u.exitPending /\ v.seccomp = u.seccomp

\* What the exit of such a call does.
Ends(h, y, n) ==
    /\ AtRest(y.t) /\ Untouched(h.t, y.t)
    /\ y.k = [h.k EXCEPT !.regs = Regs(Own(h.t).num, Own(h.t).args, ExitRes(n, h.k.regs.res))]
    /\ y.t.orig = h.t.orig /\ y.t.mod = h.t.mod /\ y.t.status = 0
    /\ y.t.restoreSeccomp = FALSE
    /\ y.t.exitPending = IF n = "late" THEN TRUE ELSE h.t.exitPending
    /\ y.t.restart = IF n = "late" THEN "SYSCALL" ELSE h.t.restart
    /\ y.t.seccomp = IF n = "ptrace" /\ h.t.seccomp = "ENABLED" THEN "DISABLING"
                     ELSE h.t.seccomp

\* The exit of a call that registers no other.
LEMMA ExitIs ==
    ASSUME NEW h \in Pairs, NEW n \in Single, Due(h.t, n),
           h.t.queue = <<>>, ~h.t.force,
           IF h.t.chain = "NULL" THEN h.t.workaround = "INACTIVE" ELSE h.t.workaround = "REPLACED",
           NEW y, y = TranslateExit(h)
    PROVE  y \in Pairs /\ Ends(h, y, n)
<1>1. PICK b : b = Began(h) OBVIOUS
<1>2. /\ b \in Tracee /\ b.cur = h.k.regs /\ b.restore = TRUE /\ Alike(h.t, b)
      /\ b.status = h.t.status /\ b.restoreSeccomp = h.t.restoreSeccomp
      /\ b.orig = h.t.orig /\ b.mod = h.t.mod
  BY ONLY <1>1, BeganIs
<1>3. PICK a : a = [b EXCEPT !.workaround = "INACTIVE"] OBVIOUS
<1>4. /\ a \in Tracee /\ a.cur = b.cur /\ SameBanks(b, a) /\ a.status = b.status
      /\ Untouched(b, a) /\ SameStops(b, a) /\ a.chain = b.chain /\ a.queue = b.queue
      /\ a.force = b.force /\ a.workaround = "INACTIVE"
  BY ONLY <1>2, <1>3 DEF Tracee, Untouched, SameBanks, SameStops
<1>5. PICK v : v = ExitHandler(a) OBVIOUS
<1>6. b.chain = "NULL" \/ b.workaround = "REPLACED"
  BY <1>2 DEF Alike, SameChain
<1>7. v = Exited(h) BY ONLY <1>1, <1>3, <1>5, <1>6 DEF Exited
<1>8. Due(a, n)
  BY ONLY <1>2, <1>4, Due(h.t, n) DEF SameBanks, Due
<1>9. PICK r : r = ExitRes(n, h.k.regs.res) OBVIOUS
<1>10. /\ v \in Tracee /\ v.cur = Regs(a.cur.num, a.cur.args, ExitRes(n, a.cur.res))
       /\ Untouched(a, v) /\ SameChain(a, v) /\ SameBanks(a, v)
       /\ v.exitPending = IF n = "late" THEN TRUE ELSE a.exitPending
       /\ v.restart = IF n = "late" THEN "SYSCALL" ELSE a.restart
       /\ v.seccomp = IF n = "ptrace" /\ a.seccomp = "ENABLED" THEN "DISABLING" ELSE a.seccomp
  <2>1. a \in Tracee BY ONLY <1>4
  <2>2. v \in Tracee /\ ByExit(a, v, n) BY ONLY <1>5, <1>8, <2>1, n \in Single, ExitHandlerIs
  <2> QED BY ONLY <2>2 DEF ByExit
<1>11. v.cur.res = r BY ONLY <1>2, <1>4, <1>9, <1>10 DEF Regs
<1>12. PICK x \in Pairs : /\ x.k = h.k /\ x.t.cur = v.cur /\ x.t.status = 0
                          /\ Alike(v, x.t) /\ SameBanks(v, x.t)
                          /\ y = Push(IF v.chain # "NULL" THEN ChainNext(x) ELSE x)
  BY ONLY <1>7, <1>10, h \in Pairs, y = TranslateExit(h), ExitedIs
<1>13. /\ x.t.queue = <<>> /\ ~x.t.force /\ x.t.workaround = "INACTIVE" /\ x.t.restore
       /\ Untouched(h.t, x.t) /\ x.t.orig = h.t.orig /\ x.t.mod = h.t.mod
       /\ x.t.restoreSeccomp = h.t.restoreSeccomp
       /\ x.t.exitPending = IF n = "late" THEN TRUE ELSE h.t.exitPending
       /\ x.t.restart = IF n = "late" THEN "SYSCALL" ELSE h.t.restart
       /\ x.t.seccomp = IF n = "ptrace" /\ h.t.seccomp = "ENABLED" THEN "DISABLING"
                        ELSE h.t.seccomp
       /\ x.t.chain = h.t.chain /\ v.chain = h.t.chain /\ x.t.cur.res = r
  BY ONLY <1>2, <1>4, <1>10, <1>11, <1>12, h.t.queue = <<>>, ~h.t.force
     DEF Alike, Untouched, SameChain, SameBanks, SameStops
<1>14. Own(x.t) = Own(h.t) BY ONLY <1>13 DEF Own, Untouched
<1>15. CASE h.t.chain = "NULL"
  <2>1. y = Push(x) BY ONLY <1>12, <1>13, <1>15
  <2>2. /\ y \in Pairs
        /\ y.k = [x.k EXCEPT !.regs = Regs(Own(x.t).num, Own(x.t).args, x.t.cur.res)]
        /\ Alike(x.t, y.t) /\ y.t.status = x.t.status /\ y.t.restoreSeccomp = FALSE
        /\ y.t.orig = x.t.orig /\ y.t.mod = x.t.mod
    BY ONLY <1>13, <2>1, PushIs, ZenonT(60)
  <2>3. y.k = [h.k EXCEPT !.regs = Regs(Own(h.t).num, Own(h.t).args, r)]
    BY ONLY <1>12, <1>13, <1>14, <2>2
  <2>4. AtRest(y.t) /\ Untouched(h.t, y.t)
    BY ONLY <1>13, <1>15, <2>2 DEF AtRest, Alike, Untouched, SameChain
  <2> QED BY ONLY <1>9, <1>12, <1>13, <2>2, <2>3, <2>4 DEF Ends, Alike, SameStops
<1>16. CASE h.t.chain # "NULL"
  <2>1. y = Push(ChainNext(x)) BY ONLY <1>12, <1>13, <1>16
  <2>2. /\ y \in Pairs
        /\ y.k = [x.k EXCEPT !.regs = Regs(Own(x.t).num, Own(x.t).args,
                                           IF x.t.force THEN "forced" ELSE x.t.cur.res)]
        /\ y.t.queue = <<>> /\ y.t.chain = "NULL" /\ ~y.t.force
        /\ y.t.workaround = x.t.workaround
        /\ Untouched(x.t, y.t) /\ SameStops(x.t, y.t) /\ y.t.status = x.t.status
        /\ y.t.orig = x.t.orig /\ y.t.mod = x.t.mod
        /\ y.t.restoreSeccomp = FALSE
    <3>1. x.t.queue = <<>> /\ x.t.restore BY ONLY <1>13
    <3> QED BY ONLY <2>1, <3>1, LastIs, ZenonT(60)
  <2>3. y.k = [h.k EXCEPT !.regs = Regs(Own(h.t).num, Own(h.t).args, r)]
    BY ONLY <1>12, <1>13, <1>14, <2>2
  <2>4. AtRest(y.t) /\ Untouched(h.t, y.t)
    BY ONLY <1>13, <2>2 DEF AtRest, Untouched
  <2> QED BY ONLY <1>9, <1>12, <1>13, <2>2, <2>3, <2>4, ZenonT(60) DEF Ends, SameStops
<1> QED BY ONLY <1>15, <1>16

\* A call of a chain, and a chain of such calls.
Link == [num |-> "chained", args |-> "host"]

\* The next call of a chain is made, or its result is forced.
ChainOn(h, y) ==
    /\ y \in Pairs /\ Kept(h.t, y.t) /\ y.t.status = 0 /\ y.t.workaround = "INACTIVE"
    /\ y.t.restoreSeccomp = FALSE
    /\ \/ /\ y.t.chain = "list" /\ y.t.force /\ y.t.queue \in Seq({Link})
          /\ y.t.restart = "SYSCALL"
          /\ y.k = [h.k EXCEPT !.rerun = TRUE, !.regs = Regs("chained", "host", h.k.regs.res)]
       \/ /\ AtRest(y.t) /\ y.t.restart = h.t.restart
          /\ y.k = [h.k EXCEPT !.regs = Regs(h.t.orig.num, h.t.orig.args, "forced")]

\* What the tracee x is when the next call of the chain of h is looked for.
Links(h, x) ==
    /\ x.k = h.k /\ x.t.cur.res = h.k.regs.res /\ x.t.status = 0 /\ Kept(h.t, x.t)
    /\ x.t.restart = h.t.restart /\ x.t.restore /\ ~x.t.restoreSeccomp
    /\ x.t.chain = "list" /\ x.t.force /\ x.t.queue \in Seq({Link})
    /\ x.t.workaround = "INACTIVE"

\* What becomes of it.
LEMMA ChainOnIs ==
    ASSUME NEW h \in Pairs, NEW x \in Pairs, Links(h, x), NEW y, y = Push(ChainNext(x))
    PROVE  ChainOn(h, y)
<1>0. /\ x.k = h.k /\ x.t.cur.res = h.k.regs.res /\ x.t.status = 0 /\ Kept(h.t, x.t)
      /\ x.t.restart = h.t.restart /\ x.t.restore /\ ~x.t.restoreSeccomp
      /\ x.t.chain = "list" /\ x.t.force /\ x.t.queue \in Seq({Link})
      /\ x.t.workaround = "INACTIVE"
  BY ONLY Links(h, x) DEF Links
<1>1. CASE x.t.queue = <<>>
  <2>0. x.t.queue = <<>> /\ x.t.restore BY ONLY <1>0, <1>1
  <2>1. /\ y \in Pairs
        /\ y.k = [x.k EXCEPT !.regs = Regs(Own(x.t).num, Own(x.t).args,
                                           IF x.t.force THEN "forced" ELSE x.t.cur.res)]
        /\ y.t.queue = <<>> /\ y.t.chain = "NULL" /\ ~y.t.force
        /\ y.t.workaround = x.t.workaround
        /\ Untouched(x.t, y.t) /\ SameStops(x.t, y.t) /\ y.t.status = x.t.status
        /\ y.t.orig = x.t.orig /\ y.t.mod = x.t.mod
        /\ y.t.restoreSeccomp = FALSE
    BY ONLY <2>0, x \in Pairs, y = Push(ChainNext(x)), LastIs, ZenonT(60)
  <2>2. Own(x.t) = h.t.orig BY <1>0 DEF Own, Kept
  <2>3. y.k = [h.k EXCEPT !.regs = Regs(h.t.orig.num, h.t.orig.args, "forced")]
    BY ONLY <2>1, <2>2, <1>0
  <2>4. AtRest(y.t) /\ y.t.restart = h.t.restart /\ y.t.status = 0 /\ y.t.workaround = "INACTIVE"
    BY ONLY <2>1, <1>0 DEF AtRest, SameStops
  <2>5. Kept(h.t, y.t) BY ONLY <2>1, <1>0 DEF Kept, Untouched, SameStops
  <2> QED BY ONLY <2>1, <2>3, <2>4, <2>5 DEF ChainOn
<1>2. CASE x.t.queue # <<>>
  <2>1. PICK q : q = x.t.queue OBVIOUS
  <2>2. Head(q) = Link /\ Tail(q) \in Seq({Link}) BY ONLY <1>2, <2>1, <1>0, HeadTailProperties
  <2>3. PICK l : l = Head(q) OBVIOUS
  <2>4. l.num = "chained" /\ l.args = "host" BY ONLY <2>2, <2>3 DEF Link
  <2>5. /\ y \in Pairs
        /\ y.k = [x.k EXCEPT !.rerun = TRUE,
                             !.regs = Regs(Head(x.t.queue).num, Head(x.t.queue).args, x.t.cur.res)]
        /\ y.t.queue = Tail(x.t.queue) /\ y.t.restart = "SYSCALL"
        /\ y.t.chain = x.t.chain /\ y.t.force = x.t.force /\ y.t.workaround = x.t.workaround
        /\ Untouched(x.t, y.t) /\ y.t.status = x.t.status
        /\ y.t.orig = x.t.orig /\ y.t.mod = x.t.mod
        /\ y.t.restoreSeccomp = x.t.restoreSeccomp
        /\ y.t.exitPending = x.t.exitPending /\ y.t.seccomp = x.t.seccomp
    BY ONLY <1>2, x \in Pairs, y = Push(ChainNext(x)), NextIs, ZenonT(60)
  <2>6. y.k = [h.k EXCEPT !.rerun = TRUE, !.regs = Regs("chained", "host", h.k.regs.res)]
    BY ONLY <2>1, <2>3, <2>4, <2>5, <1>0
  <2>7. y.t.queue \in Seq({Link}) BY ONLY <2>1, <2>2, <2>5
  <2>8. Kept(h.t, y.t) BY ONLY <2>5, <1>0 DEF Kept, Untouched
  <2>9. /\ y.t.status = 0 /\ y.t.workaround = "INACTIVE" /\ y.t.restoreSeccomp = FALSE
        /\ y.t.chain = "list" /\ y.t.force /\ y.t.restart = "SYSCALL"
    <3>1. x \in Pairs => x.t.restoreSeccomp \in BOOLEAN BY DEF Pairs, Tracee
    <3> QED BY <1>0, <2>5, <3>1
  <2> QED BY ONLY <2>5, <2>6, <2>7, <2>8, <2>9 DEF ChainOn
<1> QED BY ONLY <1>1, <1>2

\* The exit of a call of a chain.
LEMMA ChainedExitIs ==
    ASSUME NEW h \in Pairs, h.t.chain = "list", h.t.force, h.t.queue \in Seq({Link}),
           h.t.workaround = "INACTIVE", ~h.t.restoreSeccomp, NEW y, y = TranslateExit(h)
    PROVE  ChainOn(h, y)
<1>1. PICK b : b = Began(h) OBVIOUS
<1>2. /\ b \in Tracee /\ b.cur = h.k.regs /\ b.restore = TRUE /\ Alike(h.t, b)
      /\ b.status = h.t.status /\ b.restoreSeccomp = h.t.restoreSeccomp
      /\ b.orig = h.t.orig /\ b.mod = h.t.mod
  BY ONLY <1>1, BeganIs
<1>3. b.chain = "list" /\ b.workaround = "INACTIVE" BY <1>2 DEF Alike, SameChain
<1>4. b = Exited(h) BY ONLY <1>1, <1>3 DEF Exited
<1>5. PICK x \in Pairs : /\ x.k = h.k /\ x.t.cur = b.cur /\ x.t.status = 0
                         /\ Alike(b, x.t) /\ SameBanks(b, x.t)
                         /\ y = Push(IF b.chain # "NULL" THEN ChainNext(x) ELSE x)
  <2>1. b \in Tracee BY ONLY <1>2
  <2> QED BY ONLY <1>4, <2>1, h \in Pairs, y = TranslateExit(h), ExitedIs
<1>6. y = Push(ChainNext(x)) BY ONLY <1>3, <1>5
<1>7. Kept(h.t, x.t) /\ SameChain(h.t, x.t) /\ x.t.restart = h.t.restart /\ x.t.restore
  BY ONLY <1>2, <1>5 DEF Alike, Untouched, SameChain, SameBanks, SameStops, Kept
<1>8. ~x.t.restoreSeccomp /\ x.t.cur.res = h.k.regs.res
  BY ONLY <1>2, <1>5, ~h.t.restoreSeccomp DEF SameBanks
<1>9. x.t.chain = "list" /\ x.t.force /\ x.t.queue \in Seq({Link}) /\ x.t.workaround = "INACTIVE"
  BY ONLY <1>7, h.t.chain = "list", h.t.force, h.t.queue \in Seq({Link}), h.t.workaround = "INACTIVE"
     DEF SameChain
<1>10. Links(h, x) BY ONLY <1>5, <1>7, <1>8, <1>9 DEF Links
<1> QED BY ONLY <1>6, <1>10, h \in Pairs, x \in Pairs, ChainOnIs

\* The exit of the call that registers the chain.
LEMMA ChainStartIs ==
    ASSUME NEW h \in Pairs, AtRest(h.t), Due(h.t, "chain"), ~h.t.restoreSeccomp,
           NEW y, y = TranslateExit(h)
    PROVE  ChainOn(h, y)
<1>1. PICK b : b = Began(h) OBVIOUS
<1>2. /\ b \in Tracee /\ b.cur = h.k.regs /\ b.restore = TRUE /\ Alike(h.t, b)
      /\ b.status = h.t.status /\ b.restoreSeccomp = h.t.restoreSeccomp
      /\ b.orig = h.t.orig /\ b.mod = h.t.mod
  BY ONLY <1>1, BeganIs
<1>3. PICK a : a = [b EXCEPT !.workaround = "INACTIVE"] OBVIOUS
<1>4. /\ a \in Tracee /\ a.cur = b.cur /\ SameBanks(b, a) /\ a.status = b.status
      /\ Untouched(b, a) /\ SameStops(b, a) /\ a.chain = b.chain /\ a.queue = b.queue
      /\ a.force = b.force /\ a.workaround = "INACTIVE"
  BY ONLY <1>2, <1>3 DEF Tracee, Untouched, SameBanks, SameStops
<1>5. PICK q : q = [i \in 1..ChainLength |-> [num |-> "chained", args |-> "host"]] OBVIOUS
<1>6. q \in Seq({Link})
  <2>1. q \in [1..ChainLength -> {Link}] BY ONLY <1>5 DEF Link
  <2> QED BY <2>1, FlowAssumption
<1>7. a.queue = <<>>
  BY ONLY <1>2, <1>4, AtRest(h.t) DEF AtRest, Alike, SameChain
<1>8. a.queue \o q = q BY ONLY <1>6, <1>7
<1>9. PICK v : v = [a EXCEPT !.chain = "list", !.force = TRUE, !.queue = q] OBVIOUS
<1>10. v = ExitHandler(a)
  <2>1. a.status = 1 /\ a.mod.num = "chain" /\ a.orig.num = "chain"
    BY ONLY <1>2, <1>4, Due(h.t, "chain") DEF Due, StageOf, Handled, Regs, SameBanks
  <2>2. v = [a EXCEPT !.chain = "list", !.force = TRUE,
                      !.queue = @ \o [i \in 1..ChainLength |->
                                      [num |-> "chained", args |-> "host"]]]
    BY ONLY <1>5, <1>8, <1>9
  <2> QED BY ONLY <2>1, <2>2 DEF ExitHandler
<1>11. b.chain = "NULL" BY ONLY <1>2, AtRest(h.t) DEF AtRest, Alike, SameChain
<1>12. v = Exited(h) BY ONLY <1>1, <1>3, <1>10, <1>11 DEF Exited
<1>13. q \in Seq([num : Numbers, args : {"guest", "host", "bad"}])
  <2>1. PICK S : S = [num : Numbers, args : {"guest", "host", "bad"}] OBVIOUS
  <2>2. Link \in S BY ONLY <2>1 DEF Link, Numbers, Inserted
  <2>3. q \in [1..ChainLength -> S] BY ONLY <1>5, <2>2 DEF Link
  <2>4. q \in Seq(S) BY ONLY <2>3, FlowAssumption
  <2> QED BY ONLY <2>1, <2>4
<1>14. /\ v \in Tracee /\ v.cur = a.cur /\ SameBanks(a, v) /\ v.status = a.status
       /\ Untouched(a, v) /\ SameStops(a, v) /\ v.workaround = a.workaround
       /\ v.chain = "list" /\ v.force /\ v.queue = q
  BY ONLY <1>4, <1>9, <1>13 DEF Tracee, Untouched, SameBanks, SameStops
<1>15. PICK x \in Pairs : /\ x.k = h.k /\ x.t.cur = v.cur /\ x.t.status = 0
                          /\ Alike(v, x.t) /\ SameBanks(v, x.t)
                          /\ y = Push(IF v.chain # "NULL" THEN ChainNext(x) ELSE x)
  <2>1. v \in Tracee BY ONLY <1>14
  <2> QED BY ONLY <1>12, <2>1, h \in Pairs, y = TranslateExit(h), ExitedIs
<1>16. y = Push(ChainNext(x)) BY ONLY <1>14, <1>15
<1>17. Kept(h.t, x.t) /\ x.t.restart = h.t.restart /\ x.t.restore
  BY ONLY <1>2, <1>4, <1>14, <1>15 DEF Alike, Untouched, SameBanks, SameStops, Kept
<1>18. ~x.t.restoreSeccomp /\ x.t.cur.res = h.k.regs.res
  BY ONLY <1>2, <1>4, <1>14, <1>15, ~h.t.restoreSeccomp DEF SameBanks
<1>19. x.t.chain = "list" /\ x.t.force /\ x.t.queue = q /\ x.t.workaround = "INACTIVE"
  BY ONLY <1>4, <1>14, <1>15 DEF Alike, SameChain
<1>20. Links(h, x) BY ONLY <1>6, <1>15, <1>17, <1>18, <1>19 DEF Links
<1> QED BY ONLY <1>16, <1>20, h \in Pairs, x \in Pairs, ChainOnIs

\* The exit of the call whose number could not be set: the wanted one is made.
LEMMA FaultyExitIs ==
    ASSUME NEW h \in Pairs, h.t.chain = "list", h.t.workaround = "FAULTY",
           h.t.queue = <<[num |-> "other", args |-> "host"]>>,
           NEW y, y = TranslateExit(h)
    PROVE  /\ y \in Pairs /\ Kept(h.t, y.t) /\ y.t.status = 0
           /\ y.t.chain = "list" /\ y.t.workaround = "REPLACED" /\ y.t.queue = <<>>
           /\ y.t.force = h.t.force /\ y.t.restoreSeccomp = h.t.restoreSeccomp
           /\ y.t.restart = "SYSCALL"
           /\ y.k = [h.k EXCEPT !.rerun = TRUE, !.regs = Regs("other", "host", h.k.regs.res)]
<1>1. PICK b : b = Began(h) OBVIOUS
<1>2. /\ b \in Tracee /\ b.cur = h.k.regs /\ b.restore = TRUE /\ Alike(h.t, b)
      /\ b.status = h.t.status /\ b.restoreSeccomp = h.t.restoreSeccomp
      /\ b.orig = h.t.orig /\ b.mod = h.t.mod
  BY ONLY <1>1, BeganIs
<1>3. b.chain = "list" /\ b.workaround = "FAULTY" BY <1>2 DEF Alike, SameChain
<1>4. PICK v : v = [b EXCEPT !.workaround = "REPLACED"] OBVIOUS
<1>5. v = Exited(h) BY ONLY <1>1, <1>3, <1>4 DEF Exited
<1>6. /\ v \in Tracee /\ v.cur = b.cur /\ SameBanks(b, v) /\ v.status = b.status
      /\ Untouched(b, v) /\ SameStops(b, v) /\ v.chain = b.chain /\ v.queue = b.queue
      /\ v.force = b.force /\ v.workaround = "REPLACED"
  BY ONLY <1>2, <1>4 DEF Tracee, Untouched, SameBanks, SameStops
<1>7. PICK x \in Pairs : /\ x.k = h.k /\ x.t.cur = v.cur /\ x.t.status = 0
                         /\ Alike(v, x.t) /\ SameBanks(v, x.t)
                         /\ y = Push(IF v.chain # "NULL" THEN ChainNext(x) ELSE x)
  <2>1. v \in Tracee BY ONLY <1>6
  <2> QED BY ONLY <1>5, <2>1, h \in Pairs, y = TranslateExit(h), ExitedIs
<1>8. y = Push(ChainNext(x)) BY ONLY <1>3, <1>6, <1>7
<1>9. PICK q : q = x.t.queue OBVIOUS
<1>10. q = <<[num |-> "other", args |-> "host"]>>
  BY ONLY <1>2, <1>6, <1>7, <1>9, h.t.queue = <<[num |-> "other", args |-> "host"]>> DEF Alike, SameChain
<1>11. PICK l : l = Head(q) OBVIOUS
<1>12. q # <<>> /\ l.num = "other" /\ l.args = "host" /\ Tail(q) = <<>>
  BY ONLY <1>10, <1>11
<1>13. /\ y \in Pairs
       /\ y.k = [x.k EXCEPT !.rerun = TRUE,
                            !.regs = Regs(Head(x.t.queue).num, Head(x.t.queue).args, x.t.cur.res)]
       /\ y.t.queue = Tail(x.t.queue) /\ y.t.restart = "SYSCALL"
       /\ y.t.chain = x.t.chain /\ y.t.force = x.t.force /\ y.t.workaround = x.t.workaround
       /\ Untouched(x.t, y.t) /\ y.t.status = x.t.status
       /\ y.t.orig = x.t.orig /\ y.t.mod = x.t.mod
       /\ y.t.restoreSeccomp = x.t.restoreSeccomp
       /\ y.t.exitPending = x.t.exitPending /\ y.t.seccomp = x.t.seccomp
  <2>1. x.t.queue # <<>> BY ONLY <1>9, <1>12
  <2> QED BY ONLY <1>8, <2>1, x \in Pairs, NextIs, ZenonT(60)
<1>14. Head(x.t.queue).num = "other" /\ Head(x.t.queue).args = "host" /\ y.t.queue = <<>>
  BY ONLY <1>9, <1>11, <1>12, <1>13
<1>15. x.t.cur.res = h.k.regs.res BY ONLY <1>2, <1>6, <1>7
<1>16. y.k = [h.k EXCEPT !.rerun = TRUE, !.regs = Regs("other", "host", h.k.regs.res)]
  BY ONLY <1>7, <1>13, <1>14, <1>15
<1>17. Kept(h.t, y.t)
  BY ONLY <1>2, <1>6, <1>7, <1>13 DEF Alike, Untouched, SameBanks, SameStops, Kept
<1>18. /\ y.t.chain = "list" /\ y.t.workaround = "REPLACED" /\ y.t.force = h.t.force
       /\ y.t.restoreSeccomp = h.t.restoreSeccomp /\ y.t.status = 0
  BY ONLY <1>2, <1>3, <1>6, <1>7, <1>13 DEF Alike, SameChain, SameBanks
<1> QED BY ONLY <1>13, <1>14, <1>16, <1>17, <1>18
-------------------------------------------------------------------------------
(* The stops.                                                              *)

\* The fields of the tracee no part of a stop changes but those named.
Rest(u, v) ==
    /\ v.status = u.status /\ v.already = u.already /\ v.restore = u.restore
    /\ v.restoreSeccomp = u.restoreSeccomp /\ v.cur = u.cur /\ v.orig = u.orig
    /\ v.mod = u.mod /\ v.rewrite = u.rewrite /\ SameChain(u, v)

\* How a stop is left by default.
Usual == IF t.seccomp = "ENABLED" /\ ~(t.exitPending \/ Chaining(t)) THEN "CONT" ELSE "SYSCALL"

\* The event loop begins with the default.
LEMMA StoppedIs ==
    ASSUME Shape, NEW h, h = Stopped
    PROVE  /\ h \in Pairs /\ h.k = k /\ Rest(t, h.t) /\ h.t.restart = Usual
           /\ h.t.last = t.last /\ h.t.seccomp = t.seccomp /\ h.t.exitPending = t.exitPending
           /\ h.t.skip = t.skip /\ h.t.suppressed = t.suppressed /\ h.t.signal = 0
<1>1. t \in Tracee /\ k \in Process /\ t.restart = "none" /\ t.signal = 0 BY DEF Shape
<1>2. PICK r : r = Usual OBVIOUS
<1>3. r \in {"CONT", "SYSCALL"} BY ONLY <1>2 DEF Usual
<1>4. PICK u : u = [t EXCEPT !.restart = r] OBVIOUS
<1>5. /\ u \in Tracee /\ Rest(t, u) /\ u.restart = r
      /\ u.last = t.last /\ u.seccomp = t.seccomp /\ u.exitPending = t.exitPending
      /\ u.skip = t.skip /\ u.suppressed = t.suppressed /\ u.signal = 0
  BY ONLY <1>1, <1>3, <1>4 DEF Tracee, Rest, SameChain
<1>6. Default(t) = u BY ONLY <1>1, <1>2, <1>4 DEF Default, ExitNecessary, Usual
<1>7. h = [t |-> u, k |-> k] BY ONLY <1>6, h = Stopped DEF Stopped
<1>8. h \in Pairs /\ h.t = u /\ h.k = k BY ONLY <1>1, <1>5, <1>7 DEF Pairs
<1> QED BY ONLY <1>2, <1>5, <1>8

\* The tracee goes on.
Resumed(h) ==
    /\ t' \in Tracee /\ Rest(h.t, t') /\ t'.last = h.t.restart /\ t'.restart = "none"
    /\ t'.signal = 0 /\ t'.seccomp = h.t.seccomp /\ t'.exitPending = h.t.exitPending
    /\ t'.skip = h.t.skip /\ t'.suppressed = h.t.suppressed
    /\ k' \in Process /\ k'.ev = "none" /\ k'.how = h.t.restart
    /\ k'.got = IF h.t.signal # 0 THEN h.t.signal ELSE h.k.got
    /\ k'.pc = h.k.pc /\ k'.sigsys = h.k.sigsys /\ k'.rerun = h.k.rerun
    /\ k'.regs = h.k.regs /\ k'.asked = h.k.asked /\ k'.answer = h.k.answer
    /\ k'.calls = h.k.calls /\ k'.sent = h.k.sent

\* restart_tracee() takes over what the handler left.
LEMMA RestartIs ==
    ASSUME NEW h \in Pairs, h.t.restart \in {"CONT", "SYSCALL"}, Restart(h)
    PROVE  Resumed(h)
<1>1. PICK u : u = h.t OBVIOUS
<1>2. PICK p : p = h.k OBVIOUS
<1>3. u \in Tracee /\ p \in Process /\ u.restart \in {"CONT", "SYSCALL"}
  BY ONLY <1>1, <1>2, h \in Pairs, h.t.restart \in {"CONT", "SYSCALL"} DEF Pairs
<1>4. PICK s : s = IF u.signal # 0 THEN u.signal ELSE p.got OBVIOUS
<1>5. s \in Nat BY ONLY <1>3, <1>4 DEF Tracee, Process
<1>6. PICK r : r = u.restart OBVIOUS
<1>7. r \in {"CONT", "SYSCALL"} BY ONLY <1>3, <1>6
<1>8. t' = [u EXCEPT !.last = r, !.restart = "none", !.signal = 0]
  BY ONLY <1>1, <1>6, Restart(h) DEF Restart
<1>9. k' = [p EXCEPT !.ev = "none", !.sig = 0, !.how = r, !.got = s]
  BY ONLY <1>1, <1>2, <1>4, <1>6, Restart(h) DEF Restart
<1>10. /\ t' \in Tracee /\ Rest(u, t') /\ t'.last = r /\ t'.restart = "none"
       /\ t'.signal = 0 /\ t'.seccomp = u.seccomp /\ t'.exitPending = u.exitPending
       /\ t'.skip = u.skip /\ t'.suppressed = u.suppressed
  BY ONLY <1>3, <1>7, <1>8 DEF Tracee, Rest, SameChain
<1>11. /\ k' \in Process /\ k'.ev = "none" /\ k'.how = r
       /\ k'.got = s
       /\ k'.pc = p.pc /\ k'.sigsys = p.sigsys /\ k'.rerun = p.rerun
       /\ k'.regs = p.regs /\ k'.asked = p.asked /\ k'.answer = p.answer
       /\ k'.calls = p.calls /\ k'.sent = p.sent
  BY ONLY <1>3, <1>5, <1>7, <1>9 DEF Process
<1> QED BY ONLY <1>1, <1>2, <1>4, <1>6, <1>10, <1>11 DEF Resumed

\* A report of a call reaches translate_syscall() as h, ...
Arrived(h) ==
    /\ h \in Pairs /\ h.k = k /\ Rest(t, h.t)
    /\ h.t.last = t.last /\ h.t.seccomp = t.seccomp /\ h.t.skip = t.skip
    /\ h.t.suppressed = t.suppressed /\ h.t.signal = 0
    /\ IF t.seccomp = "ENABLED"
       THEN /\ h.t.restart = IF t.status = 0 THEN "SYSCALL" ELSE "CONT"
            /\ h.t.exitPending = (t.status = 0)
       ELSE h.t.restart = "SYSCALL" /\ h.t.exitPending = t.exitPending

\* ... and leaves it as y, of which the event loop makes z.
Passed(y, z) ==
    /\ z \in Pairs /\ z.k = y.k /\ Rest(y.t, z.t) /\ z.t.exitPending = y.t.exitPending
    /\ z.t.last = y.t.last
    /\ z.t.skip = IF t.status = 0 THEN g.after /\ y.t.cur.num = "void" ELSE y.t.skip
    /\ IF y.t.suppressed # 0 /\ ~Chaining(y.t)
       THEN z.t.signal = y.t.suppressed /\ z.t.suppressed = 0
       ELSE z.t.signal = y.t.signal /\ z.t.suppressed = y.t.suppressed
    /\ IF y.t.seccomp = "DISABLING"
       THEN z.t.restart = "SYSCALL" /\ z.t.seccomp = "DISABLED"
       ELSE z.t.restart = y.t.restart /\ z.t.seccomp = y.t.seccomp

Relayed(h, z) == TranslateSyscall(h) \in Pairs => Passed(TranslateSyscall(h), z)

\* The parts of SyscallStop.
Begun(h0) ==
    [h0 EXCEPT !.t = IF h0.t.seccomp = "ENABLED"
                     THEN [h0.t EXCEPT !.restart = IF h0.t.status = 0 THEN "SYSCALL" ELSE "CONT",
                                       !.exitPending = (h0.t.status = 0)]
                     ELSE h0.t]
Skipped(h0) == [Begun(h0) EXCEPT !.t.already = FALSE, !.t.restart = "SYSCALL"]
Marked(y, h0) ==
    Redelivered([y EXCEPT !.t.skip = IF h0.t.status = 0 THEN g.after /\ y.t.cur.num = "void"
                                     ELSE @])
Stopping(h0, x) ==
    IF h0.t.seccomp = "DISABLING"
    THEN [h0 EXCEPT !.t.seccomp = "DISABLED", !.t.status = IF h0.t.status = 0 THEN 1 ELSE @]
    ELSE IF x.t.seccomp = "DISABLING"
    THEN [x EXCEPT !.t.restart = "SYSCALL", !.t.seccomp = "DISABLED"]
    ELSE x

\* What the stop does with a call it translates.
LEMMA SyscallStopIs ==
    ASSUME Shape, ~t.already, NEW z, z = SyscallStop(Stopped)
    PROVE  \E h \in Pairs : Arrived(h) /\ Relayed(h, z)
<1>0. /\ t \in Tracee /\ k \in Process /\ t.seccomp # "DISABLING"
      /\ g \in [detected : BOOLEAN, after : BOOLEAN]
  BY DEF Shape
<1>1. PICK s : s = Stopped OBVIOUS
<1>2. /\ s \in Pairs /\ s.k = k /\ Rest(t, s.t) /\ s.t.restart = Usual
      /\ s.t.last = t.last /\ s.t.seccomp = t.seccomp /\ s.t.exitPending = t.exitPending
      /\ s.t.skip = t.skip /\ s.t.suppressed = t.suppressed /\ s.t.signal = 0
  BY ONLY <1>1, Shape, StoppedIs
<1>3. PICK u : u = s.t OBVIOUS
<1>4. PICK a : a = [u EXCEPT !.restart = IF t.status = 0 THEN "SYSCALL" ELSE "CONT",
                             !.exitPending = (t.status = 0)] OBVIOUS
<1>5. PICK b : b = IF t.seccomp = "ENABLED" THEN a ELSE u OBVIOUS
<1>6. PICK h : h = [s EXCEPT !.t = b] OBVIOUS
<1>7. u \in Tracee BY ONLY <1>2, <1>3 DEF Pairs
<1>8. /\ a \in Tracee /\ Rest(u, a) /\ a.last = u.last /\ a.seccomp = u.seccomp
      /\ a.skip = u.skip /\ a.suppressed = u.suppressed /\ a.signal = u.signal
      /\ a.restart = IF t.status = 0 THEN "SYSCALL" ELSE "CONT"
      /\ a.exitPending = (t.status = 0)
  BY ONLY <1>4, <1>7, ZenonT(60) DEF Tracee, Rest, SameChain
<1>9. h \in Pairs /\ h.t = b /\ h.k = k
  BY ONLY <1>2, <1>5, <1>6, <1>7, <1>8 DEF Pairs
<1>10. Arrived(h)
  <2>1. CASE t.seccomp = "ENABLED"
    BY ONLY <1>2, <1>3, <1>5, <1>8, <1>9, <2>1 DEF Arrived, Rest, SameChain
  <2>2. CASE t.seccomp # "ENABLED"
    BY ONLY <1>2, <1>3, <1>5, <1>9, <2>2 DEF Arrived, Rest, SameChain, Usual
  <2> QED BY ONLY <2>1, <2>2
<1>11. SUFFICES ASSUME TranslateSyscall(h) \in Pairs
                PROVE  Passed(TranslateSyscall(h), z)
  <2>1. h \in Pairs BY ONLY <1>9
  <2>2. SUFFICES Relayed(h, z) BY ONLY <2>1, <2>2, <1>10
  <2> QED BY DEF Relayed
<1>12. PICK y : y = TranslateSyscall(h) OBVIOUS
<1>13. PICK e : e = IF t.status = 0 THEN g.after /\ y.t.cur.num = "void" ELSE y.t.skip OBVIOUS
<1>14. PICK v : v = [y.t EXCEPT !.skip = e] OBVIOUS
<1>15. PICK l : l = [y EXCEPT !.t = v] OBVIOUS
<1>16. y \in Pairs /\ y.t \in Tracee BY ONLY <1>11, <1>12 DEF Pairs
<1>17. e \in BOOLEAN
  <2>1. y.t.skip \in BOOLEAN BY ONLY <1>16 DEF Tracee
  <2> QED BY ONLY <1>13, <2>1
<1>18. /\ v \in Tracee /\ Rest(y.t, v) /\ v.exitPending = y.t.exitPending /\ v.last = y.t.last
       /\ v.skip = e /\ v.suppressed = y.t.suppressed /\ v.signal = y.t.signal
       /\ v.restart = y.t.restart /\ v.seccomp = y.t.seccomp
  BY ONLY <1>14, <1>16, <1>17 DEF Tracee, Rest, SameChain
<1>19. l \in Pairs /\ l.t = v /\ l.k = y.k BY ONLY <1>15, <1>16, <1>18 DEF Pairs
<1>20. PICK m : m = Redelivered(l) OBVIOUS
<1>21. /\ m \in Pairs /\ m.k = y.k /\ Rest(v, m.t) /\ m.t.exitPending = v.exitPending
       /\ m.t.last = v.last /\ m.t.skip = v.skip /\ m.t.restart = v.restart
       /\ m.t.seccomp = v.seccomp
       /\ IF y.t.suppressed # 0 /\ ~Chaining(y.t)
          THEN m.t.signal = y.t.suppressed /\ m.t.suppressed = 0
          ELSE m.t.signal = y.t.signal /\ m.t.suppressed = y.t.suppressed
  <2>1. Chaining(v) <=> Chaining(y.t) BY ONLY <1>18 DEF Chaining, Rest, SameChain
  <2>2. CASE y.t.suppressed # 0 /\ ~Chaining(y.t)
    <3>1. PICK c : c = [v EXCEPT !.signal = v.suppressed, !.suppressed = 0] OBVIOUS
    <3>2. v.suppressed # 0 /\ ~Chaining(v) BY ONLY <1>18, <2>1, <2>2
    <3>3. m = [l EXCEPT !.t = c]
      BY ONLY <1>19, <1>20, <3>1, <3>2 DEF Redelivered
    <3>4. v.suppressed \in Nat BY ONLY <1>18 DEF Tracee
    <3>5. /\ c \in Tracee /\ Rest(v, c) /\ c.exitPending = v.exitPending
          /\ c.last = v.last /\ c.skip = v.skip /\ c.restart = v.restart
          /\ c.seccomp = v.seccomp /\ c.signal = v.suppressed /\ c.suppressed = 0
      BY ONLY <1>18, <3>1, <3>4 DEF Tracee, Rest, SameChain
    <3>6. m \in Pairs /\ m.t = c /\ m.k = l.k BY ONLY <1>19, <3>3, <3>5 DEF Pairs
    <3> QED BY ONLY <1>18, <1>19, <2>2, <3>5, <3>6
  <2>3. CASE ~(y.t.suppressed # 0 /\ ~Chaining(y.t))
    <3>1. ~(v.suppressed # 0 /\ ~Chaining(v)) BY ONLY <1>18, <2>1, <2>3
    <3>2. m = l BY ONLY <1>19, <1>20, <3>1 DEF Redelivered
    <3> QED BY ONLY <1>18, <1>19, <2>3, <3>2 DEF Rest, SameChain
  <2> QED BY ONLY <2>2, <2>3
<1>22. z = IF m.t.seccomp = "DISABLING"
           THEN [m EXCEPT !.t.restart = "SYSCALL", !.t.seccomp = "DISABLED"] ELSE m
  <2>1. /\ s.t.status = t.status /\ ~s.t.already /\ s.t.seccomp = t.seccomp
        /\ s.t.seccomp # "DISABLING"
    BY <1>0, <1>2 DEF Rest
  <2>2. h = Begun(s)
    BY ONLY <1>3, <1>4, <1>5, <1>6, <2>1 DEF Begun
  <2>3. l = [y EXCEPT !.t.skip = IF s.t.status = 0 THEN g.after /\ y.t.cur.num = "void" ELSE @]
    BY ONLY <1>13, <1>14, <1>15, <2>1
  <2>4. m = Marked(TranslateSyscall(Begun(s)), s)
    BY ONLY <1>12, <1>20, <2>2, <2>3 DEF Marked
  <2>5. z = SyscallStop(s) BY ONLY <1>1, z = SyscallStop(Stopped)
  <2>6. z = IF m.t.seccomp = "DISABLING"
            THEN [m EXCEPT !.t.restart = "SYSCALL", !.t.seccomp = "DISABLED"] ELSE m
    <3>1. SyscallStop(s) = Stopping(s, IF s.t.already THEN Skipped(s)
                                       ELSE Marked(TranslateSyscall(Begun(s)), s))
      BY ONLY DEF SyscallStop, Stopping, Skipped, Begun, Marked
    <3>2. z = Stopping(s, m) BY ONLY <2>1, <2>4, <2>5, <3>1
    <3> QED BY ONLY <2>1, <3>2 DEF Stopping
  <2> QED BY ONLY <2>6
<1>23. CASE m.t.seccomp = "DISABLING"
  <2>1. PICK c : c = [m.t EXCEPT !.restart = "SYSCALL", !.seccomp = "DISABLED"] OBVIOUS
  <2>2. m.t \in Tracee BY ONLY <1>21 DEF Pairs
  <2>3. /\ c \in Tracee /\ Rest(m.t, c) /\ c.exitPending = m.t.exitPending
        /\ c.last = m.t.last /\ c.skip = m.t.skip /\ c.signal = m.t.signal
        /\ c.suppressed = m.t.suppressed
        /\ c.restart = "SYSCALL" /\ c.seccomp = "DISABLED"
    BY ONLY <2>1, <2>2 DEF Tracee, Rest, SameChain
  <2>4. z = [m EXCEPT !.t = c] BY ONLY <1>22, <1>23, <2>1
  <2>5. z \in Pairs /\ z.t = c /\ z.k = m.k BY ONLY <1>21, <2>3, <2>4 DEF Pairs
  <2>6. y.t.seccomp = "DISABLING" BY ONLY <1>18, <1>21, <1>23
  <2>7. z.t.skip = IF t.status = 0 THEN g.after /\ y.t.cur.num = "void" ELSE y.t.skip
    BY ONLY <1>13, <1>18, <1>21, <2>3, <2>5
  <2> QED BY ONLY <1>12, <1>18, <1>21, <2>3, <2>5, <2>6, <2>7 DEF Passed, Rest, SameChain
<1>24. CASE m.t.seccomp # "DISABLING"
  <2>1. z = m BY ONLY <1>22, <1>24
  <2>2. y.t.seccomp # "DISABLING" BY ONLY <1>18, <1>21, <1>24
  <2>3. z.t.skip = IF t.status = 0 THEN g.after /\ y.t.cur.num = "void" ELSE y.t.skip
    BY ONLY <1>13, <1>18, <1>21, <2>1
  <2> QED BY ONLY <1>12, <1>18, <1>21, <2>1, <2>2, <2>3 DEF Passed, Rest, SameChain
<1> QED BY ONLY <1>23, <1>24
-------------------------------------------------------------------------------
(* The reports of a call.                                                  *)

\* What HandleSyscall does, but for the entry the filter reported before.
LEMMA SyscallHandled ==
    ASSUME Shape, ~t.already, HandleSyscall
    PROVE  /\ conf' = conf /\ g' = g /\ k.ev = "syscall"
           /\ \E h \in Pairs : Arrived(h) /\ \E z : Relayed(h, z) /\ Restart(z)
<1>1. PICK z \in {SyscallStop(Stopped)} : Restart(z) BY DEF HandleSyscall
<1>2. PICK h \in Pairs : Arrived(h) /\ Relayed(h, z) BY <1>1, SyscallStopIs
<1> QED BY <1>1, <1>2 DEF HandleSyscall

\* What stays in such a step, and what follows from that.
Onward ==
    /\ conf' = conf /\ g' = g /\ k'.ev = "none"
    /\ t' \in Tracee /\ k' \in Process
    /\ t'.restart = "none" /\ t'.signal = 0 /\ t'.last = k'.how
    /\ t'.seccomp = t.seccomp /\ t'.rewrite = t.rewrite
    /\ t'.suppressed = t.suppressed
    /\ k'.pc = k.pc /\ k'.asked = k.asked /\ k'.calls = k.calls
    /\ k'.sent = k.sent /\ k'.got = k.got

\* The entry of a call, translated to y and left as z.
LEMMA EntryStep ==
    ASSUME Common, ~t.already, t.status = 0, NEW h \in Pairs, Arrived(h), NEW z, Restart(z),
           Relayed(h, z), NEW y \in Pairs, y = TranslateEnter(h), Untouched(h.t, y.t),
           y.t.seccomp = h.t.seccomp, y.t.restart = "SYSCALL",
           Chaining(t) => Chaining(y.t), k.ev = "syscall", conf' = conf, g' = g,
           NEW r, y.k = [h.k EXCEPT !.regs = r]
    PROVE  /\ Onward /\ k'.how = "SYSCALL" /\ Rest(y.t, t') /\ t'.exitPending = y.t.exitPending
           /\ t'.skip = (g.after /\ y.t.cur.num = "void")
           /\ k'.regs = r /\ k'.sigsys = k.sigsys /\ k'.rerun = k.rerun
<1>1. /\ h.k = k /\ h.t.status = 0 /\ h.t.signal = 0 /\ h.t.seccomp = t.seccomp
      /\ h.t.rewrite = t.rewrite /\ h.t.suppressed = t.suppressed
  BY DEF Arrived, Rest
<1>2. t.seccomp # "DISABLING" /\ (t.suppressed # 0 => Chaining(t))
  BY DEF Common, Shape, Signals
<1>3. TranslateSyscall(h) = y BY <1>1 DEF TranslateSyscall
<1>4. Passed(y, z) BY ONLY <1>3, Relayed(h, z), y \in Pairs DEF Relayed
<1>5. /\ z \in Pairs /\ z.k = y.k /\ Rest(y.t, z.t) /\ z.t.exitPending = y.t.exitPending
      /\ z.t.skip = (g.after /\ y.t.cur.num = "void")
      /\ z.t.signal = 0 /\ z.t.suppressed = t.suppressed
      /\ z.t.restart = "SYSCALL" /\ z.t.seccomp = t.seccomp
  BY <1>1, <1>2, <1>4 DEF Passed, Untouched
<1>6. Resumed(z) BY ONLY <1>5, Restart(z), RestartIs
<1>7. PICK p : p = y.k OBVIOUS
<1>8. /\ p.pc = k.pc /\ p.asked = k.asked /\ p.calls = k.calls /\ p.sent = k.sent
      /\ p.got = k.got /\ p.sigsys = k.sigsys /\ p.rerun = k.rerun /\ p.regs = r
  <2>1. p = [k EXCEPT !.regs = r] /\ k \in Process BY <1>1, <1>7 DEF Common, Shape
  <2> QED BY ONLY <2>1 DEF Process
<1>9. /\ t' \in Tracee /\ Rest(y.t, t') /\ t'.last = "SYSCALL" /\ t'.restart = "none"
      /\ t'.signal = 0 /\ t'.seccomp = t.seccomp /\ t'.exitPending = y.t.exitPending
      /\ t'.skip = (g.after /\ y.t.cur.num = "void") /\ t'.suppressed = t.suppressed
  BY ONLY <1>5, <1>6 DEF Resumed, Rest, SameChain
<1>10. /\ k' \in Process /\ k'.ev = "none" /\ k'.how = "SYSCALL" /\ k'.got = p.got
       /\ k'.pc = p.pc /\ k'.sigsys = p.sigsys /\ k'.rerun = p.rerun
       /\ k'.regs = p.regs /\ k'.asked = p.asked
       /\ k'.calls = p.calls /\ k'.sent = p.sent
  BY ONLY <1>5, <1>6, <1>7 DEF Resumed
<1>11. t'.rewrite = t.rewrite BY <1>1, <1>9 DEF Rest, Untouched
<1> QED BY ONLY <1>8, <1>9, <1>10, <1>11, conf' = conf, g' = g DEF Onward

\* The number of every call can be set but that of one replaced by another.
LEMMA SettableIs ==
    ASSUME NEW n \in Kinds \cup {"other"}, n # "swapped" \/ conf.canSet
    PROVE  Settable(n) \/ Wanted(n).num = "void"
BY DEF Settable, Wanted, Handled, Regs, Kinds

\* What the kernel is given for a call that is to be trapped.
LEMMA TrappedIs ==
    ASSUME NEW n \in Trapped
    PROVE  Wanted(n).num = n /\ n # "void" /\ n # "swapped" /\ n # "late"
BY DEF Trapped, Wanted, Handled, Regs

\* What holds in every phase goes on to hold.
LEMMA CommonStep ==
    ASSUME Common, Onward, k.ev \in {"syscall", "fork"}, ~Filtering => k'.how = "SYSCALL",
           SkipRight', t'.restoreSeccomp => t.restoreSeccomp, Chaining(t) => Chaining(t)'
    PROVE  Common'
<1> USE DEF Common
<1>1. Shape' BY DEF Shape, Onward, Filtering
<1>2. Detection' BY DEF Detection, Onward, Filtering
<1>3. Standing' BY DEF Standing, Onward
<1>4. Signals' BY DEF Signals, Onward
<1> QED BY <1>1, <1>2, <1>3, <1>4

\* The step of a call PRoot sees at its entry: Fresh to Entered, or to Faulty.
LEMMA FreshSyscall ==
    ASSUME Common, Fresh, HandleSyscall
    PROVE  FlowInv'
<1>0. /\ Shape /\ conf \in AllHosts /\ k.asked \in Kinds /\ ~t.already /\ t.status = 0
      /\ t.restoreSeccomp \in BOOLEAN
  BY FlowAssumption DEF Common, Shape, Fresh, AllHosts, Tracee
<1>1. /\ conf' = conf /\ g' = g /\ k.ev = "syscall"
      /\ \E h \in Pairs : Arrived(h) /\ \E z : Relayed(h, z) /\ Restart(z)
  BY <1>0, SyscallHandled
<1>2. PICK h \in Pairs : Arrived(h) /\ \E z : Relayed(h, z) /\ Restart(z) BY <1>1
<1>2a. PICK z : Relayed(h, z) /\ Restart(z) BY <1>2
<1>3. PICK n : n = Current OBVIOUS
<1>4. n \in Kinds \cup {"other"} /\ k.regs = Regs(n, "guest", "none")
  BY <1>0, <1>3 DEF Fresh, Current
<1>5. PICK y : y = TranslateEnter(h) OBVIOUS
<1>6. /\ h.k = k /\ h.t.status = 0 /\ h.t.signal = 0 /\ h.t.seccomp = t.seccomp
      /\ h.t.restart = "SYSCALL" /\ AtRest(h.t) /\ h.t.restoreSeccomp = t.restoreSeccomp
      /\ h.t.chain = "NULL" /\ ~h.t.already
      /\ h.t.exitPending = IF Filtering THEN TRUE ELSE t.exitPending
  BY <1>0, <1>2 DEF Arrived, Rest, SameChain, Fresh, Idle, AtRest, Filtering
<1>7. /\ k.how = "SYSCALL" /\ (k.pc = "seccomp" \/ k.pc = "body")
      /\ k.pc = "seccomp" <=> conf.order = "new"
      /\ k.pc = "body" => Current \notin Trapped
  BY <1>0, <1>1 DEF Fresh, FreshAt, AllHosts
<1>8. CASE n # "swapped" \/ conf.canSet
  <2>1. Settable(n) \/ (Wanted(n).num = "void" /\ h.t.restart = "SYSCALL")
    BY <1>4, <1>6, <1>8, SettableIs
  <2>2. /\ y \in Pairs /\ AtEntry(h.t, y.t, n) /\ SameChain(h.t, y.t)
        /\ y.t.restart = IF n = "late" THEN "SYSCALL" ELSE h.t.restart
        /\ y.t.status = IF y.t.restart = "CONT" THEN 0 ELSE StageOf(n)
        /\ y.t.cur.num = Wanted(n).num
        /\ y.k = [h.k EXCEPT !.regs = Given(n)]
    <3>1. h.k.regs = Regs(n, "guest", "none") /\ h.t.chain = "NULL" BY <1>4, <1>6
    <3> QED BY ONLY <1>4, <1>5, <2>1, <3>1, h \in Pairs, EntryIs
  <2>3. /\ y \in Pairs /\ Untouched(h.t, y.t) /\ y.t.seccomp = h.t.seccomp
        /\ y.t.restart = "SYSCALL" /\ AtRest(y.t)
        /\ y.t.restoreSeccomp = t.restoreSeccomp
        /\ y.t.status = StageOf(n) /\ y.t.orig = Regs(n, "guest", "none") /\ y.t.mod = Handled(n)
        /\ y.t.exitPending = IF n = "late" THEN TRUE ELSE h.t.exitPending
        /\ y.t.cur.num = Wanted(n).num
    BY <1>6, <2>2 DEF AtEntry, SameChain, AtRest
  <2>4. Chaining(t) => Chaining(y.t)
    BY <2>3 DEF Chaining, Fresh, Idle, AtRest
  <2>5. PICK r : r = Given(n) OBVIOUS
  <2>6. y.k = [h.k EXCEPT !.regs = r] BY <2>2, <2>5
  <2>7. /\ Onward /\ k'.how = "SYSCALL" /\ Rest(y.t, t') /\ t'.exitPending = y.t.exitPending
        /\ t'.skip = (g.after /\ y.t.cur.num = "void")
        /\ k'.regs = r /\ k'.sigsys = k.sigsys /\ k'.rerun = k.rerun
    <3>1. Untouched(h.t, y.t) /\ y.t.seccomp = h.t.seccomp /\ y.t.restart = "SYSCALL" /\ y \in Pairs
      BY <2>3
    <3> QED BY ONLY <1>0, <1>1, <1>2, <1>2a, <1>5, <2>4, <2>6, <3>1, Common, EntryStep
  <2>8. /\ k'.asked \in conf.kinds /\ Banks(n)' /\ ~t'.already /\ Idle' /\ Plain'
        /\ t'.restoreSeccomp = t.restoreSeccomp
    BY <1>6, <2>3, <2>7 DEF Onward, Fresh, Banks, StageOf, Idle, Plain, AtRest, Rest, SameChain, Regs,
                            Untouched
  <2>9. EnteredAt' BY <1>1, <1>7, <2>7 DEF EnteredAt, Onward, Plain, Fresh
  <2>10. Current' = n BY <1>3, <2>7, <2>8 DEF Current, Onward
  <2>11. k'.regs = Ran(Given(n))' BY <1>1, <1>7, <2>5, <2>7 DEF Onward, Ran, Given, Settable
  <2>12. t'.skip <=> g.after /\ Wanted(n).num = "void" BY <2>3, <2>7
  <2>13. Filtering' => t'.exitPending BY <1>6, <2>3, <2>7 DEF Onward, Filtering
  <2>14. k'.pc = "seccomp" /\ ~t'.restoreSeccomp => Late'
    BY <1>6, <1>7, <2>3, <2>7, <2>8, <2>13 DEF Onward, Fresh, Steady, Late, Filtering
  <2>15. g.after => conf.order = "new" BY DEF Common, Detection
  <2>16. Entered'
    <3>1. k'.ev = "none" /\ k'.pc = k.pc /\ conf' = conf BY <2>7 DEF Onward
    <3>2. n \in Trapped => ~t'.skip BY <2>12, TrappedIs
    <3>3. n = "swapped" => conf'.canSet BY <1>8, <3>1
    <3>4. k'.pc # "seccomp" => n \notin Trapped BY <1>3, <1>7, <3>1
    <3>5. k'.pc # "seccomp" => ~t'.skip BY <1>7, <2>12, <2>15, <3>1
    <3> QED BY <2>8, <2>9, <2>10, <2>11, <2>12, <2>13, <2>14, <3>1, <3>2, <3>3, <3>4, <3>5 DEF Entered
  <2>17. SkipRight' BY <2>12, <2>13, <2>15, <2>7 DEF SkipRight, Onward
  <2>18. Chaining(t) => Chaining(t)' BY <2>8 DEF Chaining, Fresh, Idle
  <2>19. Common'
    <3>1. t'.restoreSeccomp => t.restoreSeccomp BY <2>8
    <3>2. k.ev \in {"syscall", "fork"} BY <1>1
    <3> QED BY ONLY <2>7, <2>17, <2>18, <3>1, <3>2, Common, CommonStep
  <2> QED BY ONLY <2>16, <2>19 DEF FlowInv, Phases
<1>9. CASE n = "swapped" /\ ~conf.canSet
  <2>1. /\ AtRest(h.t) /\ h.t.restart = "SYSCALL" /\ h.k.regs = Regs("swapped", "guest", "none")
    BY <1>4, <1>6, <1>9
  <2>2. /\ y \in Pairs /\ AtEntry(h.t, y.t, "swapped")
        /\ y.t.chain = "list" /\ y.t.workaround = "FAULTY"
        /\ y.t.queue = <<[num |-> "other", args |-> "host"]>>
        /\ y.t.restart = "SYSCALL" /\ y.t.status = 1 /\ y.t.cur.num = "other"
        /\ y.k = [h.k EXCEPT !.regs = Regs("swapped", "bad", "none")]
    BY ONLY <1>5, <1>9, <2>1, h \in Pairs, StuckIs
  <2>3. PICK q : q = <<[num |-> "other", args |-> "host"]>> OBVIOUS
  <2>4. PICK r : r = Regs("swapped", "bad", "none") OBVIOUS
  <2>5. /\ y \in Pairs /\ Untouched(h.t, y.t) /\ y.t.seccomp = h.t.seccomp
        /\ y.t.restart = "SYSCALL" /\ y.t.queue = q
        /\ y.t.restoreSeccomp = t.restoreSeccomp /\ y.t.orig = Regs("swapped", "guest", "none")
        /\ y.t.mod = Handled("swapped") /\ y.t.exitPending = h.t.exitPending
        /\ y.k = [h.k EXCEPT !.regs = r] /\ y.t.force = h.t.force
    BY ONLY <1>6, <2>2, <2>3, <2>4 DEF AtEntry
  <2>6. Chaining(y.t) BY <2>2 DEF Chaining
  <2>7. /\ Onward /\ k'.how = "SYSCALL" /\ Rest(y.t, t') /\ t'.exitPending = y.t.exitPending
        /\ t'.skip = (g.after /\ y.t.cur.num = "void")
        /\ k'.regs = r /\ k'.sigsys = k.sigsys /\ k'.rerun = k.rerun
    <3>1. Untouched(h.t, y.t) /\ y.t.seccomp = h.t.seccomp /\ y.t.restart = "SYSCALL" /\ y \in Pairs
          /\ y.k = [h.k EXCEPT !.regs = r]
      BY <2>5
    <3> QED BY ONLY <1>0, <1>1, <1>2, <1>2a, <1>5, <2>6, <3>1, Common, EntryStep
  <2>8. /\ ~t'.restoreSeccomp /\ k'.asked = "swapped" /\ "swapped" \in conf.kinds
        /\ ~t'.skip /\ ~t'.already /\ t'.status = 1
    BY <1>0, <1>3, <1>6, <1>9, <2>2, <2>5, <2>7 DEF Current, Onward, Rest, Fresh, Untouched
  <2>9. EnteredAt' BY <1>1, <1>7, <2>7 DEF EnteredAt, Onward, Plain, Fresh
  <2>10. /\ t'.chain = "list" /\ t'.workaround = "FAULTY" /\ t'.queue = q /\ ~t'.force
         /\ t'.orig.num = "swapped" /\ t'.orig.args = "guest" /\ t'.mod = Handled("swapped")
    BY <1>6, <2>2, <2>5, <2>7 DEF Rest, SameChain, AtRest, Regs
  <2>11. k'.regs = Ran(Regs("swapped", "bad", "none"))'
    BY <1>7, <2>4, <2>7 DEF Onward, Ran
  <2>12. Faulty'
    BY <1>9, <2>3, <2>7, <2>8, <2>9, <2>10, <2>11 DEF Faulty, Inserting, Onward
  <2>13. SkipRight' BY <2>8 DEF SkipRight
  <2>14. Common'
    <3>1. t'.restoreSeccomp => t.restoreSeccomp BY <2>8
    <3>2. Chaining(t)' BY <2>10 DEF Chaining
    <3>3. k.ev \in {"syscall", "fork"} BY <1>1
    <3> QED BY ONLY <2>7, <2>13, <3>1, <3>2, <3>3, Common, CommonStep
  <2> QED BY ONLY <2>12, <2>14 DEF FlowInv, Phases
<1> QED BY <1>8, <1>9

\* The exit of a call, translated to y, leaves the tracee so.
Left(y) ==
    /\ conf' = conf /\ g' = g /\ k'.ev = "none"
    /\ t' \in Tracee /\ k' \in Process
    /\ t'.restart = "none" /\ t'.signal = 0 /\ t'.last = k'.how /\ Rest(y.t, t')
    /\ t'.exitPending = y.t.exitPending /\ t'.skip = t.skip
    /\ IF y.t.seccomp = "DISABLING" THEN t'.seccomp = "DISABLED" /\ k'.how = "SYSCALL"
       ELSE t'.seccomp = y.t.seccomp /\ k'.how = y.t.restart
    /\ IF t.suppressed # 0 /\ ~Chaining(y.t)
       THEN t'.suppressed = 0 /\ k'.got = t.suppressed
       ELSE t'.suppressed = t.suppressed /\ k'.got = y.k.got
    /\ k'.pc = y.k.pc /\ k'.sigsys = y.k.sigsys /\ k'.rerun = y.k.rerun
    /\ k'.regs = y.k.regs /\ k'.asked = y.k.asked
    /\ k'.calls = y.k.calls /\ k'.sent = y.k.sent

\* The exit that HandleSyscall reports.
LEMMA ExitStep ==
    ASSUME Shape, ~t.already, t.status # 0, NEW h \in Pairs, Arrived(h), NEW z, Restart(z),
           Relayed(h, z), NEW y \in Pairs, y = TranslateExit(h), Untouched(h.t, y.t),
           y.t.restart \in {"CONT", "SYSCALL"}, conf' = conf, g' = g
    PROVE  Left(y)
<1>1. /\ h.t.status # 0 /\ h.t.signal = 0
      /\ h.t.suppressed = t.suppressed /\ h.t.skip = t.skip
  BY DEF Arrived, Rest
<1>2. TranslateSyscall(h) = y BY <1>1 DEF TranslateSyscall
<1>3. Passed(y, z) BY ONLY <1>2, Relayed(h, z), y \in Pairs DEF Relayed
<1>4. y.t.suppressed = t.suppressed /\ y.t.signal = 0 /\ y.t.skip = t.skip
  BY ONLY <1>1, Untouched(h.t, y.t) DEF Untouched
<1>5. /\ z \in Pairs /\ z.k = y.k /\ Rest(y.t, z.t) /\ z.t.exitPending = y.t.exitPending
      /\ z.t.skip = t.skip
      /\ IF t.suppressed # 0 /\ ~Chaining(y.t)
         THEN z.t.signal = t.suppressed /\ z.t.suppressed = 0
         ELSE z.t.signal = 0 /\ z.t.suppressed = t.suppressed
      /\ IF y.t.seccomp = "DISABLING"
         THEN z.t.restart = "SYSCALL" /\ z.t.seccomp = "DISABLED"
         ELSE z.t.restart = y.t.restart /\ z.t.seccomp = y.t.seccomp
  BY ONLY <1>3, <1>4, t.status # 0 DEF Passed
<1>6. z.t.restart \in {"CONT", "SYSCALL"} BY ONLY <1>5, y.t.restart \in {"CONT", "SYSCALL"}
<1>7. Resumed(z) BY ONLY <1>5, <1>6, Restart(z), RestartIs
<1>8. /\ t' \in Tracee /\ Rest(y.t, t') /\ t'.last = z.t.restart /\ t'.restart = "none"
      /\ t'.signal = 0 /\ t'.seccomp = z.t.seccomp /\ t'.exitPending = y.t.exitPending
      /\ t'.skip = t.skip /\ t'.suppressed = z.t.suppressed
  BY ONLY <1>5, <1>7 DEF Resumed, Rest, SameChain
<1>9. /\ k' \in Process /\ k'.ev = "none" /\ k'.how = z.t.restart
      /\ k'.got = IF z.t.signal # 0 THEN z.t.signal ELSE y.k.got
      /\ k'.pc = y.k.pc /\ k'.sigsys = y.k.sigsys /\ k'.rerun = y.k.rerun
      /\ k'.regs = y.k.regs /\ k'.asked = y.k.asked
      /\ k'.calls = y.k.calls /\ k'.sent = y.k.sent
  BY ONLY <1>5, <1>7 DEF Resumed
<1> QED BY ONLY <1>5, <1>8, <1>9, conf' = conf, g' = g DEF Left

\* What holds in every phase goes on to hold at an exit.
LEMMA CommonExit ==
    ASSUME Common, NEW y, Left(y), k.ev \in {"syscall", "sigsys"},
           y.t.seccomp \in {t.seccomp, "DISABLING"}, y.t.rewrite = t.rewrite,
           ~y.t.restoreSeccomp,
           y.t.seccomp = "DISABLING" => t.seccomp = "ENABLED",
           ~Filtering => y.t.restart = "SYSCALL", y.k.got = k.got,
           y.k.pc = k.pc, y.k.asked = k.asked, y.k.calls = k.calls, y.k.sent = k.sent,
           SkipRight'
    PROVE  Common'
<1> USE DEF Common
<1>0. t'.restoreSeccomp = y.t.restoreSeccomp /\ t'.rewrite = t.rewrite
      /\ (Chaining(t)' <=> Chaining(y.t))
  BY DEF Left, Rest, SameChain, Chaining
<1>1. Shape' BY DEF Shape, Left, Filtering
<1>2. Detection' BY DEF Detection, Left, Filtering
<1>3. Standing' BY <1>0 DEF Standing, Left
<1>4. Signals' BY <1>0 DEF Signals, Left, Shape, Tracee
<1> QED BY <1>1, <1>2, <1>3, <1>4

\* The result the kernel gives a call, and the one the guest gets.
LEMMA ResultIs ==
    ASSUME NEW n \in Kinds \cup {"other"}, n \notin Trapped, n = "swapped" => conf.canSet
    PROVE  ExitRes(n, RanRes(Given(n))) = IF n \in {"other", "chain"} THEN "kernel" ELSE Expected(n)
<1>1. CASE Settable(n)
  BY <1>1 DEF ExitRes, RanRes, Given, Wanted, Handled, Regs, Expected, Trapped, Kinds
<1>2. CASE ~Settable(n)
  BY <1>2 DEF Settable, ExitRes, RanRes, Given, Wanted, Handled, Regs, Expected, Trapped, Kinds
<1> QED BY <1>1, <1>2

\* A SIGSYS that is to be dropped is nobody else's where void calls are not trapped.
LEMMA SkipKept ==
    ASSUME Common, Served(conf), t.skip /\ Filtering => Late /\ ~conf.trapsVoid,
           t'.skip = t.skip, conf' = conf, g' = g, t'.seccomp = "ENABLED" => Filtering
    PROVE  SkipRight'
<1>1. Detection /\ SkipRight /\ g \in [detected : BOOLEAN, after : BOOLEAN]
      /\ conf.filter \in BOOLEAN /\ conf.trapsVoid \in BOOLEAN
  BY FlowAssumption DEF Common, Shape, AllHosts
<1> QED BY <1>1 DEF SkipRight, Served, Detection, Filtering, Late

\* The step of a call whose exit is reported: Entered to Finished, or to Chained.
LEMMA EnteredSyscall ==
    ASSUME Common, Served(conf), Entered, HandleSyscall
    PROVE  FlowInv'
<1>0. /\ Shape /\ conf \in AllHosts /\ k.asked \in Kinds /\ ~t.already /\ t.status # 0
      /\ t \in Tracee /\ k \in Process /\ t.seccomp # "DISABLING"
  BY FlowAssumption DEF Common, Shape, Entered, AllHosts, Banks
<1>1. /\ conf' = conf /\ g' = g /\ k.ev = "syscall"
      /\ \E h \in Pairs : Arrived(h) /\ \E z : Relayed(h, z) /\ Restart(z)
  BY <1>0, SyscallHandled
<1>2. PICK h \in Pairs : Arrived(h) /\ \E z : Relayed(h, z) /\ Restart(z) BY <1>1
<1>3. PICK z : Relayed(h, z) /\ Restart(z) BY <1>2
<1>4. PICK n : n = Current OBVIOUS
<1>5. n \in Kinds \cup {"other"} /\ Banks(n) /\ (t.restoreSeccomp => n = "other") /\ (~t.restoreSeccomp => n = k.asked)
  BY <1>0, <1>4 DEF Entered, Current
<1>6. PICK y : y = TranslateExit(h) OBVIOUS
<1>7. k.pc = "back" /\ Plain /\ n \notin Trapped /\ (n = "swapped" => conf.canSet)
  BY <1>0, <1>1, <1>4 DEF Entered, EnteredAt
<1>8. /\ h.k = k /\ h.t.status = t.status /\ h.t.seccomp = t.seccomp
      /\ AtRest(h.t) /\ h.t.restoreSeccomp = t.restoreSeccomp
      /\ h.t.chain = "NULL" /\ ~h.t.already /\ h.t.orig = t.orig /\ h.t.mod = t.mod
      /\ h.t.rewrite = t.rewrite /\ h.t.suppressed = t.suppressed
      /\ h.t.exitPending = IF Filtering THEN FALSE ELSE t.exitPending
      /\ h.t.restart = IF Filtering THEN "CONT" ELSE "SYSCALL"
  BY <1>0, <1>2 DEF Arrived, Rest, SameChain, Entered, Idle, AtRest, Filtering
<1>9. k.regs.res = RanRes(Given(n)) /\ k.regs.num = Given(n).num /\ k.regs.args = Given(n).args
  BY <1>4, <1>7 DEF Entered, Ran, Regs
<1>10. SkipRight' \/ t'.skip # t.skip \/ (t'.seccomp = "ENABLED" /\ ~Filtering)
  BY <1>1, <1>7, SkipKept DEF Entered
<1>11. CASE n # "chain"
  <2>1. n \in Single /\ Due(h.t, n) BY <1>5, <1>8, <1>11 DEF Single, Due, Banks, StageOf
  <2>2. /\ y \in Pairs /\ AtRest(y.t) /\ Untouched(h.t, y.t)
        /\ y.k = [h.k EXCEPT !.regs = Regs(Own(h.t).num, Own(h.t).args, ExitRes(n, h.k.regs.res))]
        /\ y.t.orig = h.t.orig /\ y.t.mod = h.t.mod /\ y.t.status = 0
        /\ y.t.restoreSeccomp = FALSE
        /\ y.t.exitPending = IF n = "late" THEN TRUE ELSE h.t.exitPending
        /\ y.t.restart = IF n = "late" THEN "SYSCALL" ELSE h.t.restart
        /\ y.t.seccomp = IF n = "ptrace" /\ h.t.seccomp = "ENABLED" THEN "DISABLING"
                         ELSE h.t.seccomp
    <3>1. /\ h.t.queue = <<>> /\ ~h.t.force
          /\ IF h.t.chain = "NULL" THEN h.t.workaround = "INACTIVE" ELSE h.t.workaround = "REPLACED"
      BY <1>8 DEF AtRest
    <3>2. y \in Pairs /\ Ends(h, y, n) BY ONLY <1>6, <2>1, <3>1, h \in Pairs, ExitIs
    <3> QED BY ONLY <3>2 DEF Ends
  <2>3. PICK r : r = Regs(Own(h.t).num, Own(h.t).args, ExitRes(n, k.regs.res)) OBVIOUS
  <2>4. y.k = [k EXCEPT !.regs = r] BY ONLY <1>8, <2>2, <2>3
  <2>5. r.res = Expected(k.asked)
    <3>1. r.res = IF n \in {"other", "chain"} THEN "kernel" ELSE Expected(n)
      BY <1>5, <1>7, <1>9, <2>3, ResultIs DEF Regs
    <3>2. t.restoreSeccomp => k.asked = "blocked" BY DEF Common, Standing
    <3> QED BY <1>5, <1>11, <3>1, <3>2 DEF Expected, Kinds
  <2>6. y.t.restart \in {"CONT", "SYSCALL"} BY <1>8, <2>2
  <2>7. Left(y) BY ONLY <1>0, <1>1, <1>2, <1>3, <1>6, <2>2, <2>6, ExitStep
  <2>8. /\ y.k.pc = k.pc /\ y.k.asked = k.asked /\ y.k.calls = k.calls /\ y.k.sent = k.sent
        /\ y.k.got = k.got /\ y.k.sigsys = k.sigsys /\ y.k.rerun = k.rerun /\ y.k.regs = r
    BY ONLY <1>0, <2>4 DEF Process
  <2>9. SkipRight' BY <1>8, <1>10, <2>2, <2>7 DEF Left, Filtering
  <2>10. Common'
    <3>1. /\ y.t.seccomp \in {t.seccomp, "DISABLING"} /\ ~y.t.restoreSeccomp
          /\ y.t.seccomp = "DISABLING" => t.seccomp = "ENABLED"
          /\ ~Filtering => y.t.restart = "SYSCALL"
          /\ y.t.rewrite = t.rewrite
      BY <1>0, <1>8, <2>2 DEF Filtering, Untouched
    <3>2. k.ev \in {"syscall", "sigsys"} BY <1>1
    <3> QED BY ONLY <2>7, <2>8, <2>9, <3>1, <3>2, Common, CommonExit
  <2>11. Steady'
    <3>1. n = "late" => "late" \in conf.kinds BY <1>5 DEF Entered
    <3> QED BY <1>0, <1>8, <2>2, <2>7, <3>1 DEF Left, Steady, Late, Filtering
  <2>12. Finished'
    BY <1>5, <1>7, <1>8, <2>2, <2>5, <2>7, <2>8, <2>11
       DEF Finished, Left, Rest, SameChain, Idle, AtRest, Plain, Untouched, Entered
  <2> QED BY ONLY <2>10, <2>12 DEF FlowInv, Phases
<1>12. CASE n = "chain"
  <2>1. ChainOn(h, y)
    <3>1. ~h.t.restoreSeccomp BY <1>5, <1>8, <1>12
    <3>2. AtRest(h.t) /\ Due(h.t, "chain") BY <1>5, <1>8, <1>12 DEF Due, Banks, StageOf
    <3> QED BY ONLY <1>6, <3>1, <3>2, h \in Pairs, ChainStartIs
  <2>2. /\ y \in Pairs /\ Untouched(h.t, y.t) /\ y.t.seccomp = h.t.seccomp
        /\ y.t.orig = h.t.orig /\ y.t.mod = h.t.mod /\ y.t.exitPending = h.t.exitPending
        /\ y.t.restoreSeccomp = FALSE /\ y.t.status = 0 /\ y.t.workaround = "INACTIVE"
        /\ y.t.restart \in {"CONT", "SYSCALL"} /\ (~Filtering => y.t.restart = "SYSCALL")
    BY <1>8, <2>1 DEF ChainOn, Kept
  <2>3. k.asked = "chain" /\ "chain" \in conf.kinds /\ ~t.restoreSeccomp /\ t.suppressed = 0
    BY <1>0, <1>5, <1>12 DEF Entered, Idle, Common, Signals, Chaining
  <2>4. k.regs.res = "kernel"
    <3>1. Given(n) = Regs("chain", "guest", "none")
      BY <1>12 DEF Given, Settable, Wanted, Handled, Regs
    <3> QED BY <1>9, <3>1 DEF RanRes, Regs
  <2>5. Left(y) BY ONLY <1>0, <1>1, <1>2, <1>3, <1>6, <2>2, ExitStep
  <2>6. SkipRight' BY <1>8, <1>10, <2>2, <2>5 DEF Left, Filtering
  <2>7. ASSUME NEW p, y.k = p, p.pc = k.pc, p.asked = k.asked, p.calls = k.calls,
               p.sent = k.sent, p.got = k.got
        PROVE  Common'
    <3>1. /\ y.t.seccomp \in {t.seccomp, "DISABLING"} /\ ~y.t.restoreSeccomp
          /\ y.t.seccomp = "DISABLING" => t.seccomp = "ENABLED"
          /\ ~Filtering => y.t.restart = "SYSCALL"
          /\ y.t.rewrite = t.rewrite
      BY <1>0, <1>8, <2>2 DEF Filtering, Untouched
    <3>2. k.ev \in {"syscall", "sigsys"} BY <1>1
    <3> QED BY ONLY <2>5, <2>6, <2>7, <3>1, <3>2, Common, CommonExit
  <2>8. CASE /\ y.t.chain = "list" /\ y.t.force /\ y.t.queue \in Seq({Link})
             /\ y.t.restart = "SYSCALL"
             /\ y.k = [h.k EXCEPT !.rerun = TRUE, !.regs = Regs("chained", "host", h.k.regs.res)]
    <3>1. PICK r : r = Regs("chained", "host", "kernel") OBVIOUS
    <3>2. y.k = [k EXCEPT !.rerun = TRUE, !.regs = r] BY ONLY <1>8, <2>4, <2>8, <3>1
    <3>3. /\ y.k.pc = k.pc /\ y.k.asked = k.asked /\ y.k.calls = k.calls /\ y.k.sent = k.sent
          /\ y.k.got = k.got /\ y.k.sigsys = k.sigsys /\ y.k.rerun = TRUE /\ y.k.regs = r
      BY ONLY <1>0, <3>2 DEF Process
    <3>4. Common' BY ONLY <2>7, <3>3
    <3>5. /\ k'.how = "SYSCALL" /\ k'.sigsys = "none" /\ k'.rerun /\ k'.pc = "back"
          /\ k'.ev = "none" /\ k'.regs = r /\ k'.asked = "chain"
      BY <1>0, <1>7, <1>8, <2>2, <2>3, <2>5, <2>8, <3>3 DEF Left, Plain
    <3>6. /\ t'.orig = t.orig /\ t'.mod = t.mod /\ t'.chain = "list" /\ ~t'.already
          /\ ~t'.restoreSeccomp /\ t'.status = 0 /\ t'.force /\ t'.workaround = "INACTIVE"
          /\ t'.queue \in Seq({Link})
      BY <1>8, <2>2, <2>5, <2>8 DEF Left, Rest, SameChain, Untouched
    <3>7. Chained'
      BY <1>1, <1>5, <1>12, <2>3, <3>1, <3>5, <3>6 DEF Chained, Inserting, AgainAt, Banks, Link
    <3> QED BY ONLY <3>4, <3>7 DEF FlowInv, Phases
  <2>9. CASE /\ AtRest(y.t) /\ y.t.restart = h.t.restart
             /\ y.k = [h.k EXCEPT !.regs = Regs(h.t.orig.num, h.t.orig.args, "forced")]
    <3>1. PICK r : r = Regs(h.t.orig.num, h.t.orig.args, "forced") OBVIOUS
    <3>2. y.k = [k EXCEPT !.regs = r] BY ONLY <1>8, <2>9, <3>1
    <3>3. /\ y.k.pc = k.pc /\ y.k.asked = k.asked /\ y.k.calls = k.calls /\ y.k.sent = k.sent
          /\ y.k.got = k.got /\ y.k.sigsys = k.sigsys /\ y.k.rerun = k.rerun /\ y.k.regs = r
      BY ONLY <1>0, <3>2 DEF Process
    <3>4. Common' BY ONLY <2>7, <3>3
    <3>5. r.res = Expected(k.asked) BY <2>3, <3>1 DEF Regs, Expected
    <3>6. Steady' BY <1>0, <1>8, <2>2, <2>5, <2>9 DEF Left, Steady, Late, Filtering
    <3>7. Finished'
      BY <1>7, <1>8, <2>2, <2>3, <2>5, <2>9, <3>3, <3>5, <3>6
         DEF Finished, Left, Rest, SameChain, Idle, AtRest, Plain, Untouched
    <3> QED BY ONLY <3>4, <3>7 DEF FlowInv, Phases
  <2> QED BY ONLY <2>1, <2>8, <2>9 DEF ChainOn
<1> QED BY <1>11, <1>12

\* The entry the filter had PRoot handle is passed over: Seen to Entered.
LEMMA SeenSyscall ==
    ASSUME Common, Seen, HandleSyscall
    PROVE  FlowInv'
<1>0. /\ Shape /\ conf \in AllHosts /\ t \in Tracee /\ k \in Process
      /\ t.already /\ t.seccomp = "ENABLED" /\ t.status = 1 /\ k.ev = "syscall"
  BY FlowAssumption DEF Common, Shape, Seen, Filtering, Banks, HandleSyscall
<1>1. PICK z : z = SyscallStop(Stopped) /\ Restart(z) BY DEF HandleSyscall
<1>2. PICK s : s = Stopped OBVIOUS
<1>3. /\ s \in Pairs /\ s.k = k /\ Rest(t, s.t)
      /\ s.t.last = t.last /\ s.t.seccomp = t.seccomp /\ s.t.exitPending = t.exitPending
      /\ s.t.skip = t.skip /\ s.t.suppressed = t.suppressed /\ s.t.signal = 0
  BY ONLY <1>0, <1>2, StoppedIs
<1>4. PICK u : u = s.t OBVIOUS
<1>5. u \in Tracee BY ONLY <1>3, <1>4 DEF Pairs
<1>6. PICK a : a = [u EXCEPT !.restart = "SYSCALL", !.exitPending = FALSE, !.already = FALSE] OBVIOUS
<1>7. z = [s EXCEPT !.t = a]
  <2>1. s.t.already /\ s.t.seccomp = "ENABLED" /\ s.t.status = 1 BY <1>0, <1>3 DEF Rest
  <2>2. PICK b : b = [u EXCEPT !.restart = "CONT", !.exitPending = FALSE] OBVIOUS
  <2>3. PICK d : d = [s EXCEPT !.t = b] OBVIOUS
  <2>4. Begun(s) = d
    <3>1. (s.t.status = 0) = FALSE BY ONLY <2>1
    <3> QED BY ONLY <1>4, <2>1, <2>2, <2>3, <3>1 DEF Begun
  <2>5. b \in Tracee BY ONLY <1>5, <2>2 DEF Tracee
  <2>6. d \in Pairs /\ d.t = b BY ONLY <1>3, <2>3, <2>5 DEF Pairs
  <2>7. Skipped(s) = [d EXCEPT !.t = [b EXCEPT !.already = FALSE, !.restart = "SYSCALL"]]
    BY ONLY <2>4, <2>6 DEF Skipped
  <2>8. [b EXCEPT !.already = FALSE, !.restart = "SYSCALL"] = a
    BY ONLY <1>5, <1>6, <2>2 DEF Tracee
  <2>9. Skipped(s) = [s EXCEPT !.t = a] BY ONLY <2>3, <2>7, <2>8
  <2>10. SyscallStop(s) = Stopping(s, IF s.t.already THEN Skipped(s)
                                      ELSE Marked(TranslateSyscall(Begun(s)), s))
    BY ONLY DEF SyscallStop, Stopping, Skipped, Begun, Marked
  <2>11. PICK e : e = [s EXCEPT !.t = a] OBVIOUS
  <2>12. a \in Tracee /\ a.seccomp = "ENABLED" BY ONLY <1>4, <1>5, <1>6, <2>1, ZenonT(60) DEF Tracee
  <2>13. e.t = a BY ONLY <1>3, <2>11, <2>12 DEF Pairs
  <2>14. z = Stopping(s, e) BY ONLY <1>1, <1>2, <2>1, <2>9, <2>10, <2>11
  <2> QED BY ONLY <2>1, <2>11, <2>12, <2>13, <2>14 DEF Stopping
<1>8. /\ a \in Tracee /\ a.restart = "SYSCALL" /\ ~a.exitPending /\ ~a.already
      /\ a.status = u.status /\ a.restoreSeccomp = u.restoreSeccomp /\ a.orig = u.orig
      /\ a.mod = u.mod /\ a.rewrite = u.rewrite /\ SameChain(u, a) /\ a.skip = u.skip
      /\ a.suppressed = u.suppressed /\ a.signal = u.signal /\ a.seccomp = u.seccomp
  BY ONLY <1>5, <1>6 DEF Tracee, SameChain
<1>9. z \in Pairs /\ z.t = a /\ z.k = k BY ONLY <1>3, <1>7, <1>8 DEF Pairs
<1>10. Resumed(z)
  <2>1. z.t.restart \in {"CONT", "SYSCALL"} BY ONLY <1>8, <1>9
  <2> QED BY ONLY <1>1, <1>9, <2>1, RestartIs
<1>11. /\ t'.restart = "none" /\ t'.signal = 0 /\ t'.last = "SYSCALL" /\ k'.how = "SYSCALL"
       /\ t'.status = t.status /\ ~t'.already /\ t'.restoreSeccomp = t.restoreSeccomp
       /\ t'.orig = t.orig /\ t'.mod = t.mod /\ t'.rewrite = t.rewrite /\ SameChain(t, t')
       /\ t'.seccomp = t.seccomp /\ ~t'.exitPending /\ t'.skip = t.skip
       /\ t'.suppressed = t.suppressed /\ k'.got = k.got
       /\ k'.pc = k.pc /\ k'.sigsys = k.sigsys /\ k'.rerun = k.rerun
       /\ k'.regs = k.regs /\ k'.asked = k.asked
       /\ k'.calls = k.calls /\ k'.sent = k.sent
  BY ONLY <1>3, <1>4, <1>8, <1>9, <1>10 DEF Resumed, Rest, SameChain
<1>12. Onward BY <1>10, <1>11 DEF Onward, Resumed, HandleSyscall
<1>13. SkipRight' BY <1>11 DEF Seen, SkipRight
<1>14. Common'
  <2>1. t'.restoreSeccomp => t.restoreSeccomp BY <1>11
  <2>2. Chaining(t) => Chaining(t)' BY <1>11 DEF Chaining, SameChain
  <2>3. k.ev \in {"syscall", "fork"} /\ (~Filtering => k'.how = "SYSCALL") BY <1>0, <1>11
  <2> QED BY ONLY <1>12, <1>13, <2>1, <2>2, <2>3, Common, CommonStep
<1>15. Current' = "late" /\ k.pc = "body" BY <1>0, <1>11 DEF Seen, Current
<1>16. k'.regs = Ran(Given("late"))'
  <2>1. Wanted("late") = Handled("late") /\ Handled("late").num = "late"
    BY DEF Wanted, Handled, Regs
  <2> QED BY <1>11, <1>15, <2>1 DEF Ran, Given, Settable, Seen
<1>17. Entered'
  <2>1. "late" \notin Trapped BY DEF Trapped
  <2> QED BY <1>11, <1>12, <1>15, <1>16, <2>1
          DEF Entered, EnteredAt, Seen, Onward, Banks, Idle, Plain, SameChain
<1> QED BY ONLY <1>14, <1>17 DEF FlowInv, Phases

\* A call whose number the policy of the host traps: it is the guest's, or void.
LEMMA GivenTrapped ==
    ASSUME NEW n \in Kinds \cup {"other"}, Given(n).num \in Trapped \cup {"void"}
    PROVE  /\ n \notin {"chain", "late", "swapped"} /\ Settable(n)
           /\ Given(n).num \in Trapped => /\ Given(n).num = n /\ n \in Trapped
                                          /\ ExitRes(n, "none") = "none"
           /\ Given(n).num = "void" => ExitRes(n, "none") = Expected(n)
<1>1. CASE Settable(n)
  BY <1>1 DEF Settable, Given, Wanted, Handled, Regs, Trapped, ExitRes, Expected, Kinds
<1>2. CASE ~Settable(n)
  BY <1>2 DEF Settable, Given, Wanted, Handled, Regs, Trapped, ExitRes, Expected, Kinds
<1> QED BY <1>1, <1>2

\* The entry was seen, the call was trapped and its exit is reported.
LEMMA CaughtSyscall ==
    ASSUME Common, Served(conf), Caught, HandleSyscall
    PROVE  FlowInv'
<1>0. /\ Shape /\ conf \in AllHosts /\ k.asked \in Kinds /\ ~t.already /\ t.status # 0
      /\ t \in Tracee /\ k \in Process /\ t.seccomp # "DISABLING"
  BY FlowAssumption DEF Common, Shape, Caught, AllHosts, Banks
<1>1. /\ conf' = conf /\ g' = g /\ k.ev = "syscall"
      /\ \E h \in Pairs : Arrived(h) /\ \E z : Relayed(h, z) /\ Restart(z)
  BY <1>0, SyscallHandled
<1>2. PICK h \in Pairs : Arrived(h) /\ \E z : Relayed(h, z) /\ Restart(z) BY <1>1
<1>3. PICK z : Relayed(h, z) /\ Restart(z) BY <1>2
<1>4. PICK n : n = k.asked OBVIOUS
<1>5. n \in Kinds \cup {"other"} /\ Banks(n) BY <1>0, <1>4 DEF Caught
<1>6. PICK y : y = TranslateExit(h) OBVIOUS
<1>7. /\ k.pc = "back" /\ ~k.rerun /\ k.sigsys = Given(n).num /\ k.regs.res = "none"
      /\ Given(n).num \in Trapped \cup {"void"}
  BY <1>0, <1>1, <1>4 DEF Caught, Regs
<1>8. /\ h.k = k /\ h.t.status = t.status /\ h.t.seccomp = t.seccomp
      /\ AtRest(h.t) /\ ~h.t.restoreSeccomp
      /\ h.t.chain = "NULL" /\ ~h.t.already /\ h.t.orig = t.orig /\ h.t.mod = t.mod
      /\ h.t.rewrite = t.rewrite /\ h.t.suppressed = t.suppressed
      /\ h.t.exitPending = IF Filtering THEN FALSE ELSE t.exitPending
      /\ h.t.restart = IF Filtering THEN "CONT" ELSE "SYSCALL"
  BY <1>0, <1>2 DEF Arrived, Rest, SameChain, Caught, Idle, AtRest, Filtering
<1>9. /\ n \notin {"chain", "late", "swapped"} /\ Settable(n)
      /\ Given(n).num \in Trapped => /\ Given(n).num = n /\ n \in Trapped
                                     /\ ExitRes(n, "none") = "none"
      /\ Given(n).num = "void" => ExitRes(n, "none") = Expected(n)
  BY ONLY <1>5, <1>7, GivenTrapped
<1>10. n \in Single /\ Due(h.t, n) BY <1>5, <1>8, <1>9 DEF Single, Due, Banks, StageOf
<1>11. y \in Pairs /\ Ends(h, y, n)
  <2>1. /\ h.t.queue = <<>> /\ ~h.t.force
        /\ IF h.t.chain = "NULL" THEN h.t.workaround = "INACTIVE" ELSE h.t.workaround = "REPLACED"
    BY <1>8 DEF AtRest
  <2> QED BY ONLY <1>6, <1>10, <2>1, h \in Pairs, ExitIs
<1>12. /\ AtRest(y.t) /\ Untouched(h.t, y.t)
       /\ y.k = [h.k EXCEPT !.regs = Regs(Own(h.t).num, Own(h.t).args, ExitRes(n, h.k.regs.res))]
       /\ y.t.orig = h.t.orig /\ y.t.mod = h.t.mod /\ y.t.status = 0
       /\ y.t.restoreSeccomp = FALSE
       /\ y.t.exitPending = h.t.exitPending /\ y.t.restart = h.t.restart
       /\ y.t.seccomp = IF n = "ptrace" /\ h.t.seccomp = "ENABLED" THEN "DISABLING"
                        ELSE h.t.seccomp
  BY ONLY <1>9, <1>11 DEF Ends
<1>13. PICK r : r = Regs(n, "guest", ExitRes(n, "none")) OBVIOUS
<1>14. y.k = [k EXCEPT !.regs = r]
  <2>1. Own(h.t).num = n /\ Own(h.t).args = "guest" BY <1>5, <1>8 DEF Own, Banks
  <2> QED BY ONLY <1>7, <1>8, <1>12, <1>13, <2>1
<1>15. /\ y.k.pc = k.pc /\ y.k.asked = k.asked /\ y.k.calls = k.calls /\ y.k.sent = k.sent
       /\ y.k.got = k.got /\ y.k.sigsys = k.sigsys /\ y.k.rerun = k.rerun /\ y.k.regs = r
  BY ONLY <1>0, <1>14 DEF Process
<1>16. y.t.restart \in {"CONT", "SYSCALL"} BY <1>8, <1>12
<1>17. Left(y) BY ONLY <1>0, <1>1, <1>2, <1>3, <1>6, <1>11, <1>12, <1>16, ExitStep
<1>18. Given(n).num = "void" => g.after
  <2>1. /\ Detection /\ g \in [detected : BOOLEAN, after : BOOLEAN] /\ conf.filter \in BOOLEAN
        /\ conf.order = "new" /\ k.ev = "syscall" /\ k.pc = "back"
    BY <1>0, <1>1, <1>7 DEF Common, Shape, AllHosts, Caught
  <2>2. Given(n).num = "void" => conf.trapsVoid BY <1>7 DEF Caught, Trapped
  <2> QED BY <2>1, <2>2 DEF Detection
<1>19. Given(n).num \in Trapped => ~t.skip BY <1>4 DEF Caught
<1>20. SkipRight'
  <2>1. /\ t'.skip = t.skip /\ g' = g /\ conf' = conf /\ k'.sigsys = Given(n).num
        /\ SkipRight
    BY <1>7, <1>15, <1>17 DEF Left, Common
  <2> QED BY <1>7, <1>18, <1>19, <2>1 DEF SkipRight
<1>21. Common'
  <2>1. /\ y.t.seccomp \in {t.seccomp, "DISABLING"} /\ ~y.t.restoreSeccomp
        /\ y.t.seccomp = "DISABLING" => t.seccomp = "ENABLED"
        /\ ~Filtering => y.t.restart = "SYSCALL"
        /\ y.t.rewrite = t.rewrite
    BY <1>0, <1>8, <1>12 DEF Filtering, Untouched
  <2>2. k.ev \in {"syscall", "sigsys"} BY <1>1
  <2> QED BY ONLY <1>15, <1>17, <1>20, <2>1, <2>2, Common, CommonExit
<1>22. Steady' BY <1>0, <1>8, <1>12, <1>17 DEF Left, Steady, Late, Filtering
<1>23. Trapping'
  <2>1. /\ k'.asked = n /\ n \in conf.kinds /\ k'.pc = "back" /\ k'.ev = "none" /\ ~k'.rerun
        /\ k'.sigsys = Given(n).num /\ k'.regs = r
    BY <1>4, <1>7, <1>15, <1>17 DEF Left, Caught
  <2>2. /\ t'.status = 0 /\ ~t'.already /\ ~t'.restoreSeccomp /\ Idle' /\ t'.skip = t.skip
        /\ conf' = conf /\ g' = g
    BY <1>8, <1>12, <1>17 DEF Left, Rest, SameChain, Idle, AtRest, Untouched
  <2>3. CASE Given(n).num \in Trapped
    BY <1>9, <1>13, <1>19, <1>22, <2>1, <2>2, <2>3 DEF Trapping
  <2>4. CASE Given(n).num = "void"
    <3>1. r.res = Expected(n) BY <1>9, <1>13, <2>4 DEF Regs
    <3> QED BY <1>18, <1>22, <2>1, <2>2, <2>4, <3>1 DEF Trapping
  <2> QED BY <1>7, <2>3, <2>4
<1> QED BY ONLY <1>21, <1>23 DEF FlowInv, Phases

\* The entry of a call of PRoot's own.
LEMMA InsertedEntry ==
    ASSUME Common, NEW n, Inserting(n), t.status = 0, k.regs.num # "void", HandleSyscall
    PROVE  /\ Common' /\ Onward /\ Inserting(n)' /\ t'.status = 1 /\ SameChain(t, t')
           /\ k'.regs = k.regs /\ k'.pc \notin {"exit", "back"}
<1>0. /\ Shape /\ ~t.already /\ t \in Tracee /\ t.chain = "list" /\ ~t.restoreSeccomp
      /\ k \in Process
  BY DEF Common, Shape, Inserting
<1>1. /\ conf' = conf /\ g' = g /\ k.ev = "syscall"
      /\ \E h \in Pairs : Arrived(h) /\ \E z : Relayed(h, z) /\ Restart(z)
  BY <1>0, SyscallHandled
<1>2. PICK h \in Pairs : Arrived(h) /\ \E z : Relayed(h, z) /\ Restart(z) BY <1>1
<1>3. PICK z : Relayed(h, z) /\ Restart(z) BY <1>2
<1>4. PICK y : y = TranslateEnter(h) OBVIOUS
<1>5. /\ h.k = k /\ h.t.seccomp = t.seccomp /\ SameChain(t, h.t) /\ h.t.chain = "list"
      /\ h.t.restoreSeccomp = t.restoreSeccomp /\ h.t.orig = t.orig /\ h.t.mod = t.mod
      /\ h.t.already = t.already
      /\ h.t.exitPending = IF Filtering THEN TRUE ELSE t.exitPending
  BY <1>0, <1>2 DEF Arrived, Rest, SameChain, Filtering
<1>6. /\ y \in Pairs /\ y.k = h.k /\ y.t.status = 1 /\ y.t.restart = "SYSCALL"
      /\ Untouched(h.t, y.t) /\ SameChain(h.t, y.t)
      /\ y.t.orig = h.t.orig /\ y.t.mod = h.t.mod
      /\ y.t.restoreSeccomp = h.t.restoreSeccomp
      /\ y.t.exitPending = h.t.exitPending /\ y.t.seccomp = h.t.seccomp
      /\ y.t.cur = h.k.regs
  <2>1. h.t.chain # "NULL" BY ONLY <1>5
  <2> QED BY ONLY <1>4, <2>1, h \in Pairs, AgainIs
<1>7. PICK r : r = k.regs OBVIOUS
<1>8. y.k = [h.k EXCEPT !.regs = r]
  <2>1. [k EXCEPT !.regs = k.regs] = k BY ONLY <1>0 DEF Process
  <2> QED BY ONLY <1>5, <1>6, <1>7, <2>1
<1>9. Chaining(t) => Chaining(y.t) BY <1>5, <1>6 DEF Chaining, SameChain
<1>10. /\ Onward /\ k'.how = "SYSCALL" /\ Rest(y.t, t') /\ t'.exitPending = y.t.exitPending
       /\ t'.skip = (g.after /\ y.t.cur.num = "void")
       /\ k'.regs = r /\ k'.sigsys = k.sigsys /\ k'.rerun = k.rerun
  <2>1. Untouched(h.t, y.t) /\ y.t.seccomp = h.t.seccomp /\ y.t.restart = "SYSCALL" /\ y \in Pairs
    BY ONLY <1>6
  <2> QED BY ONLY <1>0, <1>1, <1>2, <1>3, <1>4, <1>8, <1>9, <2>1, Common, t.status = 0, EntryStep
<1>11. ~t'.skip BY <1>5, <1>6, <1>10
<1>12. k'.pc = k.pc /\ k'.asked = k.asked /\ k'.ev = "none" /\ conf' = conf
  BY ONLY <1>10 DEF Onward
<1>13. /\ SameChain(t, t') /\ t'.orig = t.orig /\ t'.mod = t.mod /\ ~t'.already
       /\ t'.status = 1 /\ ~t'.restoreSeccomp
  BY <1>0, <1>5, <1>6, <1>10 DEF Rest, SameChain, Untouched
<1>14. /\ k.sigsys = "none" /\ ~k.rerun /\ k.pc \in {"seccomp", "body"}
       /\ k.pc = "seccomp" => conf.order = "new"
  BY <1>1, <1>0 DEF Inserting, AgainAt
<1>15. EnteredAt' BY <1>10, <1>12, <1>14 DEF EnteredAt, Plain
<1>16. Inserting(n)' BY <1>11, <1>12, <1>13, <1>15, <1>0 DEF Inserting, SameChain
<1>17. Common'
  <2>1. SkipRight' BY <1>11 DEF SkipRight
  <2>2. t'.restoreSeccomp => t.restoreSeccomp BY <1>13
  <2>3. Chaining(t) => Chaining(t)' BY <1>0, <1>13 DEF Chaining, SameChain
  <2>4. k.ev \in {"syscall", "fork"} /\ (~Filtering => k'.how = "SYSCALL") BY <1>1, <1>10
  <2> QED BY ONLY <1>10, <2>1, <2>2, <2>3, <2>4, Common, CommonStep
<1> QED BY ONLY <1>7, <1>10, <1>12, <1>13, <1>14, <1>16, <1>17

\* A chained call at its entry, and at its exit.
LEMMA ChainedSyscall ==
    ASSUME Common, Chained, HandleSyscall
    PROVE  FlowInv'
<1>0. /\ Shape /\ t \in Tracee /\ k \in Process /\ ~t.already /\ t.status \in {0, 1}
      /\ Inserting("chain") /\ ~t.restoreSeccomp /\ t.seccomp # "DISABLING"
      /\ t.chain = "list" /\ t.force /\ t.queue \in Seq({Link}) /\ t.workaround = "INACTIVE"
      /\ k.regs = Regs("chained", "host", "kernel")
  BY DEF Common, Shape, Chained, Inserting, Link
<1>1. CASE t.status = 0
  <2>1. k.regs.num # "void" BY <1>0 DEF Regs
  <2>2. /\ Common' /\ Onward /\ Inserting("chain")' /\ t'.status = 1 /\ SameChain(t, t')
        /\ k'.regs = k.regs
    BY ONLY <1>0, <1>1, <2>1, Common, HandleSyscall, InsertedEntry
  <2>3. Chained' BY <1>0, <2>2 DEF Chained, SameChain, Link
  <2> QED BY ONLY <2>2, <2>3 DEF FlowInv, Phases
<1>2. CASE t.status = 1
  <2>1. /\ conf' = conf /\ g' = g /\ k.ev = "syscall"
        /\ \E h \in Pairs : Arrived(h) /\ \E z : Relayed(h, z) /\ Restart(z)
    BY <1>0, SyscallHandled
  <2>2. PICK h \in Pairs : Arrived(h) /\ \E z : Relayed(h, z) /\ Restart(z) BY <2>1
  <2>3. PICK z : Relayed(h, z) /\ Restart(z) BY <2>2
  <2>4. PICK y : y = TranslateExit(h) OBVIOUS
  <2>5. k.pc = "back" /\ Plain /\ ~t.skip /\ t.orig.num = "chain" /\ t.orig.args = "guest"
        /\ t.mod = Handled("chain") /\ k.asked = "chain" /\ "chain" \in conf.kinds
    BY <1>0, <1>2, <2>1 DEF Inserting, EnteredAt
  <2>6. /\ h.k = k /\ h.t.status = t.status /\ h.t.seccomp = t.seccomp
        /\ SameChain(t, h.t) /\ ~h.t.restoreSeccomp
        /\ ~h.t.already /\ h.t.orig = t.orig /\ h.t.mod = t.mod
        /\ h.t.rewrite = t.rewrite /\ h.t.suppressed = t.suppressed
        /\ h.t.exitPending = IF Filtering THEN FALSE ELSE t.exitPending
        /\ h.t.restart = IF Filtering THEN "CONT" ELSE "SYSCALL"
    <3>1. (t.status = 0) = FALSE BY <1>2
    <3>2. h.t.exitPending = IF Filtering THEN FALSE ELSE t.exitPending
      BY ONLY <2>2, <3>1 DEF Arrived, Filtering
    <3>3. h.t.restart = IF Filtering THEN "CONT" ELSE "SYSCALL"
      BY ONLY <2>2, <3>1 DEF Arrived, Filtering
    <3> QED BY <1>0, <2>2, <3>2, <3>3 DEF Arrived, Rest, SameChain
  <2>7. ChainOn(h, y)
    <3>1. /\ h.t.chain = "list" /\ h.t.force /\ h.t.queue \in Seq({Link})
          /\ h.t.workaround = "INACTIVE" /\ ~h.t.restoreSeccomp
      BY ONLY <1>0, <2>6 DEF SameChain
    <3> QED BY ONLY <2>4, <3>1, h \in Pairs, ChainedExitIs
  <2>8. /\ y \in Pairs /\ Untouched(h.t, y.t) /\ y.t.seccomp = h.t.seccomp
        /\ y.t.orig = h.t.orig /\ y.t.mod = h.t.mod /\ y.t.exitPending = h.t.exitPending
        /\ y.t.restoreSeccomp = FALSE /\ y.t.status = 0 /\ y.t.workaround = "INACTIVE"
        /\ y.t.restart \in {"CONT", "SYSCALL"} /\ (~Filtering => y.t.restart = "SYSCALL")
    BY <2>6, <2>7 DEF ChainOn, Kept
  <2>9. Left(y)
    <3>1. t.status # 0 BY <1>2
    <3> QED BY ONLY <1>0, <2>1, <2>2, <2>3, <2>4, <2>8, <3>1, ExitStep
  <2>10. SkipRight' BY <2>5, <2>9 DEF Left, SkipRight
  <2>11. ASSUME NEW p, y.k = p, p.pc = k.pc, p.asked = k.asked, p.calls = k.calls,
                p.sent = k.sent, p.got = k.got
         PROVE  Common'
    <3>1. /\ y.t.seccomp \in {t.seccomp, "DISABLING"} /\ ~y.t.restoreSeccomp
          /\ y.t.seccomp = "DISABLING" => t.seccomp = "ENABLED"
          /\ ~Filtering => y.t.restart = "SYSCALL"
          /\ y.t.rewrite = t.rewrite
      BY <1>0, <2>6, <2>8 DEF Filtering, Untouched
    <3>2. k.ev \in {"syscall", "sigsys"} BY <2>1
    <3> QED BY ONLY <2>9, <2>10, <2>11, <3>1, <3>2, Common, CommonExit
  <2>12. CASE /\ y.t.chain = "list" /\ y.t.force /\ y.t.queue \in Seq({Link})
              /\ y.t.restart = "SYSCALL"
              /\ y.k = [h.k EXCEPT !.rerun = TRUE, !.regs = Regs("chained", "host", h.k.regs.res)]
    <3>1. PICK r : r = Regs("chained", "host", "kernel") OBVIOUS
    <3>2. y.k = [k EXCEPT !.rerun = TRUE, !.regs = r]
      <4>1. k.regs.res = "kernel" BY <1>0 DEF Regs
      <4> QED BY ONLY <2>6, <2>12, <3>1, <4>1
    <3>3. /\ y.k.pc = k.pc /\ y.k.asked = k.asked /\ y.k.calls = k.calls /\ y.k.sent = k.sent
          /\ y.k.got = k.got /\ y.k.sigsys = k.sigsys /\ y.k.rerun = TRUE /\ y.k.regs = r
      BY ONLY <1>0, <3>2 DEF Process
    <3>4. Common' BY ONLY <2>11, <3>3
    <3>5. /\ k'.how = "SYSCALL" /\ k'.sigsys = "none" /\ k'.rerun /\ k'.pc = "back"
          /\ k'.ev = "none" /\ k'.regs = r /\ k'.asked = "chain"
      BY <1>0, <2>5, <2>6, <2>8, <2>9, <2>12, <3>3 DEF Left, Plain
    <3>6. /\ t'.orig = t.orig /\ t'.mod = t.mod /\ t'.chain = "list" /\ ~t'.already
          /\ ~t'.restoreSeccomp /\ t'.status = 0 /\ t'.force /\ t'.workaround = "INACTIVE"
          /\ t'.queue \in Seq({Link})
      BY <2>6, <2>8, <2>9, <2>12 DEF Left, Rest, SameChain, Untouched
    <3>7. Chained'
      BY <2>1, <2>5, <3>1, <3>5, <3>6 DEF Chained, Inserting, AgainAt, Link
    <3> QED BY ONLY <3>4, <3>7 DEF FlowInv, Phases
  <2>13. CASE /\ AtRest(y.t) /\ y.t.restart = h.t.restart
              /\ y.k = [h.k EXCEPT !.regs = Regs(h.t.orig.num, h.t.orig.args, "forced")]
    <3>1. PICK r : r = Regs(h.t.orig.num, h.t.orig.args, "forced") OBVIOUS
    <3>2. y.k = [k EXCEPT !.regs = r] BY ONLY <2>6, <2>13, <3>1
    <3>3. /\ y.k.pc = k.pc /\ y.k.asked = k.asked /\ y.k.calls = k.calls /\ y.k.sent = k.sent
          /\ y.k.got = k.got /\ y.k.sigsys = k.sigsys /\ y.k.rerun = k.rerun /\ y.k.regs = r
      BY ONLY <1>0, <3>2 DEF Process
    <3>4. Common' BY ONLY <2>11, <3>3
    <3>5. r.res = Expected(k.asked) BY <2>5, <3>1 DEF Regs, Expected
    <3>6. Steady' BY <1>0, <2>6, <2>8, <2>9, <2>13 DEF Left, Steady, Late, Filtering
    <3>7. Finished'
      BY <2>5, <2>6, <2>8, <2>9, <2>13, <3>3, <3>5, <3>6
         DEF Finished, Left, Rest, SameChain, Idle, AtRest, Plain, Untouched
    <3> QED BY ONLY <3>4, <3>7 DEF FlowInv, Phases
  <2> QED BY ONLY <2>7, <2>12, <2>13 DEF ChainOn
<1> QED BY <1>0, <1>1, <1>2

\* What PRoot knows when an exit is reported.
Departing(h) ==
    /\ h.k = k /\ h.t.status = t.status /\ h.t.seccomp = t.seccomp
    /\ SameChain(t, h.t) /\ h.t.restoreSeccomp = t.restoreSeccomp
    /\ h.t.orig = t.orig /\ h.t.mod = t.mod
    /\ h.t.rewrite = t.rewrite /\ h.t.suppressed = t.suppressed
    /\ h.t.exitPending = IF Filtering THEN FALSE ELSE t.exitPending
    /\ h.t.restart = IF Filtering THEN "CONT" ELSE "SYSCALL"

\* It is what translate_syscall() is given.
LEMMA ArrivedExit ==
    ASSUME NEW h, Arrived(h), t.status # 0
    PROVE  Departing(h)
<1>1. (t.status = 0) = FALSE OBVIOUS
<1>2. h.t.exitPending = IF Filtering THEN FALSE ELSE t.exitPending
  BY ONLY <1>1, Arrived(h) DEF Arrived, Filtering
<1>3. h.t.restart = IF Filtering THEN "CONT" ELSE "SYSCALL"
  BY ONLY <1>1, Arrived(h) DEF Arrived, Filtering
<1> QED BY <1>2, <1>3 DEF Departing, Arrived, Rest, SameChain

\* The call that was made to fail, at its exit: the wanted one follows.
LEMMA FaultySyscall ==
    ASSUME Common, Faulty, HandleSyscall
    PROVE  FlowInv'
<1>0. /\ Shape /\ t \in Tracee /\ k \in Process /\ ~t.already /\ t.status = 1
      /\ Inserting("swapped") /\ ~t.restoreSeccomp /\ t.seccomp # "DISABLING"
      /\ t.chain = "list" /\ ~t.force /\ t.workaround = "FAULTY"
      /\ t.queue = <<[num |-> "other", args |-> "host"]>> /\ ~conf.canSet
  BY DEF Common, Shape, Faulty, Inserting
<1>1. /\ conf' = conf /\ g' = g /\ k.ev = "syscall"
      /\ \E h \in Pairs : Arrived(h) /\ \E z : Relayed(h, z) /\ Restart(z)
  BY <1>0, SyscallHandled
<1>2. PICK h \in Pairs : Arrived(h) /\ \E z : Relayed(h, z) /\ Restart(z) BY <1>1
<1>3. PICK z : Relayed(h, z) /\ Restart(z) BY <1>2
<1>4. PICK y : y = TranslateExit(h) OBVIOUS
<1>5. /\ k.pc = "back" /\ Plain /\ ~t.skip /\ t.orig.num = "swapped" /\ t.orig.args = "guest"
      /\ t.mod = Handled("swapped") /\ k.asked = "swapped" /\ "swapped" \in conf.kinds
  BY <1>0, <1>1 DEF Inserting, EnteredAt
<1>6. k.regs.res = "einval"
  <2>1. k.regs = Regs("swapped", "bad", RanRes(Regs("swapped", "bad", "none")))
    BY <1>5 DEF Faulty, Ran, Regs
  <2> QED BY <2>1 DEF RanRes, Regs
<1>7. /\ h.k = k /\ h.t.status = t.status /\ h.t.seccomp = t.seccomp
      /\ SameChain(t, h.t) /\ h.t.restoreSeccomp = t.restoreSeccomp
      /\ h.t.orig = t.orig /\ h.t.mod = t.mod
      /\ h.t.rewrite = t.rewrite /\ h.t.suppressed = t.suppressed
      /\ h.t.exitPending = IF Filtering THEN FALSE ELSE t.exitPending
      /\ h.t.restart = IF Filtering THEN "CONT" ELSE "SYSCALL"
  <2>1. t.status # 0 BY ONLY <1>0
  <2>2. Arrived(h) BY ONLY <1>2
  <2>3. Departing(h) BY ONLY <2>1, <2>2, ArrivedExit
  <2> QED BY ONLY <2>3 DEF Departing
<1>8. /\ y \in Pairs /\ Kept(h.t, y.t) /\ y.t.status = 0
      /\ y.t.chain = "list" /\ y.t.workaround = "REPLACED" /\ y.t.queue = <<>>
      /\ y.t.force = h.t.force /\ y.t.restoreSeccomp = h.t.restoreSeccomp
      /\ y.t.restart = "SYSCALL"
      /\ y.k = [h.k EXCEPT !.rerun = TRUE, !.regs = Regs("other", "host", h.k.regs.res)]
  <2>1. /\ h.t.chain = "list" /\ h.t.workaround = "FAULTY"
        /\ h.t.queue = <<[num |-> "other", args |-> "host"]>>
    BY ONLY <1>0, <1>7 DEF SameChain
  <2> QED BY ONLY <1>4, <2>1, h \in Pairs, FaultyExitIs
<1>9. /\ Untouched(h.t, y.t) /\ y.t.seccomp = h.t.seccomp /\ y.t.orig = h.t.orig
      /\ y.t.mod = h.t.mod /\ y.t.exitPending = h.t.exitPending /\ y.t.rewrite = t.rewrite
  BY ONLY <1>7, <1>8 DEF Kept, Untouched
<1>10. PICK r : r = Regs("other", "host", "einval") OBVIOUS
<1>11. y.k = [k EXCEPT !.rerun = TRUE, !.regs = r] BY ONLY <1>6, <1>7, <1>8, <1>10
<1>12. /\ y.k.pc = k.pc /\ y.k.asked = k.asked /\ y.k.calls = k.calls /\ y.k.sent = k.sent
       /\ y.k.got = k.got /\ y.k.sigsys = k.sigsys /\ y.k.rerun = TRUE /\ y.k.regs = r
  BY ONLY <1>0, <1>11 DEF Process
<1>13. Left(y)
  <2>1. t.status # 0 /\ y.t.restart \in {"CONT", "SYSCALL"} BY <1>0, <1>8
  <2> QED BY ONLY <1>0, <1>1, <1>2, <1>3, <1>4, <1>8, <1>9, <2>1, ExitStep
<1>14. SkipRight' BY <1>5, <1>13 DEF Left, SkipRight
<1>15. Common'
  <2>1. /\ y.t.seccomp \in {t.seccomp, "DISABLING"} /\ ~y.t.restoreSeccomp
        /\ y.t.seccomp = "DISABLING" => t.seccomp = "ENABLED"
        /\ ~Filtering => y.t.restart = "SYSCALL"
    BY <1>0, <1>7, <1>8, <1>9
  <2>2. k.ev \in {"syscall", "sigsys"} BY <1>1
  <2> QED BY ONLY <1>9, <1>12, <1>13, <1>14, <2>1, <2>2, Common, CommonExit
<1>16. /\ k'.how = "SYSCALL" /\ k'.sigsys = "none" /\ k'.rerun /\ k'.pc = "back"
       /\ k'.ev = "none" /\ k'.regs = r /\ k'.asked = "swapped" /\ conf' = conf
  BY <1>0, <1>5, <1>7, <1>8, <1>9, <1>12, <1>13 DEF Left, Plain
<1>17. /\ t'.orig = t.orig /\ t'.mod = t.mod /\ t'.chain = "list" /\ ~t'.already
       /\ ~t'.restoreSeccomp /\ t'.status = 0 /\ ~t'.force /\ t'.workaround = "REPLACED"
       /\ t'.queue = <<>>
  <2>1. /\ t'.orig = t.orig /\ t'.mod = t.mod /\ t'.chain = "list"
        /\ ~t'.restoreSeccomp /\ t'.status = 0 /\ ~t'.force /\ t'.workaround = "REPLACED"
        /\ t'.queue = <<>> /\ t'.already = y.t.already
    BY <1>0, <1>7, <1>8, <1>9, <1>13 DEF Left, Rest, SameChain
  <2>2. ~y.t.already BY <1>0, <1>2, <1>9 DEF Untouched, Arrived, Rest
  <2> QED BY <2>1, <2>2
<1>18. Replaced'
  BY <1>0, <1>5, <1>10, <1>16, <1>17 DEF Replaced, Inserting, AgainAt
<1> QED BY ONLY <1>15, <1>18 DEF FlowInv, Phases

\* The wanted call, at its entry and at its exit.
LEMMA ReplacedSyscall ==
    ASSUME Common, Replaced, HandleSyscall
    PROVE  FlowInv'
<1>0. /\ Shape /\ t \in Tracee /\ k \in Process /\ ~t.already /\ t.status \in {0, 1}
      /\ Inserting("swapped") /\ ~t.restoreSeccomp /\ t.seccomp # "DISABLING"
      /\ t.chain = "list" /\ ~t.force /\ t.workaround = "REPLACED"
      /\ t.queue = <<>> /\ ~conf.canSet
  BY DEF Common, Shape, Replaced, Inserting
<1>1. CASE t.status = 0
  <2>1. k.regs = Regs("other", "host", "einval") BY <1>1 DEF Replaced
  <2>2. k.regs.num # "void" BY <2>1 DEF Regs
  <2>3. /\ Common' /\ Onward /\ Inserting("swapped")' /\ t'.status = 1 /\ SameChain(t, t')
        /\ k'.regs = k.regs /\ k'.pc \notin {"exit", "back"}
    BY ONLY <1>0, <1>1, <2>2, Common, HandleSyscall, InsertedEntry
  <2>4. Replaced' BY <1>0, <2>1, <2>3 DEF Replaced, SameChain, Onward
  <2> QED BY ONLY <2>3, <2>4 DEF FlowInv, Phases
<1>2. CASE t.status = 1
  <2>1. /\ conf' = conf /\ g' = g /\ k.ev = "syscall"
        /\ \E h \in Pairs : Arrived(h) /\ \E z : Relayed(h, z) /\ Restart(z)
    BY <1>0, SyscallHandled
  <2>2. PICK h \in Pairs : Arrived(h) /\ \E z : Relayed(h, z) /\ Restart(z) BY <2>1
  <2>3. PICK z : Relayed(h, z) /\ Restart(z) BY <2>2
  <2>4. PICK y : y = TranslateExit(h) OBVIOUS
  <2>5. /\ k.pc = "back" /\ Plain /\ ~t.skip /\ t.orig.num = "swapped" /\ t.orig.args = "guest"
        /\ t.mod = Handled("swapped") /\ k.asked = "swapped" /\ "swapped" \in conf.kinds
    BY <1>0, <1>2, <2>1 DEF Inserting, EnteredAt
  <2>6. k.regs.res = "kernel" BY <1>2, <2>5 DEF Replaced, Regs
  <2>7. /\ h.k = k /\ h.t.status = t.status /\ h.t.seccomp = t.seccomp
        /\ SameChain(t, h.t) /\ h.t.restoreSeccomp = t.restoreSeccomp
        /\ h.t.orig = t.orig /\ h.t.mod = t.mod
        /\ h.t.rewrite = t.rewrite /\ h.t.suppressed = t.suppressed
        /\ h.t.exitPending = IF Filtering THEN FALSE ELSE t.exitPending
        /\ h.t.restart = IF Filtering THEN "CONT" ELSE "SYSCALL"
    <3>1. t.status # 0 BY ONLY <1>2
    <3>2. Arrived(h) BY ONLY <2>2
    <3>3. Departing(h) BY ONLY <3>1, <3>2, ArrivedExit
    <3> QED BY ONLY <3>3 DEF Departing
  <2>8. PICK n : n = "swapped" OBVIOUS
  <2>9. n \in Single /\ Due(h.t, n)
    BY <1>2, <2>5, <2>7, <2>8 DEF Single, Due, StageOf, Kinds
  <2>10. y \in Pairs /\ Ends(h, y, n)
    <3>1. /\ h.t.queue = <<>> /\ ~h.t.force
          /\ IF h.t.chain = "NULL" THEN h.t.workaround = "INACTIVE" ELSE h.t.workaround = "REPLACED"
      BY <1>0, <2>7 DEF SameChain
    <3> QED BY ONLY <2>4, <2>9, <3>1, h \in Pairs, ExitIs
  <2>11. /\ AtRest(y.t) /\ Untouched(h.t, y.t)
         /\ y.k = [h.k EXCEPT !.regs = Regs(Own(h.t).num, Own(h.t).args, ExitRes(n, h.k.regs.res))]
         /\ y.t.status = 0 /\ y.t.restoreSeccomp = FALSE
         /\ y.t.exitPending = h.t.exitPending /\ y.t.restart = h.t.restart
         /\ y.t.seccomp = h.t.seccomp
    BY ONLY <2>8, <2>10 DEF Ends
  <2>12. PICK r : r = Regs("swapped", "guest", "kernel") OBVIOUS
  <2>13. y.k = [k EXCEPT !.regs = r]
    <3>1. Own(h.t).num = "swapped" /\ Own(h.t).args = "guest" /\ ExitRes(n, "kernel") = "kernel"
      BY <1>0, <2>5, <2>7, <2>8 DEF Own, ExitRes
    <3> QED BY ONLY <2>6, <2>7, <2>11, <2>12, <3>1
  <2>14. /\ y.k.pc = k.pc /\ y.k.asked = k.asked /\ y.k.calls = k.calls /\ y.k.sent = k.sent
         /\ y.k.got = k.got /\ y.k.sigsys = k.sigsys /\ y.k.rerun = k.rerun /\ y.k.regs = r
    BY ONLY <1>0, <2>13 DEF Process
  <2>15. Left(y)
    <3>1. t.status # 0 /\ y.t.restart \in {"CONT", "SYSCALL"} BY <1>2, <2>7, <2>11
    <3> QED BY ONLY <1>0, <2>1, <2>2, <2>3, <2>4, <2>10, <2>11, <3>1, ExitStep
  <2>16. SkipRight' BY <2>5, <2>15 DEF Left, SkipRight
  <2>17. Common'
    <3>1. /\ y.t.seccomp \in {t.seccomp, "DISABLING"} /\ ~y.t.restoreSeccomp
          /\ y.t.seccomp = "DISABLING" => t.seccomp = "ENABLED"
          /\ ~Filtering => y.t.restart = "SYSCALL"
          /\ y.t.rewrite = t.rewrite
      BY <1>0, <2>7, <2>11 DEF Untouched
    <3>2. k.ev \in {"syscall", "sigsys"} BY <2>1
    <3> QED BY ONLY <2>14, <2>15, <2>16, <3>1, <3>2, Common, CommonExit
  <2>18. Steady' BY <1>0, <2>7, <2>11, <2>15 DEF Left, Steady, Late, Filtering
  <2>19. r.res = Expected(k.asked) BY <2>5, <2>12 DEF Regs, Expected
  <2>20. ~y.t.already BY <1>0, <2>2, <2>11 DEF Untouched, Arrived, Rest
  <2>21. Finished'
    BY <2>5, <2>7, <2>11, <2>14, <2>15, <2>18, <2>19, <2>20
       DEF Finished, Left, Rest, SameChain, Idle, AtRest, Plain
  <2> QED BY ONLY <2>17, <2>21 DEF FlowInv, Phases
<1> QED BY <1>0, <1>1, <1>2
-------------------------------------------------------------------------------
(* The steps of the kernel and of the guest.                               *)

\* The stages in their order.
LEMMA AfterIs ==
    ASSUME conf \in AllHosts
    PROVE  /\ After("enter") = IF conf.order = "new" THEN "seccomp" ELSE "body"
           /\ After("seccomp") = IF conf.order = "new" THEN "body" ELSE "enter"
           /\ After("exit") = "back"
           /\ Stages[1] = IF conf.order = "new" THEN "enter" ELSE "seccomp"
<1>1. CASE conf.order = "new"
  <2>1. Stages = <<"enter", "seccomp", "body", "exit", "back">> BY ONLY <1>1 DEF Stages
  <2>2. /\ (CHOOSE i \in 1..4 : Stages[i] = "enter") = 1
        /\ (CHOOSE i \in 1..4 : Stages[i] = "seccomp") = 2
        /\ (CHOOSE i \in 1..4 : Stages[i] = "exit") = 4
    BY ONLY <2>1
  <2> QED BY ONLY <1>1, <2>1, <2>2 DEF After
<1>2. CASE conf.order # "new"
  <2>1. Stages = <<"seccomp", "enter", "body", "exit", "back">> BY ONLY <1>2 DEF Stages
  <2>2. /\ (CHOOSE i \in 1..4 : Stages[i] = "enter") = 2
        /\ (CHOOSE i \in 1..4 : Stages[i] = "seccomp") = 1
        /\ (CHOOSE i \in 1..4 : Stages[i] = "exit") = 4
    BY ONLY <2>1
  <2> QED BY ONLY <1>2, <2>1, <2>2 DEF After
<1> QED BY ONLY <1>1, <1>2

\* What a step of the kernel leaves alone.
Still ==
    /\ conf' = conf /\ g' = g /\ t' = t /\ k' \in Process /\ k'.how = k.how
    /\ k'.asked = k.asked /\ k'.calls = k.calls /\ k'.sent = k.sent /\ k'.got = k.got

\* What each of its steps does.
LEMMA EnterStopIs ==
    ASSUME Shape, EnterStop
    PROVE  /\ Still /\ k.ev = "none" /\ k.pc \in {"enter", "exit"}
           /\ k'.pc = IF k.pc = "exit" THEN "back"
                      ELSE IF conf.order = "new" THEN "seccomp" ELSE "body"
           /\ k'.ev = IF k.how = "SYSCALL" THEN "syscall" ELSE "none"
           /\ k'.sigsys = k.sigsys /\ k'.rerun = k.rerun /\ k'.regs = k.regs
<1>1. PICK p : p = After(k.pc) OBVIOUS
<1>2. PICK e : e = IF k.how = "SYSCALL" THEN "syscall" ELSE "none" OBVIOUS
<1>3. /\ k' = [k EXCEPT !.pc = p, !.ev = e] /\ conf' = conf /\ g' = g /\ t' = t
      /\ k.ev = "none" /\ k.pc \in {"enter", "exit"}
  BY ONLY <1>1, <1>2, EnterStop DEF EnterStop, Running
<1>4. k \in Process /\ conf \in AllHosts BY FlowAssumption DEF Shape
<1>5. p = IF k.pc = "exit" THEN "back" ELSE IF conf.order = "new" THEN "seccomp" ELSE "body"
  BY ONLY <1>1, <1>3, <1>4, AfterIs
<1>6. p \in {"back", "seccomp", "body"} /\ e \in {"none", "syscall"} BY ONLY <1>2, <1>5
<1>7. /\ k' \in Process /\ k'.pc = p /\ k'.ev = e
      /\ k'.sigsys = k.sigsys /\ k'.rerun = k.rerun /\ k'.regs = k.regs /\ k'.how = k.how
      /\ k'.asked = k.asked /\ k'.calls = k.calls /\ k'.sent = k.sent /\ k'.got = k.got
  BY ONLY <1>3, <1>4, <1>6 DEF Process
<1> QED BY ONLY <1>2, <1>3, <1>5, <1>7 DEF Still

\* A call the policy of the host lets pass goes on to its next stage.
LEMMA SeccompAllowsIs ==
    ASSUME Shape, SeccompAllows
    PROVE  /\ Still /\ k.ev = "none" /\ k.pc = "seccomp"
           /\ k.regs.num \notin Trapped /\ (k.regs.num = "void" => ~conf.trapsVoid)
           /\ k'.pc = IF conf.order = "new" THEN "body" ELSE "enter"
           /\ k'.ev = IF conf.filter /\ Filter(k.regs.num) # "allow" THEN "seccomp" ELSE "none"
           /\ k'.sigsys = k.sigsys /\ k'.rerun = k.rerun /\ k'.regs = k.regs
<1>1. PICK p : p = After("seccomp") OBVIOUS
<1>2. PICK e : e = IF conf.filter /\ Filter(k.regs.num) # "allow" THEN "seccomp" ELSE "none" OBVIOUS
<1>3. /\ k' = [k EXCEPT !.pc = p, !.ev = e] /\ conf' = conf /\ g' = g /\ t' = t
      /\ k.ev = "none" /\ k.pc = "seccomp"
      /\ k.regs.num \notin Trapped /\ (k.regs.num = "void" => ~conf.trapsVoid)
  BY ONLY <1>1, <1>2, SeccompAllows DEF SeccompAllows, Running, TrappedNow
<1>4. k \in Process /\ conf \in AllHosts BY FlowAssumption DEF Shape
<1>5. p = IF conf.order = "new" THEN "body" ELSE "enter" BY ONLY <1>1, <1>4, AfterIs
<1>6. p \in {"enter", "body"} /\ e \in {"none", "seccomp"} BY ONLY <1>2, <1>5
<1>7. /\ k' \in Process /\ k'.pc = p /\ k'.ev = e
      /\ k'.sigsys = k.sigsys /\ k'.rerun = k.rerun /\ k'.regs = k.regs /\ k'.how = k.how
      /\ k'.asked = k.asked /\ k'.calls = k.calls /\ k'.sent = k.sent /\ k'.got = k.got
  BY ONLY <1>3, <1>4, <1>6 DEF Process
<1> QED BY ONLY <1>2, <1>3, <1>5, <1>7 DEF Still

\* A trapped call keeps its number and loses its result.
LEMMA SeccompTrapsIs ==
    ASSUME Shape, SeccompTraps
    PROVE  /\ Still /\ k.ev = "none" /\ k.pc = "seccomp" /\ k'.ev = "none"
           /\ k.regs.num \in Trapped \/ (k.regs.num = "void" /\ conf.trapsVoid)
           /\ k'.pc \in {"exit", "back"} /\ (conf.order = "old" => k'.pc = "back")
           /\ (k'.pc = "back" => conf.order = "old" \/ conf.skips)
           /\ k'.sigsys = k.regs.num /\ k'.rerun = k.rerun
           /\ k'.regs = Regs(k.regs.num, k.regs.args, "none")
<1>1. PICK c : c = k.regs OBVIOUS
<1>2. PICK s : s = c.num OBVIOUS
<1>3. PICK r : r = Regs(c.num, c.args, "none") OBVIOUS
<1>4. k \in Process /\ c \in Bank BY <1>1 DEF Shape, Process
<1>5. PICK p \in {"exit", "back"} :
        /\ conf.order = "old" => p = "back"
        /\ p = "back" => conf.order = "old" \/ conf.skips
        /\ k' = [k EXCEPT !.pc = p, !.sigsys = s, !.regs.res = "none"]
  BY ONLY <1>1, <1>2, SeccompTraps DEF SeccompTraps
<1>6. /\ conf' = conf /\ g' = g /\ t' = t /\ k.ev = "none" /\ k.pc = "seccomp"
      /\ k.regs.num \in Trapped \/ (k.regs.num = "void" /\ conf.trapsVoid)
  BY ONLY SeccompTraps DEF SeccompTraps, Running, TrappedNow
<1>7. [c EXCEPT !.res = "none"] = r /\ r \in Bank /\ s \in Numbers
  BY ONLY <1>2, <1>3, <1>4 DEF Bank, Regs
<1>8. PICK m : m = [k EXCEPT !.pc = p, !.sigsys = s] OBVIOUS
<1>9. /\ m \in Process /\ m.pc = p /\ m.sigsys = s /\ m.regs = c
      /\ m.ev = k.ev /\ m.rerun = k.rerun /\ m.how = k.how
      /\ m.asked = k.asked /\ m.calls = k.calls /\ m.sent = k.sent /\ m.got = k.got
  BY ONLY <1>1, <1>4, <1>7, <1>8 DEF Process
<1>10. k' = [m EXCEPT !.regs.res = "none"] BY ONLY <1>5, <1>8
<1>11. k' = [m EXCEPT !.regs = r] BY ONLY <1>7, <1>9, <1>10
<1>12. /\ k' \in Process /\ k'.pc = p /\ k'.sigsys = s /\ k'.regs = r
       /\ k'.ev = m.ev /\ k'.rerun = m.rerun /\ k'.how = m.how
       /\ k'.asked = m.asked /\ k'.calls = m.calls /\ k'.sent = m.sent /\ k'.got = m.got
  BY ONLY <1>7, <1>9, <1>11 DEF Process
<1> QED BY ONLY <1>1, <1>2, <1>3, <1>5, <1>6, <1>9, <1>12 DEF Still

\* The kernel executes a call, or skips a void one.
LEMMA BodyIs ==
    ASSUME Shape, Body
    PROVE  /\ Still /\ k.ev = "none" /\ k.pc = "body" /\ k'.pc = "exit"
           /\ k'.ev = IF k.regs.num = "clone" THEN "fork" ELSE "none"
           /\ k'.sigsys = k.sigsys /\ k'.rerun = k.rerun
           /\ k'.regs = Regs(k.regs.num, k.regs.args, RanRes(k.regs))
<1>1. PICK c : c = k.regs OBVIOUS
<1>2. PICK e : e = IF c.num = "clone" THEN "fork" ELSE "none" OBVIOUS
<1>3. PICK s : s = RanRes(c) OBVIOUS
<1>4. PICK r : r = Regs(c.num, c.args, s) OBVIOUS
<1>5. k \in Process /\ c \in Bank BY <1>1 DEF Shape, Process
<1>6. s = IF c.num = "void" THEN c.res ELSE IF c.args = "bad" THEN "einval" ELSE "kernel"
  BY ONLY <1>3 DEF RanRes
<1>7. /\ conf' = conf /\ g' = g /\ t' = t /\ k.ev = "none" /\ k.pc = "body"
      /\ k' = [k EXCEPT !.pc = "exit", !.ev = e, !.regs.res = s]
  BY ONLY <1>1, <1>2, <1>6, Body DEF Body, Running
<1>8. [c EXCEPT !.res = s] = r /\ r \in Bank
  BY ONLY <1>4, <1>5, <1>6 DEF Bank, Regs
<1>9. PICK m : m = [k EXCEPT !.pc = "exit", !.ev = e] OBVIOUS
<1>10. e \in {"none", "fork"} BY ONLY <1>2
<1>11. /\ m \in Process /\ m.pc = "exit" /\ m.ev = e /\ m.regs = c
       /\ m.sigsys = k.sigsys /\ m.rerun = k.rerun /\ m.how = k.how
       /\ m.asked = k.asked /\ m.calls = k.calls /\ m.sent = k.sent /\ m.got = k.got
  BY ONLY <1>1, <1>5, <1>9, <1>10 DEF Process
<1>12. k' = [m EXCEPT !.regs.res = s] BY ONLY <1>7, <1>9
<1>13. k' = [m EXCEPT !.regs = r] BY ONLY <1>8, <1>11, <1>12
<1>14. /\ k' \in Process /\ k'.pc = m.pc /\ k'.sigsys = m.sigsys /\ k'.regs = r
       /\ k'.ev = m.ev /\ k'.rerun = m.rerun /\ k'.how = m.how
       /\ k'.asked = m.asked /\ k'.calls = m.calls /\ k'.sent = m.sent /\ k'.got = m.got
  BY ONLY <1>8, <1>11, <1>13 DEF Process
<1> QED BY ONLY <1>1, <1>2, <1>3, <1>4, <1>7, <1>11, <1>14 DEF Still

\* SIGSYS is delivered on the way back.
LEMMA SigsysArrivesIs ==
    ASSUME Shape, SigsysArrives
    PROVE  /\ Still /\ k.ev = "none" /\ k.pc = "back" /\ k.sigsys # "none"
           /\ k'.pc = k.pc /\ k'.ev = "sigsys"
           /\ k'.sigsys = k.sigsys /\ k'.rerun = k.rerun /\ k'.regs = k.regs
<1>1. k \in Process BY DEF Shape
<1>2. /\ k' = [k EXCEPT !.ev = "sigsys"] /\ conf' = conf /\ g' = g /\ t' = t
      /\ k.ev = "none" /\ k.pc = "back" /\ k.sigsys # "none"
  BY ONLY SigsysArrives DEF SigsysArrives, Running
<1> QED BY ONLY <1>1, <1>2 DEF Process, Still

\* The guest gets the result, or makes the call again.
LEMMA BackIs ==
    ASSUME Shape, Back
    PROVE  /\ conf' = conf /\ g' = g /\ t' = t /\ k' \in Process /\ k'.how = k.how
           /\ k'.calls = k.calls /\ k'.sent = k.sent /\ k'.got = k.got
           /\ k.ev = "none" /\ k.pc = "back" /\ k.sigsys = "none"
           /\ k'.ev = "none" /\ k'.sigsys = "none" /\ ~k'.rerun /\ k'.regs = k.regs
           /\ IF k.rerun
              THEN /\ k'.pc = IF conf.order = "new" THEN "enter" ELSE "seccomp"
                   /\ k'.asked = k.asked /\ k'.answer = k.answer
              ELSE k'.pc = "user" /\ k'.asked = "none" /\ k'.answer = k.regs.res
<1>1. PICK p : p = Stages[1] OBVIOUS
<1>2. k \in Process /\ conf \in AllHosts BY FlowAssumption DEF Shape
<1>3. p = IF conf.order = "new" THEN "enter" ELSE "seccomp" BY ONLY <1>1, <1>2, AfterIs
<1>4. PICK r : r = k.regs.res OBVIOUS
<1>5. r \in {"none", "kernel", "error", "emulated", "einval", "refused", "enosys", "forced"}
  BY ONLY <1>2, <1>4 DEF Process, Bank
<1>6. /\ conf' = conf /\ g' = g /\ t' = t
      /\ k.ev = "none" /\ k.pc = "back" /\ k.sigsys = "none"
      /\ k' = IF k.rerun THEN [k EXCEPT !.pc = p, !.rerun = FALSE]
              ELSE [k EXCEPT !.pc = "user", !.asked = "none", !.answer = r]
  BY ONLY <1>1, <1>4, Back DEF Back, Running
<1>7. CASE k.rerun
  <2>1. k' = [k EXCEPT !.pc = p, !.rerun = FALSE] BY ONLY <1>6, <1>7
  <2>2. p \in {"enter", "seccomp"} BY ONLY <1>3
  <2> QED BY ONLY <1>2, <1>3, <1>6, <1>7, <2>1, <2>2 DEF Process
<1>8. CASE ~k.rerun
  <2>1. k' = [k EXCEPT !.pc = "user", !.asked = "none", !.answer = r] BY ONLY <1>6, <1>8
  <2> QED BY ONLY <1>2, <1>4, <1>5, <1>6, <1>8, <2>1 DEF Process
<1> QED BY ONLY <1>7, <1>8

\* Another signal is delivered on the way back or in user code.
LEMMA SignalArrivesIs ==
    ASSUME Shape, SignalArrives
    PROVE  /\ conf' = conf /\ g' = g /\ t' = t /\ k' \in Process /\ k'.how = k.how
           /\ k'.asked = k.asked /\ k'.calls = k.calls /\ k'.got = k.got
           /\ k.ev = "none" /\ k.pc \in {"back", "user"} /\ k.sigsys = "none"
           /\ k.sent < MaxSignals /\ k'.sent = k.sent + 1 /\ k'.sig = k'.sent
           /\ k'.pc = k.pc /\ k'.ev = "signal"
           /\ k'.sigsys = k.sigsys /\ k'.rerun = k.rerun /\ k'.regs = k.regs
<1>1. k \in Process BY DEF Shape
<1>2. PICK n : n = k.sent + 1 OBVIOUS
<1>3. n \in Nat BY ONLY <1>1, <1>2 DEF Process
<1>4. /\ k' = [k EXCEPT !.ev = "signal", !.sig = n, !.sent = n]
      /\ conf' = conf /\ g' = g /\ t' = t
      /\ k.ev = "none" /\ k.pc \in {"back", "user"} /\ k.sigsys = "none"
      /\ k.sent < MaxSignals
  BY ONLY <1>2, SignalArrives DEF SignalArrives, Running
<1> QED BY ONLY <1>1, <1>2, <1>3, <1>4 DEF Process

\* The guest makes a call of kind c.
LEMMA GuestCallIs ==
    ASSUME Shape, NEW c \in conf.kinds, GuestCall(c)
    PROVE  /\ conf' = conf /\ g' = g /\ t' = t /\ k' \in Process /\ k'.how = k.how
           /\ k'.sent = k.sent /\ k'.got = k.got
           /\ k.ev = "none" /\ k.pc = "user" /\ (k.calls = 0 => c = "exit")
           /\ k'.calls = k.calls + 1 /\ k'.asked = c
           /\ k'.pc = (IF conf.order = "new" THEN "enter" ELSE "seccomp") /\ k'.ev = "none"
           /\ k'.sigsys = k.sigsys /\ k'.rerun = k.rerun /\ k'.regs = Regs(c, "guest", "none")
<1>1. k \in Process /\ conf \in AllHosts BY FlowAssumption DEF Shape
<1>2. PICK p : p = Stages[1] OBVIOUS
<1>3. p = IF conf.order = "new" THEN "enter" ELSE "seccomp" BY ONLY <1>1, <1>2, AfterIs
<1>4. PICK r : r = Regs(c, "guest", "none") OBVIOUS
<1>5. c \in Kinds BY ONLY <1>1, c \in conf.kinds DEF AllHosts
<1>6. r \in Bank BY ONLY <1>4, <1>5 DEF Bank, Regs, Numbers
<1>7. PICK n : n = k.calls + 1 OBVIOUS
<1>8. n \in Nat BY ONLY <1>1, <1>7 DEF Process
<1>9. /\ k' = [k EXCEPT !.pc = p, !.regs = r, !.asked = c, !.calls = n]
      /\ conf' = conf /\ g' = g /\ t' = t
      /\ k.ev = "none" /\ k.pc = "user" /\ (k.calls = 0 => c = "exit")
  BY ONLY <1>2, <1>4, <1>7, GuestCall(c) DEF GuestCall, Running
<1>10. p \in {"enter", "seccomp"} BY ONLY <1>3
<1> QED BY ONLY <1>1, <1>3, <1>4, <1>5, <1>6, <1>7, <1>8, <1>9, <1>10 DEF Process

\* What holds in every phase goes on to hold in a step of the kernel.
LEMMA CommonKernel ==
    ASSUME Common, Still, k.ev = "none", k.pc # "user", k'.ev # "signal",
           k'.ev = "seccomp" => conf.filter, k.sigsys = "void" => k'.sigsys = "void",
           conf.filter /\ ~g.detected =>
             (k'.pc = "enter" /\ conf.order = "new") \/ k'.pc = "seccomp" \/ k'.ev = "seccomp"
    PROVE  Common'
<1> USE DEF Common, Still
<1>1. Shape' BY DEF Shape, Filtering
<1>2. Detection' BY DEF Detection, Filtering
<1>3. SkipRight' BY DEF SkipRight, Filtering
<1>4. Standing' BY DEF Standing
<1>5. Signals' BY DEF Signals
<1> QED BY <1>1, <1>2, <1>3, <1>4, <1>5

\* The entry or the exit of a call is reported.
LEMMA EnterStopStep ==
    ASSUME FlowInv, EnterStop
    PROVE  FlowInv'
<1>0. Common /\ Shape /\ conf \in AllHosts /\ t \in Tracee /\ k \in Process
      /\ conf.order \in {"old", "new"} /\ k.how \in {"CONT", "SYSCALL"}
  BY FlowAssumption DEF FlowInv, Common, Shape, AllHosts, Process
<1>1. /\ Still /\ k.ev = "none" /\ k.pc \in {"enter", "exit"}
      /\ k'.pc = IF k.pc = "exit" THEN "back"
                 ELSE IF conf.order = "new" THEN "seccomp" ELSE "body"
      /\ k'.ev = IF k.how = "SYSCALL" THEN "syscall" ELSE "none"
      /\ k'.sigsys = k.sigsys /\ k'.rerun = k.rerun /\ k'.regs = k.regs
  BY <1>0, EnterStopIs
<1>2. Common'
  <2>1. conf.filter /\ ~g.detected => k.pc = "enter" /\ conf.order = "new"
    BY <1>0, <1>1 DEF Common, Detection
  <2> QED BY <1>0, <1>1, <2>1, CommonKernel
<1>3. k'.asked = k.asked /\ k'.how = k.how /\ t' = t /\ conf' = conf /\ g' = g
  BY <1>1 DEF Still
<1> SUFFICES Phases' BY <1>2 DEF FlowInv
<1> USE <1>0, <1>1, <1>3 DEF Phases
<1>4. CASE User BY <1>4 DEF User
<1>5. CASE Fresh
  BY <1>5 DEF Fresh, FreshAt, Idle, Plain, Current, Steady, Late, Filtering
<1>6. CASE Entered
  <2>1. k.pc = "exit" /\ k'.ev = "syscall" BY <1>6 DEF Entered, EnteredAt
  <2> QED BY <1>6, <2>1 DEF Entered, EnteredAt, Idle, Plain, Current, Late, Filtering,
                            Banks, Ran, Given, Settable
<1>7. CASE Seen BY <1>7 DEF Seen, Banks, Filtering, Idle, Plain
<1>8. CASE Through
  <2>1. CASE k.pc = "enter"
    BY <1>8, <2>1 DEF Through, Idle, Plain, Filtering, Ran
  <2>2. CASE k.pc = "exit"
    <3>1. k.regs.res = RanRes(Wanted(k.asked)) BY <1>8, <2>2 DEF Through, Ran, Regs
    <3>2. k.asked \in {"untraced", "enter", "fails", "clone", "swapped"} BY <1>8 DEF Through
    <3>3. RanRes(Wanted(k.asked)) = Expected(k.asked)
      BY ONLY <3>2 DEF RanRes, Wanted, Handled, Regs, Expected
    <3>4. k'.regs.res = Expected(k'.asked) BY <3>1, <3>3
    <3> QED BY <1>8, <2>2, <3>4 DEF Through, Finished, Idle, Plain, Steady, Filtering
  <2> QED BY <2>1, <2>2
<1>9. CASE Caught
  <2>1. k.pc = "exit" /\ k'.ev = "syscall" BY <1>9 DEF Caught
  <2> QED BY <1>9, <2>1 DEF Caught, Banks, Idle, Late, Filtering, Given, Settable
<1>10. CASE Trapping BY <1>10 DEF Trapping, Idle, Steady, Late, Filtering
<1>11. CASE Retry BY <1>11 DEF Retry
<1>12. CASE Finished BY <1>12 DEF Finished
<1>13. ASSUME NEW n, Inserting(n)
       PROVE  Inserting(n)' /\ (k.pc = "exit" => k.pc # "enter" /\ t.status = 1)
              /\ (t.status = 1 => k.pc = "exit")
  BY <1>13 DEF Inserting, AgainAt, EnteredAt, Plain
<1>14. CASE Chained BY <1>13, <1>14 DEF Chained
<1>15. CASE Faulty BY <1>13, <1>15 DEF Faulty, Ran
<1>16. CASE Replaced BY <1>13, <1>16 DEF Replaced
<1> QED BY <1>4, <1>5, <1>6, <1>7, <1>8, <1>9, <1>10, <1>11, <1>12, <1>14, <1>15, <1>16 DEF FlowInv

\* What of a call the filter of PRoot, or the policy of the host, sees.
LEMMA GivenNum ==
    ASSUME NEW n \in Kinds \cup {"other"}
    PROVE  /\ Given(n).num = IF Settable(n) THEN Wanted(n).num ELSE n
           /\ Given(n) = Regs(Given(n).num, Given(n).args, Given(n).res)
           /\ n \in Trapped => Wanted(n).num = n
           /\ Given(n).num \in Trapped => n \in Trapped
           /\ Given(n).num = "clone" => n = "clone"
           /\ Wanted("other").num = "other" /\ Wanted("exit").num = "exit"
BY DEF Given, Settable, Wanted, Handled, Regs, Trapped, Kinds

\* A call passes the policy of the host, and the filter reports it or not.
LEMMA SeccompAllowsStep ==
    ASSUME FlowInv, Served(conf), SeccompAllows
    PROVE  FlowInv'
<1>0. Common /\ Shape /\ conf \in AllHosts /\ t \in Tracee /\ k \in Process
      /\ conf.order \in {"old", "new"} /\ k.how \in {"CONT", "SYSCALL"}
      /\ (~conf.filter => ~Filtering) /\ (k.how = "CONT" => Filtering)
      /\ (t.restoreSeccomp => k.asked = "blocked")
  BY FlowAssumption DEF FlowInv, Common, Shape, AllHosts, Process, Detection, Standing
<1>1. /\ Still /\ k.ev = "none" /\ k.pc = "seccomp"
      /\ k.regs.num \notin Trapped /\ (k.regs.num = "void" => ~conf.trapsVoid)
      /\ k'.pc = IF conf.order = "new" THEN "body" ELSE "enter"
      /\ k'.ev = IF conf.filter /\ Filter(k.regs.num) # "allow" THEN "seccomp" ELSE "none"
      /\ k'.sigsys = k.sigsys /\ k'.rerun = k.rerun /\ k'.regs = k.regs
  BY <1>0, SeccompAllowsIs
<1>2. Common'
  <2>1. CASE conf.filter /\ ~g.detected
    <3>1. k.asked = "exit" /\ ~t.restoreSeccomp /\ Current = "exit"
      BY <1>0, <1>1, <2>1 DEF Common, Detection, Current, Shape, Tracee
    <3>2. k.regs.num = "exit"
      <4>1. Fresh => k.regs.num = "exit" BY <3>1 DEF Fresh, Regs
      <4>2. Entered => k.regs = Given("exit") BY <1>1, <3>1 DEF Entered, Ran
      <4>3. Given("exit").num = "exit" BY GivenNum DEF Kinds
      <4>4. Fresh \/ Entered
        BY <1>1, <3>1 DEF FlowInv, Phases, User, Seen, Through, Caught, Trapping, Retry, Finished,
                          Chained, Faulty, Replaced, Inserting
      <4> QED BY <4>1, <4>2, <4>3, <4>4
    <3>3. k'.ev = "seccomp" BY <1>1, <2>1, <3>2 DEF Filter
    <3> QED BY <1>0, <1>1, <2>1, <3>3, CommonKernel
  <2>2. CASE ~(conf.filter /\ ~g.detected)
    BY <1>0, <1>1, <2>2, CommonKernel
  <2> QED BY <2>1, <2>2
<1>3. k'.asked = k.asked /\ k'.how = k.how /\ t' = t /\ conf' = conf /\ g' = g
  BY <1>1 DEF Still
<1> SUFFICES Phases' BY <1>2 DEF FlowInv
<1> USE <1>0, <1>1, <1>3 DEF Phases
<1>4. CASE User BY <1>4 DEF User
<1>5. CASE Fresh
  <2>1. k.regs = Regs(Current, "guest", "none") /\ k.regs.num = Current BY <1>5 DEF Fresh, Regs
  <2>2. CASE k'.ev = "seccomp"
    BY <1>5, <2>1, <2>2 DEF Fresh, FreshAt, Idle, Plain, Current, Steady, Late, Filtering
  <2>3. CASE k'.ev = "none" /\ k.how = "SYSCALL"
    <3>1. conf.order = "old" BY <1>5, <2>3 DEF Fresh, FreshAt
    <3> QED BY <1>5, <2>1, <2>3, <3>1 DEF Fresh, FreshAt, Idle, Plain, Current, Steady, Late, Filtering
  <2>4. CASE k'.ev = "none" /\ k.how = "CONT"
    <3>1. ~t.restoreSeccomp /\ ~t.exitPending /\ k.asked \in Kinds /\ k.asked \in conf.kinds
      BY <1>5, <2>4 DEF Fresh, AllHosts
    <3>2. Current = k.asked /\ Filter(k.asked) = "allow" /\ k.asked \notin Trapped
      BY <2>1, <2>4, <3>1 DEF Current
    <3>3. k.asked = "untraced" BY <3>1, <3>2 DEF Filter, Kinds, Trapped
    <3>4. Wanted("untraced") = Regs("untraced", "guest", "none") BY DEF Wanted, Handled
    <3> QED BY <1>5, <2>1, <2>4, <3>1, <3>2, <3>3, <3>4
            DEF Fresh, Through, Idle, Plain, Filtering, Ran
  <2> QED BY <2>2, <2>3, <2>4
<1>6. CASE Entered
  <2>1. Current \in Kinds \cup {"other"} BY <1>6 DEF Entered, Current, AllHosts
  <2>2. k.regs = Given(Current) BY <1>6 DEF Entered, Ran
  <2>3. conf.order = "new" /\ k.how = "SYSCALL" /\ k'.pc = "body" BY <1>6 DEF Entered, EnteredAt
  <2>4. Current \notin Trapped BY <2>1, <2>2, GivenNum DEF Settable
  <2>5. t.skip /\ Filtering => Late /\ ~conf.trapsVoid
    <3>1. SUFFICES ASSUME t.skip, Filtering PROVE Late /\ ~conf.trapsVoid OBVIOUS
    <3>2. Wanted(Current).num = "void" /\ conf.filter BY <1>6, <3>1 DEF Entered
    <3>3. Settable(Current) BY <3>2 DEF Settable, Served
    <3>4. k.regs.num = "void" BY <2>1, <2>2, <3>2, <3>3, GivenNum
    <3>5. ~t.restoreSeccomp BY <2>1, <3>2, GivenNum DEF Current
    <3> QED BY <1>6, <3>4, <3>5 DEF Entered
  <2>6. Current' = Current /\ Given(Current)' = Given(Current) /\ (Late <=> Late')
        /\ Wanted(Current)' = Wanted(Current) /\ (Filtering <=> Filtering')
    BY DEF Current, Given, Settable, Wanted, Late, Filtering
  <2>7. k'.regs = Ran(Given(Current))' BY <2>2, <2>3, <2>6 DEF Ran
  <2>8. EnteredAt' /\ Banks(Current)' /\ Idle'
    BY <1>6, <2>3, <2>6 DEF Entered, EnteredAt, Banks, Idle, Plain
  <2>9. k'.ev = "seccomp" => Filter(Given(Current).num) # "allow" BY <2>2
  <2>10. Entered'
    BY <1>6, <2>3, <2>4, <2>5, <2>6, <2>7, <2>8, <2>9 DEF Entered
  <2> QED BY <2>10
<1>7. CASE Seen BY <1>7 DEF Seen
<1>8. CASE Through BY <1>8 DEF Through
<1>9. CASE Caught BY <1>9 DEF Caught
<1>10. CASE Trapping BY <1>10 DEF Trapping
<1>11. CASE Retry BY <1>11 DEF Retry
<1>12. CASE Finished BY <1>12 DEF Finished
<1>13. ASSUME NEW n, Inserting(n), k'.ev = "none"
       PROVE  Inserting(n)'
  BY <1>13 DEF Inserting, AgainAt, EnteredAt, Plain
<1>14. CASE Chained
  <2>1. k'.ev = "none" BY <1>14 DEF Chained, Regs, Filter
  <2> QED BY <1>13, <1>14, <2>1 DEF Chained
<1>15. CASE Faulty
  <2>1. k'.ev = "none" BY <1>15 DEF Faulty, Served
  <2> QED BY <1>13, <1>15, <2>1 DEF Faulty, Ran
<1>16. CASE Replaced
  <2>1. k'.ev = "none" BY <1>16 DEF Replaced, Served
  <2> QED BY <1>13, <1>16, <2>1 DEF Replaced
<1> QED BY <1>4, <1>5, <1>6, <1>7, <1>8, <1>9, <1>10, <1>11, <1>12, <1>14, <1>15, <1>16 DEF FlowInv

\* A call is trapped.
LEMMA SeccompTrapsStep ==
    ASSUME FlowInv, SeccompTraps
    PROVE  FlowInv'
<1>0. Common /\ Shape /\ conf \in AllHosts /\ t \in Tracee /\ k \in Process
      /\ conf.order \in {"old", "new"} /\ k.how \in {"CONT", "SYSCALL"}
      /\ (k.how = "CONT" => Filtering) /\ (t.restoreSeccomp => k.asked = "blocked")
  BY FlowAssumption DEF FlowInv, Common, Shape, AllHosts, Process, Standing
<1>1. /\ Still /\ k.ev = "none" /\ k.pc = "seccomp" /\ k'.ev = "none"
      /\ k.regs.num \in Trapped \/ (k.regs.num = "void" /\ conf.trapsVoid)
      /\ k'.pc \in {"exit", "back"} /\ (conf.order = "old" => k'.pc = "back")
      /\ (k'.pc = "back" => conf.order = "old" \/ conf.skips)
      /\ k'.sigsys = k.regs.num /\ k'.rerun = k.rerun
      /\ k'.regs = Regs(k.regs.num, k.regs.args, "none")
  BY <1>0, SeccompTrapsIs
<1>2. k'.asked = k.asked /\ k'.how = k.how /\ t' = t /\ conf' = conf /\ g' = g
  BY <1>1 DEF Still
<1>3. Fresh \/ Entered
  <2>1. ~Chained
    <3>1. Chained => k.regs.num = "chained" BY DEF Chained, Regs
    <3> QED BY <1>1, <3>1 DEF Trapped
  <2>2. ~Replaced
    <3>1. Replaced => k.regs.num = "other" BY DEF Replaced, Regs
    <3> QED BY <1>1, <3>1 DEF Trapped
  <2>3. ~Faulty
    <3>1. Faulty => k.regs.num = "swapped" BY <1>1 DEF Faulty, Ran, Regs
    <3> QED BY <1>1, <3>1 DEF Trapped
  <2> QED BY <1>1, <2>1, <2>2, <2>3
          DEF FlowInv, Phases, User, Seen, Through, Caught, Trapping, Retry, Finished
<1>4. Current \in Kinds \cup {"other"} /\ Plain /\ k.asked \in conf.kinds
  BY <1>0, <1>3 DEF Fresh, Entered, EnteredAt, Current, AllHosts
<1>5. Common'
  <2>1. ~(conf.filter /\ ~g.detected)
    <3>1. SUFFICES ASSUME conf.filter /\ ~g.detected PROVE FALSE OBVIOUS
    <3>2. Current = "exit" BY <1>0, <1>1, <3>1 DEF Common, Detection, Current, Shape, Tracee
    <3>3. Fresh => k.regs.num = "exit" BY <3>2 DEF Fresh, Regs
    <3>4. Entered => k.regs = Given("exit") BY <1>1, <3>2 DEF Entered, Ran
    <3>5. Given("exit").num = "exit" BY GivenNum DEF Kinds
    <3> QED BY <1>1, <1>3, <3>3, <3>4, <3>5 DEF Trapped
  <2> QED BY <1>0, <1>1, <1>4, <2>1, CommonKernel DEF Plain
<1> SUFFICES Phases' BY <1>5 DEF FlowInv
<1>6. CASE Fresh
  <2>1. k.regs = Regs(Current, "guest", "none") /\ k.regs.num = Current BY <1>6 DEF Fresh, Regs
  <2>2. Current = k.asked /\ ~t.restoreSeccomp /\ Current \in Trapped
    BY <1>1, <1>4, <2>1 DEF Current, Trapped, Kinds
  <2>3. k'.regs = Regs(k.asked, "guest", "none") BY <1>1, <2>1, <2>2 DEF Regs
  <2>4. ~t.skip
    <3>1. SUFFICES ASSUME t.skip PROVE FALSE OBVIOUS
    <3>2. conf.order = "new" /\ k.how = "CONT"
      BY <1>0, <1>1, <1>6, <3>1 DEF Common, SkipRight, Fresh, FreshAt
    <3> QED BY <1>0, <1>4, <1>6, <2>2, <3>1, <3>2 DEF Common, SkipRight, Fresh, Plain
  <2>5. Steady /\ Steady' BY <1>1, <1>2, <1>6, <2>2 DEF Fresh, Steady, Late, Filtering
  <2>6. k'.pc = "exit" => k.how = "CONT" BY <1>0, <1>1, <1>6 DEF Fresh, FreshAt
  <2>7. k'.sigsys # "void" BY <1>1, <2>1, <2>2 DEF Trapped
  <2>8. Trapping'
    BY <1>1, <1>2, <1>4, <1>6, <2>1, <2>2, <2>3, <2>4, <2>5, <2>6, <2>7
       DEF Trapping, Fresh, Idle, Plain
  <2> QED BY <2>8 DEF Phases
<1>7. CASE Entered
  <2>1. k.regs = Given(Current) BY <1>1, <1>7 DEF Entered, Ran
  <2>2. conf.order = "new" /\ k.how = "SYSCALL" BY <1>1, <1>7 DEF Entered, EnteredAt
  <2>3. ~t.restoreSeccomp
    <3>1. Given("other").num = "other" BY GivenNum
    <3> QED BY <1>1, <2>1, <3>1 DEF Current, Trapped
  <2>4. Current = k.asked BY <2>3 DEF Current
  <2>5. Given(k.asked)' = Given(k.asked) /\ (Late <=> Late')
    BY <1>2 DEF Given, Settable, Wanted, Late, Filtering
  <2>6. Late' BY <1>1, <1>7, <2>3, <2>5 DEF Entered
  <2>7. k'.sigsys = Given(k.asked).num /\ k'.regs = Regs(Given(k.asked).num, Given(k.asked).args, "none")
    BY <1>1, <2>1, <2>4
  <2>8. IF k'.sigsys \in Trapped THEN ~t.skip ELSE k'.sigsys = "void" /\ conf.trapsVoid
    BY <1>1, <1>4, <1>7, <2>1, <2>4, <2>7, GivenNum DEF Entered
  <2>9. Caught'
    BY <1>1, <1>2, <1>4, <1>7, <2>2, <2>3, <2>4, <2>5, <2>6, <2>7, <2>8
       DEF Caught, Entered, Idle, Plain, Banks
  <2> QED BY <2>9 DEF Phases
<1> QED BY <1>3, <1>6, <1>7

\* A call is executed.
LEMMA BodyStep ==
    ASSUME FlowInv, Body
    PROVE  FlowInv'
<1>0. Common /\ Shape /\ conf \in AllHosts /\ t \in Tracee /\ k \in Process
      /\ conf.order \in {"old", "new"} /\ k.how \in {"CONT", "SYSCALL"}
  BY FlowAssumption DEF FlowInv, Common, Shape, AllHosts, Process
<1>1. /\ Still /\ k.ev = "none" /\ k.pc = "body" /\ k'.pc = "exit"
      /\ k'.ev = IF k.regs.num = "clone" THEN "fork" ELSE "none"
      /\ k'.sigsys = k.sigsys /\ k'.rerun = k.rerun
      /\ k'.regs = Regs(k.regs.num, k.regs.args, RanRes(k.regs))
  BY <1>0, BodyIs
<1>2. Common'
  <2>1. ~(conf.filter /\ ~g.detected)
    BY <1>0, <1>1 DEF Common, Detection
  <2> QED BY <1>0, <1>1, <2>1, CommonKernel
<1>3. k'.asked = k.asked /\ k'.how = k.how /\ t' = t /\ conf' = conf /\ g' = g
  BY <1>1 DEF Still
<1> SUFFICES Phases' BY <1>2 DEF FlowInv
<1> USE <1>0, <1>1, <1>3 DEF Phases
<1>4. CASE User BY <1>4 DEF User
<1>5. CASE Fresh BY <1>5 DEF Fresh, FreshAt
<1>6. CASE Entered
  <2>1. Current \in Kinds \cup {"other"} BY <1>6 DEF Entered, Current, AllHosts
  <2>2. k.regs = Given(Current) BY <1>6 DEF Entered, Ran
  <2>3. k.how = "SYSCALL" BY <1>6 DEF Entered, EnteredAt
  <2>4. Current' = Current /\ Given(Current)' = Given(Current) /\ (Late <=> Late')
        /\ Wanted(Current)' = Wanted(Current) /\ (Filtering <=> Filtering')
    BY DEF Current, Given, Settable, Wanted, Late, Filtering
  <2>5. k'.regs = Ran(Given(Current))' BY <2>2, <2>4 DEF Ran
  <2>6. EnteredAt' /\ Banks(Current)' /\ Idle'
    BY <1>6, <2>3, <2>4 DEF Entered, EnteredAt, Banks, Idle, Plain
  <2>7. k'.ev = "fork" => Current = "clone" BY <2>1, <2>2, GivenNum
  <2> QED BY <1>6, <2>3, <2>4, <2>5, <2>6, <2>7 DEF Entered
<1>7. CASE Seen BY <1>7 DEF Seen
<1>8. CASE Through
  <2>1. k.regs = Wanted(k.asked) BY <1>8 DEF Through, Ran
  <2>2. k'.regs = Ran(Wanted(k.asked))' BY <2>1 DEF Ran
  <2> QED BY <1>8, <2>2 DEF Through, Idle, Plain, Filtering
<1>9. CASE Caught BY <1>9 DEF Caught
<1>10. CASE Trapping BY <1>10 DEF Trapping
<1>11. CASE Retry BY <1>11 DEF Retry
<1>12. CASE Finished BY <1>12 DEF Finished
<1>13. ASSUME NEW n, Inserting(n), k'.ev = "none"
       PROVE  Inserting(n)' /\ t.status = 1
  BY <1>13 DEF Inserting, AgainAt, EnteredAt, Plain
<1>14. CASE Chained
  <2>1. k.regs = Regs("chained", "host", "kernel") BY <1>14 DEF Chained
  <2>2. k'.ev = "none" /\ k'.regs = k.regs BY <2>1 DEF Regs, RanRes
  <2> QED BY <1>13, <1>14, <2>2 DEF Chained
<1>15. CASE Faulty
  <2>1. k.regs = Regs("swapped", "bad", "none") BY <1>15 DEF Faulty, Ran
  <2>2. k'.ev = "none" BY <2>1 DEF Regs
  <2>3. k'.regs = Ran(Regs("swapped", "bad", "none"))' BY <2>1 DEF Ran
  <2> QED BY <1>13, <1>15, <2>2, <2>3 DEF Faulty
<1>16. CASE Replaced
  <2>1. k.regs = Regs("other", "host", "einval") BY <1>16 DEF Replaced
  <2>2. k'.ev = "none" /\ k'.regs = Regs("other", "host", "kernel") BY <2>1 DEF Regs, RanRes
  <2> QED BY <1>13, <1>16, <2>2 DEF Replaced
<1> QED BY <1>4, <1>5, <1>6, <1>7, <1>8, <1>9, <1>10, <1>11, <1>12, <1>14, <1>15, <1>16 DEF FlowInv

\* SIGSYS is delivered.
LEMMA SigsysArrivesStep ==
    ASSUME FlowInv, SigsysArrives
    PROVE  FlowInv'
<1>0. Common /\ Shape BY DEF FlowInv, Common
<1>1. /\ Still /\ k.ev = "none" /\ k.pc = "back" /\ k.sigsys # "none"
      /\ k'.pc = k.pc /\ k'.ev = "sigsys"
      /\ k'.sigsys = k.sigsys /\ k'.rerun = k.rerun /\ k'.regs = k.regs
  BY <1>0, SigsysArrivesIs
<1>2. Common'
  <2>1. ~(conf.filter /\ ~g.detected) BY <1>0, <1>1 DEF Common, Detection
  <2> QED BY <1>0, <1>1, <2>1, CommonKernel
<1>3. k'.asked = k.asked /\ k'.how = k.how /\ t' = t /\ conf' = conf /\ g' = g
  BY <1>1 DEF Still
<1>4. Caught \/ Trapping
  BY <1>1 DEF FlowInv, Phases, User, Fresh, Entered, EnteredAt, Seen, Through, Retry, Finished,
              Chained, Faulty, Replaced, Inserting, AgainAt, Plain
<1>5. CASE Caught
  <2>1. Caught' BY <1>1, <1>3, <1>5 DEF Caught, Banks, Idle, Late, Filtering, Given, Settable
  <2> QED BY <1>2, <2>1 DEF FlowInv, Phases
<1>6. CASE Trapping
  <2>1. Trapping' BY <1>1, <1>3, <1>6 DEF Trapping, Idle, Steady, Late, Filtering
  <2> QED BY <1>2, <2>1 DEF FlowInv, Phases
<1> QED BY <1>4, <1>5, <1>6

\* The tracee is back at the trap instruction, or in user code with its result.
LEMMA BackStep ==
    ASSUME FlowInv, Back
    PROVE  FlowInv'
<1>0. Common /\ Shape /\ k \in Process /\ t \in Tracee
  BY DEF FlowInv, Common, Shape
<1>1. /\ conf' = conf /\ g' = g /\ t' = t /\ k' \in Process /\ k'.how = k.how
      /\ k'.calls = k.calls /\ k'.sent = k.sent /\ k'.got = k.got
      /\ k.ev = "none" /\ k.pc = "back" /\ k.sigsys = "none"
      /\ k'.ev = "none" /\ k'.sigsys = "none" /\ ~k'.rerun /\ k'.regs = k.regs
      /\ IF k.rerun
         THEN /\ k'.pc = IF conf.order = "new" THEN "enter" ELSE "seccomp"
              /\ k'.asked = k.asked /\ k'.answer = k.answer
         ELSE k'.pc = "user" /\ k'.asked = "none" /\ k'.answer = k.regs.res
  BY <1>0, BackIs
<1>2. ~(conf.filter /\ ~g.detected) BY <1>0, <1>1 DEF Common, Detection
<1>3. Retry \/ Finished \/ Chained \/ Replaced
  BY <1>1 DEF FlowInv, Phases, User, Fresh, FreshAt, Entered, EnteredAt, Seen, Through, Caught,
              Trapping, Faulty, Inserting, Plain, Trapped
<1>4. (t.restoreSeccomp => Retry) /\ (Finished => ~k.rerun)
  BY <1>3 DEF Finished, Chained, Replaced, Inserting, Plain
<1>5. Common'
  <2>1. Shape' BY <1>0, <1>1 DEF Common, Shape, Filtering
  <2>2. Detection' BY <1>0, <1>1, <1>2 DEF Common, Detection, Filtering
  <2>3. SkipRight' BY <1>0, <1>1 DEF Common, SkipRight, Filtering
  <2>4. Standing'
    <3>1. Retry => k.rerun BY DEF Retry
    <3> QED BY <1>0, <1>1, <1>4, <3>1 DEF Common, Standing
  <2>5. Signals' BY <1>0, <1>1 DEF Common, Signals
  <2> QED BY <2>1, <2>2, <2>3, <2>4, <2>5 DEF Common
<1> SUFFICES Phases' BY <1>5 DEF FlowInv
<1>6. CASE Retry
  <2>1. Fresh' BY <1>1, <1>6 DEF Retry, Fresh, FreshAt, Idle, Plain, Current, Steady
  <2> QED BY <2>1 DEF Phases
<1>7. CASE Finished
  <2>1. User' BY <1>1, <1>7 DEF Finished, User, Idle, Plain, Steady, Late, Filtering
  <2> QED BY <2>1 DEF Phases
<1>8. ASSUME NEW n, Inserting(n)
      PROVE  Inserting(n)' /\ t.status = 0
  <2>1. t.status = 0 /\ AgainAt /\ k.rerun BY <1>1, <1>8 DEF Inserting, AgainAt, EnteredAt
  <2>2. AgainAt' BY <1>1, <2>1 DEF AgainAt
  <2> QED BY <1>1, <1>8, <2>1, <2>2 DEF Inserting
<1>9. CASE Chained
  <2>1. Chained' BY <1>1, <1>8, <1>9 DEF Chained
  <2> QED BY <2>1 DEF Phases
<1>10. CASE Replaced
  <2>1. Replaced' BY <1>1, <1>8, <1>10 DEF Replaced
  <2> QED BY <2>1 DEF Phases
<1> QED BY <1>3, <1>6, <1>7, <1>9, <1>10

\* A signal reaches the tracee.
LEMMA SignalArrivesStep ==
    ASSUME FlowInv, SignalArrives
    PROVE  FlowInv'
<1>0. Common /\ Shape /\ k \in Process /\ t \in Tracee
  BY DEF FlowInv, Common, Shape
<1>1. /\ conf' = conf /\ g' = g /\ t' = t /\ k' \in Process /\ k'.how = k.how
      /\ k'.asked = k.asked /\ k'.calls = k.calls /\ k'.got = k.got
      /\ k.ev = "none" /\ k.pc \in {"back", "user"} /\ k.sigsys = "none"
      /\ k.sent < MaxSignals /\ k'.sent = k.sent + 1 /\ k'.sig = k'.sent
      /\ k'.pc = k.pc /\ k'.ev = "signal"
      /\ k'.sigsys = k.sigsys /\ k'.rerun = k.rerun /\ k'.regs = k.regs
  BY <1>0, SignalArrivesIs
<1>2. Common'
  <2>1. Shape' BY <1>0, <1>1 DEF Common, Shape, Filtering
  <2>2. Detection' BY <1>0, <1>1 DEF Common, Detection, Filtering
  <2>3. SkipRight' BY <1>0, <1>1 DEF Common, SkipRight, Filtering
  <2>4. Standing' BY <1>0, <1>1 DEF Common, Standing
  <2>5. Signals'
    <3>1. k.sent \in Nat /\ t.suppressed \in Nat /\ MaxSignals \in Nat
      BY <1>0, FlowAssumption DEF Process, Tracee
    <3> QED BY <1>0, <1>1, <3>1 DEF Common, Signals
  <2> QED BY <2>1, <2>2, <2>3, <2>4, <2>5 DEF Common
<1> SUFFICES Phases' BY <1>2 DEF FlowInv
<1>3. User \/ Retry \/ Finished \/ Chained \/ Replaced
  BY <1>1 DEF FlowInv, Phases, Fresh, FreshAt, Entered, EnteredAt, Seen, Through, Caught,
              Trapping, Faulty, Inserting, Plain, Trapped
<1>4. CASE User
  <2>1. User' BY <1>1, <1>4 DEF User, Idle, Plain, Steady, Late, Filtering
  <2> QED BY <2>1 DEF Phases
<1>5. CASE Retry
  <2>1. Retry' BY <1>1, <1>5 DEF Retry, Idle
  <2> QED BY <2>1 DEF Phases
<1>6. CASE Finished
  <2>1. Finished' BY <1>1, <1>6 DEF Finished, Idle, Plain, Steady, Late, Filtering
  <2> QED BY <2>1 DEF Phases
<1>7. ASSUME NEW n, Inserting(n)
      PROVE  Inserting(n)' /\ t.status = 0
  <2>1. t.status = 0 /\ AgainAt /\ k.rerun BY <1>1, <1>7 DEF Inserting, AgainAt, EnteredAt
  <2>2. AgainAt' BY <1>1, <2>1 DEF AgainAt
  <2> QED BY <1>1, <1>7, <2>1, <2>2 DEF Inserting
<1>8. CASE Chained
  <2>1. Chained' BY <1>1, <1>7, <1>8 DEF Chained
  <2> QED BY <2>1 DEF Phases
<1>9. CASE Replaced
  <2>1. Replaced' BY <1>1, <1>7, <1>9 DEF Replaced
  <2> QED BY <2>1 DEF Phases
<1> QED BY <1>3, <1>4, <1>5, <1>6, <1>8, <1>9

\* The guest makes a call.
LEMMA GuestCallStep ==
    ASSUME FlowInv, NEW c \in conf.kinds, GuestCall(c)
    PROVE  FlowInv'
<1>0. Common /\ Shape /\ k \in Process /\ t \in Tracee /\ conf \in AllHosts
      /\ conf.order \in {"old", "new"}
  BY FlowAssumption DEF FlowInv, Common, Shape, AllHosts
<1>1. /\ conf' = conf /\ g' = g /\ t' = t /\ k' \in Process /\ k'.how = k.how
      /\ k'.sent = k.sent /\ k'.got = k.got
      /\ k.ev = "none" /\ k.pc = "user" /\ (k.calls = 0 => c = "exit")
      /\ k'.calls = k.calls + 1 /\ k'.asked = c
      /\ k'.pc = (IF conf.order = "new" THEN "enter" ELSE "seccomp") /\ k'.ev = "none"
      /\ k'.sigsys = k.sigsys /\ k'.rerun = k.rerun /\ k'.regs = Regs(c, "guest", "none")
  BY <1>0, GuestCallIs
<1>2. User
  BY <1>1 DEF FlowInv, Phases, Fresh, FreshAt, Entered, EnteredAt, Seen, Through, Caught,
              Trapping, Retry, Finished, Chained, Faulty, Replaced, Inserting, AgainAt
<1>3. Common'
  <2>1. Shape' BY <1>0, <1>1 DEF Common, Shape, Filtering
  <2>2. Detection'
    <3>1. k.calls \in Nat BY <1>0 DEF Process
    <3> QED BY <1>0, <1>1, <3>1 DEF Common, Detection, Filtering
  <2>3. SkipRight' BY <1>0, <1>1 DEF Common, SkipRight, Filtering
  <2>4. Standing' BY <1>1, <1>2 DEF User, Standing
  <2>5. Signals' BY <1>0, <1>1 DEF Common, Signals
  <2> QED BY <2>1, <2>2, <2>3, <2>4, <2>5 DEF Common
<1>4. Fresh'
  BY <1>0, <1>1, <1>2 DEF User, Fresh, FreshAt, Idle, Plain, Current, Steady, Late, Filtering
<1> QED BY <1>3, <1>4 DEF FlowInv, Phases
-------------------------------------------------------------------------------
(* The other reports.                                                      *)

\* What the report of a new child leaves alone.
LEMMA ForkIs ==
    ASSUME Shape, HandleFork
    PROVE  /\ Onward /\ k.ev = "fork" /\ k'.how = Usual /\ Rest(t, t')
           /\ t'.exitPending = t.exitPending /\ t'.skip = t.skip
           /\ k'.sigsys = k.sigsys /\ k'.rerun = k.rerun /\ k'.regs = k.regs
<1>1. PICK h : h = Stopped OBVIOUS
<1>2. /\ h \in Pairs /\ h.k = k /\ Rest(t, h.t) /\ h.t.restart = Usual
      /\ h.t.last = t.last /\ h.t.seccomp = t.seccomp /\ h.t.exitPending = t.exitPending
      /\ h.t.skip = t.skip /\ h.t.suppressed = t.suppressed /\ h.t.signal = 0
  BY ONLY <1>1, Shape, StoppedIs
<1>3. Restart(h) /\ conf' = conf /\ g' = g /\ k.ev = "fork"
  BY ONLY <1>1, HandleFork DEF HandleFork
<1>4. h.t.restart \in {"CONT", "SYSCALL"} BY ONLY <1>2 DEF Usual
<1>5. Resumed(h) BY ONLY <1>2, <1>3, <1>4, RestartIs
<1> QED BY ONLY <1>2, <1>3, <1>5 DEF Resumed, Onward, Rest, SameChain

\* A new child is reported.
LEMMA ForkStep ==
    ASSUME FlowInv, HandleFork
    PROVE  FlowInv'
<1>0. Common /\ Shape /\ k \in Process /\ t \in Tracee BY DEF FlowInv, Common, Shape
<1>1. /\ Onward /\ k.ev = "fork" /\ k'.how = Usual /\ Rest(t, t')
      /\ t'.exitPending = t.exitPending /\ t'.skip = t.skip
      /\ k'.sigsys = k.sigsys /\ k'.rerun = k.rerun /\ k'.regs = k.regs
  BY <1>0, ForkIs
<1>2. /\ conf' = conf /\ g' = g /\ k'.ev = "none" /\ k'.pc = k.pc /\ k'.asked = k.asked
      /\ t'.seccomp = t.seccomp
  BY <1>1 DEF Onward
<1>3. SameChain(t, t') /\ t'.status = t.status /\ t'.restoreSeccomp = t.restoreSeccomp
      /\ t'.already = t.already /\ t'.orig = t.orig /\ t'.mod = t.mod
  BY <1>1 DEF Rest
<1>4. Entered \/ Through
  BY <1>1 DEF FlowInv, Phases, User, Fresh, FreshAt, Seen, Caught, Trapping, Retry, Finished,
              Chained, Faulty, Replaced, Inserting, AgainAt
<1>5. Common'
  <2>1. ~Filtering => k'.how = "SYSCALL" BY <1>1 DEF Usual, Filtering
  <2>2. SkipRight' BY <1>0, <1>1, <1>2 DEF Common, SkipRight, Filtering
  <2>3. Chaining(t) => Chaining(t)' BY <1>3 DEF Chaining, SameChain
  <2>4. t'.restoreSeccomp => t.restoreSeccomp BY <1>3
  <2>5. k.ev \in {"syscall", "fork"} BY <1>1
  <2> QED BY ONLY <1>0, <1>1, <2>1, <2>2, <2>3, <2>4, <2>5, CommonStep
<1>6. CASE Entered
  <2>1. k'.how = "SYSCALL" /\ k.pc = "exit"
    <3>1. Current = "clone" BY <1>1, <1>6 DEF Entered
    <3> QED BY <1>1, <1>6, <3>1 DEF Entered, EnteredAt, Usual, Filtering
  <2>2. Current' = Current /\ Given(Current)' = Given(Current) /\ (Late <=> Late')
        /\ Wanted(Current)' = Wanted(Current) /\ (Filtering <=> Filtering')
    BY <1>1, <1>2, <1>3 DEF Current, Given, Settable, Wanted, Late, Filtering
  <2>3. k'.regs = Ran(Given(Current))' BY <1>1, <1>2, <1>6, <2>2 DEF Entered, Ran
  <2>4. EnteredAt' /\ Banks(Current)' /\ Idle'
    BY <1>1, <1>2, <1>3, <1>6, <2>1, <2>2
       DEF Entered, EnteredAt, Banks, Idle, Plain, SameChain
  <2>5. Entered'
    BY <1>1, <1>2, <1>3, <1>6, <2>1, <2>2, <2>3, <2>4 DEF Entered
  <2> QED BY <1>5, <2>5 DEF FlowInv, Phases
<1>7. CASE Through
  <2>1. k'.how = "CONT" BY <1>1, <1>7 DEF Through, Idle, Usual, Filtering, Chaining
  <2>2. k'.regs = Ran(Wanted(k.asked))' BY <1>1, <1>2, <1>7 DEF Through, Ran
  <2>3. Through'
    BY <1>1, <1>2, <1>3, <1>7, <2>1, <2>2 DEF Through, Idle, Plain, Filtering, SameChain
  <2> QED BY <1>5, <2>3 DEF FlowInv, Phases
<1> QED BY <1>4, <1>6, <1>7

\* A signal is passed on, or kept until the end of the chain.
LEMMA SignalIs ==
    ASSUME Shape, HandleSignal, k.sig # 0
    PROVE  /\ conf' = conf /\ g' = g /\ k.ev = "signal" /\ k'.ev = "none"
           /\ k'.how = Usual /\ Rest(t, t') /\ t' \in Tracee /\ k' \in Process
           /\ t'.restart = "none" /\ t'.signal = 0 /\ t'.last = k'.how
           /\ t'.exitPending = t.exitPending /\ t'.skip = t.skip /\ t'.seccomp = t.seccomp
           /\ k'.sigsys = k.sigsys /\ k'.rerun = k.rerun /\ k'.regs = k.regs
           /\ k'.pc = k.pc /\ k'.asked = k.asked /\ k'.calls = k.calls /\ k'.sent = k.sent
           /\ IF Chaining(t) THEN t'.suppressed = k.sig
              ELSE t'.suppressed = t.suppressed /\ k'.got = k.sig
<1>0. k \in Process BY DEF Shape
<1>1. PICK s : s = Stopped OBVIOUS
<1>2. /\ s \in Pairs /\ s.k = k /\ Rest(t, s.t) /\ s.t.restart = Usual
      /\ s.t.last = t.last /\ s.t.seccomp = t.seccomp /\ s.t.exitPending = t.exitPending
      /\ s.t.skip = t.skip /\ s.t.suppressed = t.suppressed /\ s.t.signal = 0
  BY ONLY <1>1, Shape, StoppedIs
<1>3. PICK h : h = SignalStop(s) OBVIOUS
<1>4. Restart(h) /\ conf' = conf /\ g' = g /\ k.ev = "signal"
  BY ONLY <1>1, <1>3, HandleSignal DEF HandleSignal
<1>5. PICK u : u = s.t OBVIOUS
<1>6. PICK n : n = k.sig OBVIOUS
<1>7. u \in Tracee /\ n \in Nat BY ONLY <1>0, <1>2, <1>5, <1>6 DEF Pairs, Process
<1>8. Chaining(u) <=> Chaining(t) BY ONLY <1>2, <1>5 DEF Rest, SameChain, Chaining
<1>9. PICK a : a = IF Chaining(t) THEN [u EXCEPT !.suppressed = n]
                   ELSE [u EXCEPT !.signal = n] OBVIOUS
<1>10. /\ a \in Tracee /\ Rest(u, a) /\ a.restart = u.restart /\ a.last = u.last
       /\ a.seccomp = u.seccomp /\ a.exitPending = u.exitPending /\ a.skip = u.skip
       /\ IF Chaining(t) THEN a.suppressed = n /\ a.signal = u.signal
          ELSE a.suppressed = u.suppressed /\ a.signal = n
  <2>1. CASE Chaining(t)
    <3>1. a = [u EXCEPT !.suppressed = n] BY ONLY <1>9, <2>1
    <3> QED BY ONLY <1>7, <2>1, <3>1 DEF Tracee, Rest, SameChain
  <2>2. CASE ~Chaining(t)
    <3>1. a = [u EXCEPT !.signal = n] BY ONLY <1>9, <2>2
    <3> QED BY ONLY <1>7, <2>2, <3>1 DEF Tracee, Rest, SameChain
  <2> QED BY ONLY <2>1, <2>2
<1>11. h = [s EXCEPT !.t = a]
  BY ONLY <1>2, <1>3, <1>5, <1>6, <1>8, <1>9 DEF SignalStop
<1>12. h \in Pairs /\ h.t = a /\ h.k = k BY ONLY <1>2, <1>10, <1>11 DEF Pairs
<1>13. h.t.restart = Usual /\ Usual \in {"CONT", "SYSCALL"}
  BY ONLY <1>2, <1>5, <1>10, <1>12 DEF Usual
<1>14. Resumed(h)
  <2>1. h \in Pairs /\ h.t.restart \in {"CONT", "SYSCALL"} BY ONLY <1>12, <1>13
  <2> QED BY ONLY <1>4, <2>1, RestartIs
<1>15. /\ t' \in Tracee /\ k' \in Process /\ k'.ev = "none"
       /\ t'.restart = "none" /\ t'.signal = 0 /\ t'.last = k'.how /\ k'.how = Usual
       /\ t'.exitPending = a.exitPending /\ t'.skip = a.skip /\ t'.seccomp = a.seccomp
       /\ t'.suppressed = a.suppressed /\ Rest(a, t')
       /\ k'.sigsys = k.sigsys /\ k'.rerun = k.rerun /\ k'.regs = k.regs
       /\ k'.pc = k.pc /\ k'.asked = k.asked /\ k'.calls = k.calls /\ k'.sent = k.sent
       /\ k'.got = IF a.signal # 0 THEN a.signal ELSE k.got
  BY ONLY <1>12, <1>13, <1>14 DEF Resumed
<1>16. Rest(t, t') BY ONLY <1>2, <1>5, <1>10, <1>15 DEF Rest, SameChain
<1>17. IF Chaining(t) THEN t'.suppressed = k.sig
       ELSE t'.suppressed = t.suppressed /\ k'.got = k.sig
  BY ONLY <1>2, <1>5, <1>6, <1>10, <1>15, k.sig # 0
<1> QED BY ONLY <1>2, <1>4, <1>5, <1>10, <1>15, <1>16, <1>17

\* A signal is reported.
LEMMA SignalStep ==
    ASSUME FlowInv, HandleSignal
    PROVE  FlowInv'
<1>0. Common /\ Shape /\ k \in Process /\ t \in Tracee BY DEF FlowInv, Common, Shape
<1>1. k.ev = "signal" /\ k.sig # 0 /\ k.sig = k.sent
  BY <1>0 DEF HandleSignal, Common, Signals
<1>2. /\ conf' = conf /\ g' = g /\ k.ev = "signal" /\ k'.ev = "none"
      /\ k'.how = Usual /\ Rest(t, t') /\ t' \in Tracee /\ k' \in Process
      /\ t'.restart = "none" /\ t'.signal = 0 /\ t'.last = k'.how
      /\ t'.exitPending = t.exitPending /\ t'.skip = t.skip /\ t'.seccomp = t.seccomp
      /\ k'.sigsys = k.sigsys /\ k'.rerun = k.rerun /\ k'.regs = k.regs
      /\ k'.pc = k.pc /\ k'.asked = k.asked /\ k'.calls = k.calls /\ k'.sent = k.sent
      /\ IF Chaining(t) THEN t'.suppressed = k.sig
         ELSE t'.suppressed = t.suppressed /\ k'.got = k.sig
  BY ONLY <1>0, <1>1, HandleSignal, SignalIs
<1>3. SameChain(t, t') /\ t'.status = t.status /\ t'.restoreSeccomp = t.restoreSeccomp
      /\ t'.already = t.already /\ t'.orig = t.orig /\ t'.mod = t.mod /\ t'.rewrite = t.rewrite
  BY <1>2 DEF Rest
<1>4. User \/ Retry \/ Finished \/ Chained \/ Replaced
  BY <1>1 DEF FlowInv, Phases, Fresh, FreshAt, Entered, EnteredAt, Seen, Through, Caught,
              Trapping, Faulty, Inserting
<1>5. (Filtering <=> Filtering') /\ (Late <=> Late') /\ (Chaining(t)' <=> Chaining(t))
  BY <1>2, <1>3 DEF Late, Filtering, Chaining, SameChain
<1>6. Common'
  <2>1. Shape' BY <1>0, <1>2, <1>5 DEF Common, Shape, Usual, Filtering
  <2>2. Detection' BY <1>0, <1>1, <1>2 DEF Common, Detection, Filtering
  <2>3. SkipRight' BY <1>0, <1>2 DEF Common, SkipRight, Filtering
  <2>4. Standing' BY <1>0, <1>2, <1>3 DEF Common, Standing
  <2>5. Signals'
    <3>1. k.sent \in Nat BY <1>0 DEF Process
    <3> QED BY <1>0, <1>1, <1>2, <1>5, <3>1 DEF Common, Signals
  <2> QED BY <2>1, <2>2, <2>3, <2>4, <2>5 DEF Common
<1> SUFFICES Phases' BY <1>6 DEF FlowInv
<1>7. ~Chaining(t) /\ Steady => Steady'
  <2>1. ~Chaining(t) => Usual = IF Filtering /\ ~t.exitPending THEN "CONT" ELSE "SYSCALL"
    BY DEF Usual, Filtering
  <2>2. k.how \in {"CONT", "SYSCALL"} /\ (k.how = "CONT" => Filtering)
    BY <1>0 DEF Common, Shape, Process
  <2> QED BY <1>2, <1>5, <2>1, <2>2 DEF Steady, Late
<1>8. CASE User
  <2>1. ~Chaining(t) /\ Steady BY <1>8 DEF User, Idle, Chaining
  <2>2. User' BY <1>2, <1>3, <1>7, <1>8, <2>1 DEF User, Idle, Plain, SameChain
  <2> QED BY <2>2 DEF Phases
<1>9. CASE Retry
  <2>1. k'.how = "SYSCALL" BY <1>2, <1>9 DEF Retry, Usual, Chaining
  <2>2. Retry' BY <1>2, <1>3, <1>9, <2>1 DEF Retry, Idle, SameChain
  <2> QED BY <2>2 DEF Phases
<1>10. CASE Finished
  <2>1. ~Chaining(t) /\ Steady BY <1>10 DEF Finished, Idle, Chaining
  <2>2. Finished' BY <1>2, <1>3, <1>7, <1>10, <2>1 DEF Finished, Idle, Plain, SameChain
  <2> QED BY <2>2 DEF Phases
<1>11. ASSUME NEW n, Inserting(n)
       PROVE  Inserting(n)' /\ t.status = 0
  <2>1. t.status = 0 /\ AgainAt /\ k.rerun BY <1>1, <1>11 DEF Inserting, AgainAt, EnteredAt
  <2>2. k'.how = "SYSCALL" BY <1>2, <1>11 DEF Inserting, Usual, Chaining
  <2>3. AgainAt' BY <1>2, <2>1, <2>2 DEF AgainAt
  <2> QED BY <1>2, <1>3, <1>11, <2>1, <2>3 DEF Inserting, SameChain
<1>12. CASE Chained
  <2>1. Chained' BY <1>2, <1>3, <1>11, <1>12 DEF Chained, SameChain
  <2> QED BY <2>1 DEF Phases
<1>13. CASE Replaced
  <2>1. Replaced' BY <1>2, <1>3, <1>11, <1>13 DEF Replaced, SameChain
  <2> QED BY <2>1 DEF Phases
<1> QED BY <1>4, <1>8, <1>9, <1>10, <1>12, <1>13
-------------------------------------------------------------------------------
(* SIGSYS.                                                                 *)

\* What becomes of a trapped call: another is made instead of it, or PRoot
\* gives its result.
Judged(h, y, n) ==
    /\ y.t.status = 0 /\ y.t.already = h.t.already /\ SameChain(h.t, y.t)
    /\ y.t.skip = h.t.skip /\ y.t.suppressed = h.t.suppressed /\ y.t.signal = h.t.signal
    /\ y.t.exitPending = h.t.exitPending /\ y.t.seccomp = h.t.seccomp
    /\ y.t.rewrite = Regs(n, "guest", "none")
    /\ IF n = "blocked"
       THEN /\ y.t.restart = "SYSCALL" /\ y.t.restoreSeccomp
            /\ y.k = [h.k EXCEPT !.rerun = TRUE, !.regs = Regs("other", "guest", "none")]
       ELSE /\ y.t.restart = h.t.restart /\ y.t.restoreSeccomp = h.t.restoreSeccomp
            /\ y.k = [h.k EXCEPT !.regs = Regs("refused", "guest", "refused")]

\* handle_seccomp_event() does this.
LEMMA JudgedIs ==
    ASSUME NEW h \in Pairs, NEW n \in Trapped, h.k.regs = Regs(n, "guest", "none"),
           NEW y, y = HandleSeccompEvent(h)
    PROVE  y \in Pairs /\ Judged(h, y, n)
<1>1. PICK u : u = h.t OBVIOUS
<1>2. PICK p : p = h.k OBVIOUS
<1>3. PICK c : c = Regs(n, "guest", "none") OBVIOUS
<1>4. u \in Tracee /\ p \in Process /\ p.regs = c BY ONLY <1>1, <1>2, <1>3, h \in Pairs, h.k.regs = Regs(n, "guest", "none") DEF Pairs
<1>5. c \in Bank /\ c.num = n /\ n \in {"blocked", "refused"}
  BY ONLY <1>3, n \in Trapped DEF Trapped, Bank, Regs, Numbers, Kinds
<1>6. PICK a : a = [u EXCEPT !.status = 0, !.restore = FALSE, !.cur = c, !.rewrite = c] OBVIOUS
<1>7. /\ a \in Tracee /\ a.status = 0 /\ a.already = u.already /\ SameChain(u, a)
      /\ a.skip = u.skip /\ a.suppressed = u.suppressed /\ a.signal = u.signal
      /\ a.exitPending = u.exitPending /\ a.seccomp = u.seccomp
      /\ a.rewrite = c /\ a.cur = c /\ ~a.restore
      /\ a.restart = u.restart /\ a.restoreSeccomp = u.restoreSeccomp
  <2>1. PICK e : e = [u EXCEPT !.status = 0] OBVIOUS
  <2>2. PICK b : b = [e EXCEPT !.restore = FALSE] OBVIOUS
  <2>3. PICK d : d = [b EXCEPT !.cur = c] OBVIOUS
  <2>4. a = [d EXCEPT !.rewrite = c] BY ONLY <1>6, <2>1, <2>2, <2>3
  <2>5. /\ e \in Tracee /\ e.status = 0 /\ e.already = u.already /\ SameChain(u, e)
        /\ e.skip = u.skip /\ e.suppressed = u.suppressed /\ e.signal = u.signal
        /\ e.exitPending = u.exitPending /\ e.seccomp = u.seccomp
        /\ e.restart = u.restart /\ e.restoreSeccomp = u.restoreSeccomp
    <3>1. u \in Tracee BY ONLY <1>4
    <3> QED BY ONLY <2>1, <3>1 DEF Tracee, SameChain
  <2>6. /\ b \in Tracee /\ b.status = e.status /\ b.already = e.already /\ SameChain(e, b)
        /\ b.skip = e.skip /\ b.suppressed = e.suppressed /\ b.signal = e.signal
        /\ b.exitPending = e.exitPending /\ b.seccomp = e.seccomp /\ b.restore = FALSE
        /\ b.restart = e.restart /\ b.restoreSeccomp = e.restoreSeccomp
    BY ONLY <2>2, <2>5 DEF Tracee, SameChain
  <2>7. /\ d \in Tracee /\ d.status = b.status /\ d.already = b.already /\ SameChain(b, d)
        /\ d.skip = b.skip /\ d.suppressed = b.suppressed /\ d.signal = b.signal
        /\ d.exitPending = b.exitPending /\ d.seccomp = b.seccomp /\ d.cur = c
        /\ d.restore = b.restore /\ d.restart = b.restart
        /\ d.restoreSeccomp = b.restoreSeccomp
    <3>1. c \in Bank /\ b \in Tracee BY ONLY <1>5, <2>6
    <3> QED BY ONLY <2>3, <3>1 DEF Tracee, SameChain
  <2>8. /\ a \in Tracee /\ a.status = d.status /\ a.already = d.already /\ SameChain(d, a)
        /\ a.skip = d.skip /\ a.suppressed = d.suppressed /\ a.signal = d.signal
        /\ a.exitPending = d.exitPending /\ a.seccomp = d.seccomp /\ a.cur = d.cur
        /\ a.rewrite = c /\ a.restore = d.restore /\ a.restart = d.restart
        /\ a.restoreSeccomp = d.restoreSeccomp
    <3>1. c \in Bank /\ d \in Tracee BY ONLY <1>5, <2>7
    <3> QED BY ONLY <2>4, <3>1 DEF Tracee, SameChain
  <2> QED BY ONLY <2>5, <2>6, <2>7, <2>8 DEF SameChain
<1>8. CASE n = "blocked"
  <2>1. PICK r : r = Regs("other", "guest", "none") OBVIOUS
  <2>2. r \in Bank /\ [c EXCEPT !.num = "other"] = r
    BY ONLY <1>3, <2>1 DEF Bank, Regs, Numbers, Inserted
  <2>3. PICK v : v = [a EXCEPT !.cur = r, !.restoreSeccomp = TRUE, !.restart = "SYSCALL"] OBVIOUS
  <2>4. /\ v \in Tracee /\ v.status = 0 /\ v.already = a.already /\ SameChain(a, v)
        /\ v.skip = a.skip /\ v.suppressed = a.suppressed /\ v.signal = a.signal
        /\ v.exitPending = a.exitPending /\ v.seccomp = a.seccomp
        /\ v.rewrite = c /\ v.cur = r /\ ~v.restore
        /\ v.restart = "SYSCALL" /\ v.restoreSeccomp
    BY ONLY <1>7, <2>2, <2>3, ZenonT(60) DEF Tracee, SameChain
  <2>5. v = [a EXCEPT !.cur.num = "other", !.restoreSeccomp = TRUE, !.restart = "SYSCALL"]
    <3>1. [a EXCEPT !.cur.num = "other"] = [a EXCEPT !.cur = r] BY ONLY <1>7, <2>2
    <3>2. [a EXCEPT !.cur.num = "other", !.restoreSeccomp = TRUE, !.restart = "SYSCALL"]
            = [[a EXCEPT !.cur.num = "other"] EXCEPT !.restoreSeccomp = TRUE, !.restart = "SYSCALL"]
      OBVIOUS
    <3>3. [a EXCEPT !.cur = r, !.restoreSeccomp = TRUE, !.restart = "SYSCALL"]
            = [[a EXCEPT !.cur = r] EXCEPT !.restoreSeccomp = TRUE, !.restart = "SYSCALL"]
      OBVIOUS
    <3> QED BY ONLY <2>3, <3>1, <3>2, <3>3
  <2>6. PICK m : m = [p EXCEPT !.rerun = TRUE] OBVIOUS
  <2>7. PICK x : x = [t |-> v, k |-> m] OBVIOUS
  <2>8. y = Push(x)
    BY ONLY <1>1, <1>2, <1>4, <1>5, <1>6, <1>7, <1>8, <2>5, <2>6, <2>7, y = HandleSeccompEvent(h)
       DEF HandleSeccompEvent
  <2>9. m \in Process BY ONLY <1>4, <2>6 DEF Process
  <2>10. x \in Pairs /\ x.t = v /\ x.k = m BY ONLY <2>4, <2>7, <2>9 DEF Pairs
  <2>11. y = [x EXCEPT !.k.regs = r] BY ONLY <2>4, <2>8, <2>10 DEF Push
  <2>12. y \in Pairs /\ y.t = v /\ y.k = [m EXCEPT !.regs = r]
    BY ONLY <2>2, <2>10, <2>11 DEF Pairs, Process
  <2>13. y.k = [p EXCEPT !.rerun = TRUE, !.regs = r] BY ONLY <2>6, <2>12
  <2> QED BY ONLY <1>1, <1>2, <1>3, <1>7, <1>8, <2>1, <2>4, <2>12, <2>13 DEF Judged, SameChain
<1>9. CASE n = "refused"
  <2>1. PICK r : r = Regs("refused", "guest", "refused") OBVIOUS
  <2>2. r \in Bank /\ [c EXCEPT !.res = "refused"] = r
    BY ONLY <1>3, <1>9, <2>1 DEF Bank, Regs, Numbers, Kinds
  <2>3. PICK v : v = [a EXCEPT !.cur = r] OBVIOUS
  <2>4. /\ v \in Tracee /\ v.status = 0 /\ v.already = a.already /\ SameChain(a, v)
        /\ v.skip = a.skip /\ v.suppressed = a.suppressed /\ v.signal = a.signal
        /\ v.exitPending = a.exitPending /\ v.seccomp = a.seccomp
        /\ v.rewrite = c /\ v.cur = r /\ ~v.restore
        /\ v.restart = a.restart /\ v.restoreSeccomp = a.restoreSeccomp
    BY ONLY <1>7, <2>2, <2>3 DEF Tracee, SameChain
  <2>5. v = [a EXCEPT !.cur.res = "refused"] BY ONLY <1>7, <2>2, <2>3
  <2>6. PICK x : x = [h EXCEPT !.t = v] OBVIOUS
  <2>7. y = Push(x)
    <3>1. a.cur.num # "blocked" /\ a.cur.num = "refused" BY ONLY <1>5, <1>7, <1>9
    <3> QED BY ONLY <1>1, <1>2, <1>4, <1>6, <2>5, <2>6, <3>1, y = HandleSeccompEvent(h)
               DEF HandleSeccompEvent
  <2>8. x \in Pairs /\ x.t = v /\ x.k = p
    BY ONLY <1>2, <2>4, <2>6, h \in Pairs DEF Pairs
  <2>9. y = [x EXCEPT !.k.regs = r] BY ONLY <2>4, <2>7, <2>8 DEF Push
  <2>10. y \in Pairs /\ y.t = v /\ y.k = [p EXCEPT !.regs = r]
    BY ONLY <2>2, <2>8, <2>9 DEF Pairs, Process
  <2> QED BY ONLY <1>1, <1>2, <1>3, <1>7, <1>9, <2>1, <2>4, <2>10 DEF Judged, SameChain
<1> QED BY ONLY <1>5, <1>8, <1>9

\* A call whose SIGSYS is to be judged, or dropped because PRoot voided it.
Answerable(h) ==
    /\ h \in Pairs /\ h.t.status = 0 /\ ~h.t.already /\ AtRest(h.t) /\ ~h.t.restoreSeccomp
    /\ h.t.seccomp = t.seccomp /\ h.t.suppressed = t.suppressed /\ h.t.signal = 0
    /\ h.t.exitPending = t.exitPending /\ h.t.restart = Usual /\ h.t.skip = t.skip
    /\ h.k.pc = k.pc /\ h.k.asked = k.asked /\ h.k.calls = k.calls /\ h.k.sent = k.sent
    /\ h.k.got = k.got /\ h.k.sigsys = k.sigsys /\ h.k.rerun = k.rerun
    /\ \/ /\ k.asked \in Trapped /\ h.k.regs = Regs(k.asked, "guest", "none")
          /\ ~t.skip /\ k.sigsys # "void"
       \/ k.sigsys = "void" /\ h.k.regs.res = Expected(k.asked) /\ g.after

\* What PRoot makes of it.
Ruled(h) ==
    [(IF h.t.skip \/ (g.after /\ h.k.sigsys = "void")
      THEN [h EXCEPT !.t.skip = FALSE] ELSE HandleSeccompEvent(h))
     EXCEPT !.k.sigsys = "none"]

\* The guest gets its result, or the call is made again as another.
Settled(z) ==
    /\ z.t.status = 0 /\ ~z.t.already /\ AtRest(z.t)
    /\ z.t.seccomp = t.seccomp /\ z.t.suppressed = t.suppressed /\ z.t.signal = 0
    /\ z.t.exitPending = t.exitPending /\ ~z.t.skip
    /\ z.k.pc = k.pc /\ z.k.asked = k.asked /\ z.k.calls = k.calls /\ z.k.sent = k.sent
    /\ z.k.got = k.got /\ z.k.sigsys = "none"
    /\ \/ /\ k.asked = "blocked" /\ z.t.rewrite = Regs("blocked", "guest", "none")
          /\ z.t.restoreSeccomp /\ z.t.restart = "SYSCALL" /\ z.k.rerun
          /\ z.k.regs = Regs("other", "guest", "none")
       \/ /\ ~z.t.restoreSeccomp /\ z.t.restart = Usual /\ z.k.rerun = k.rerun
          /\ z.k.regs.res = Expected(k.asked)

\* Either way the call is settled.
LEMMA SettledIs ==
    ASSUME NEW h, Answerable(h), NEW z, z = Ruled(h)
    PROVE  z \in Pairs /\ Settled(z)
<1>0. /\ h \in Pairs /\ h.t.status = 0 /\ ~h.t.already /\ AtRest(h.t) /\ ~h.t.restoreSeccomp
      /\ h.t.seccomp = t.seccomp /\ h.t.suppressed = t.suppressed /\ h.t.signal = 0
      /\ h.t.exitPending = t.exitPending /\ h.t.restart = Usual /\ h.t.skip = t.skip
      /\ h.k.pc = k.pc /\ h.k.asked = k.asked /\ h.k.calls = k.calls /\ h.k.sent = k.sent
      /\ h.k.got = k.got /\ h.k.sigsys = k.sigsys /\ h.k.rerun = k.rerun
  BY ONLY Answerable(h) DEF Answerable
<1>1. ASSUME NEW x \in Pairs, NEW m, m = [x EXCEPT !.k.sigsys = "none"]
      PROVE  /\ m \in Pairs /\ m.t = x.t /\ m.k.pc = x.k.pc /\ m.k.asked = x.k.asked
             /\ m.k.calls = x.k.calls /\ m.k.sent = x.k.sent /\ m.k.got = x.k.got
             /\ m.k.sigsys = "none" /\ m.k.rerun = x.k.rerun /\ m.k.regs = x.k.regs
  <2>1. PICK p : p = [x.k EXCEPT !.sigsys = "none"] OBVIOUS
  <2>2. x.t \in Tracee /\ x.k \in Process BY ONLY x \in Pairs DEF Pairs
  <2>3. /\ p \in Process /\ p.pc = x.k.pc /\ p.asked = x.k.asked /\ p.calls = x.k.calls
        /\ p.sent = x.k.sent /\ p.got = x.k.got /\ p.sigsys = "none" /\ p.rerun = x.k.rerun
        /\ p.regs = x.k.regs
    BY ONLY <2>1, <2>2 DEF Process
  <2>4. m = [x EXCEPT !.k = p] BY ONLY <1>1, <2>1
  <2>5. m \in Pairs /\ m.t = x.t /\ m.k = p BY ONLY <2>2, <2>3, <2>4, x \in Pairs DEF Pairs
  <2> QED BY ONLY <2>3, <2>5
<1>2. CASE k.sigsys = "void"
  <2>1. h.k.regs.res = Expected(k.asked) /\ g.after
    BY ONLY <1>2, Answerable(h) DEF Answerable
  <2>2. PICK v : v = [h.t EXCEPT !.skip = FALSE] OBVIOUS
  <2>3. PICK x : x = [h EXCEPT !.t = v] OBVIOUS
  <2>4. h.t \in Tracee BY ONLY <1>0 DEF Pairs
  <2>5. /\ v \in Tracee /\ v.status = h.t.status /\ v.already = h.t.already /\ SameChain(h.t, v)
        /\ v.seccomp = h.t.seccomp /\ v.suppressed = h.t.suppressed /\ v.signal = h.t.signal
        /\ v.exitPending = h.t.exitPending /\ v.restart = h.t.restart /\ ~v.skip
        /\ v.restoreSeccomp = h.t.restoreSeccomp
    BY ONLY <2>2, <2>4 DEF Tracee, SameChain
  <2>6. x \in Pairs /\ x.t = v /\ x.k = h.k BY ONLY <1>0, <2>3, <2>5 DEF Pairs
  <2>7. z = [x EXCEPT !.k.sigsys = "none"]
    BY ONLY <1>0, <1>2, <2>1, <2>2, <2>3, z = Ruled(h) DEF Ruled
  <2>8. /\ z \in Pairs /\ z.t = x.t /\ z.k.pc = x.k.pc /\ z.k.asked = x.k.asked
        /\ z.k.calls = x.k.calls /\ z.k.sent = x.k.sent /\ z.k.got = x.k.got
        /\ z.k.sigsys = "none" /\ z.k.rerun = x.k.rerun /\ z.k.regs = x.k.regs
    BY ONLY <1>1, <2>6, <2>7
  <2>9. AtRest(v) BY ONLY <1>0, <2>5 DEF AtRest, SameChain
  <2> QED BY ONLY <1>0, <2>1, <2>5, <2>6, <2>8, <2>9 DEF Settled
<1>3. CASE k.sigsys # "void"
  <2>1. k.asked \in Trapped /\ h.k.regs = Regs(k.asked, "guest", "none") /\ ~t.skip
    BY ONLY <1>3, Answerable(h) DEF Answerable
  <2>2. PICK n : n = k.asked OBVIOUS
  <2>3. PICK x : x = HandleSeccompEvent(h) OBVIOUS
  <2>4. x \in Pairs /\ Judged(h, x, n) BY ONLY <1>0, <2>1, <2>2, <2>3, JudgedIs
  <2>5. z = [x EXCEPT !.k.sigsys = "none"]
    BY ONLY <1>0, <1>3, <2>1, <2>3, z = Ruled(h) DEF Ruled
  <2>6. /\ z \in Pairs /\ z.t = x.t /\ z.k.pc = x.k.pc /\ z.k.asked = x.k.asked
        /\ z.k.calls = x.k.calls /\ z.k.sent = x.k.sent /\ z.k.got = x.k.got
        /\ z.k.sigsys = "none" /\ z.k.rerun = x.k.rerun /\ z.k.regs = x.k.regs
    BY ONLY <1>1, <2>4, <2>5
  <2>7. AtRest(x.t) BY ONLY <1>0, <2>4 DEF Judged, AtRest, SameChain
  <2>8. h.k \in Process BY ONLY <1>0 DEF Pairs
  <2>9. CASE n = "blocked"
    <3>1. PICK r : r = Regs("other", "guest", "none") OBVIOUS
    <3>2. x.k = [h.k EXCEPT !.rerun = TRUE, !.regs = r] /\ x.t.restart = "SYSCALL" /\ x.t.restoreSeccomp
      BY ONLY <2>4, <2>9, <3>1 DEF Judged
    <3>3. /\ x.k.pc = h.k.pc /\ x.k.asked = h.k.asked /\ x.k.calls = h.k.calls
          /\ x.k.sent = h.k.sent /\ x.k.got = h.k.got /\ x.k.rerun /\ x.k.regs = r
      BY ONLY <2>8, <3>2 DEF Process
    <3>4. /\ x.t.status = 0 /\ x.t.already = h.t.already /\ x.t.skip = h.t.skip
          /\ x.t.suppressed = h.t.suppressed /\ x.t.signal = h.t.signal
          /\ x.t.exitPending = h.t.exitPending /\ x.t.seccomp = h.t.seccomp
          /\ x.t.rewrite = Regs("blocked", "guest", "none")
      BY ONLY <2>4, <2>9 DEF Judged
    <3> QED BY ONLY <1>0, <2>1, <2>2, <2>6, <2>7, <2>9, <3>1, <3>2, <3>3, <3>4 DEF Settled
  <2>10. CASE n # "blocked"
    <3>1. PICK r : r = Regs("refused", "guest", "refused") OBVIOUS
    <3>2. /\ x.k = [h.k EXCEPT !.regs = r] /\ x.t.restart = h.t.restart
          /\ x.t.restoreSeccomp = h.t.restoreSeccomp
      BY ONLY <2>4, <2>10, <3>1 DEF Judged
    <3>3. /\ x.k.pc = h.k.pc /\ x.k.asked = h.k.asked /\ x.k.calls = h.k.calls
          /\ x.k.sent = h.k.sent /\ x.k.got = h.k.got /\ x.k.rerun = h.k.rerun /\ x.k.regs = r
      BY ONLY <2>8, <3>2 DEF Process
    <3>4. /\ x.t.status = 0 /\ x.t.already = h.t.already /\ x.t.skip = h.t.skip
          /\ x.t.suppressed = h.t.suppressed /\ x.t.signal = h.t.signal
          /\ x.t.exitPending = h.t.exitPending /\ x.t.seccomp = h.t.seccomp
      BY ONLY <2>4 DEF Judged
    <3>5. r.res = Expected(k.asked) BY ONLY <2>1, <2>2, <2>10, <3>1 DEF Trapped, Expected, Regs
    <3> QED BY ONLY <1>0, <2>1, <2>6, <2>7, <3>2, <3>3, <3>4, <3>5 DEF Settled
  <2> QED BY ONLY <2>9, <2>10
<1> QED BY ONLY <1>2, <1>3

\* A trapped call whose exit was not reported is first brought to its end.
LEMMA AnsweredIs ==
    ASSUME Common, Served(conf), Trapping \/ Caught, HandleSigsys
    PROVE  /\ conf' = conf /\ g' = g /\ k.ev = "sigsys" /\ k.pc = "back" /\ ~k.rerun
           /\ k.asked \in conf.kinds /\ ~Chaining(t) /\ Steady
           /\ \E h : Answerable(h) /\ Restart(Ruled(h))
<1>0. Shape /\ conf \in AllHosts /\ t \in Tracee /\ k \in Process
  BY FlowAssumption DEF Common, Shape
<1>1. PICK s : s = Stopped OBVIOUS
<1>2. /\ s \in Pairs /\ s.k = k /\ Rest(t, s.t) /\ s.t.restart = Usual
      /\ s.t.last = t.last /\ s.t.seccomp = t.seccomp /\ s.t.exitPending = t.exitPending
      /\ s.t.skip = t.skip /\ s.t.suppressed = t.suppressed /\ s.t.signal = 0
  BY ONLY <1>0, <1>1, StoppedIs
<1>3. conf' = conf /\ g' = g /\ k.ev = "sigsys" /\ Restart(SigsysStop(s))
  BY ONLY <1>1, HandleSigsys DEF HandleSigsys
<1>4. k.pc = "back" /\ ~k.rerun /\ k.asked \in conf.kinds /\ ~Chaining(t) /\ Steady
  BY <1>3 DEF Trapping, Caught, Idle, Chaining, Steady
<1>5. /\ AtRest(s.t) /\ ~s.t.restoreSeccomp /\ ~s.t.already /\ s.t.status = t.status
      /\ s.t.orig = t.orig /\ s.t.mod = t.mod
  BY <1>2 DEF Rest, SameChain, AtRest, Idle, Trapping, Caught
<1>6. CASE Trapping
  <2>1. t.status = 0 BY <1>6 DEF Trapping
  <2>2. SigsysStop(s) = Ruled(s) BY ONLY <1>5, <2>1 DEF SigsysStop, Ruled
  <2>3. \/ /\ k.asked \in Trapped /\ k.regs = Regs(k.asked, "guest", "none")
           /\ ~t.skip /\ k.sigsys # "void"
        \/ k.sigsys = "void" /\ k.regs.res = Expected(k.asked) /\ g.after
    BY <1>6 DEF Trapping, Trapped
  <2>4. Answerable(s) BY ONLY <1>2, <1>5, <2>1, <2>3 DEF Answerable
  <2> QED BY ONLY <1>3, <1>4, <2>2, <2>4
<1>7. CASE Caught
  <2>1. PICK n : n = k.asked OBVIOUS
  <2>2. n \in Kinds \cup {"other"} /\ n \in conf.kinds /\ Banks(n) /\ n = k.asked
    BY <1>0, <1>7, <2>1 DEF Caught, AllHosts
  <2>3. /\ k.sigsys = Given(n).num /\ k.regs.res = "none" /\ conf.order = "new" /\ conf.skips
        /\ Given(n).num \in Trapped \cup {"void"} /\ t.status # 0
        /\ Given(n).num \in Trapped => ~t.skip
        /\ Given(n).num \notin Trapped => conf.trapsVoid
    BY <1>3, <1>7, <2>1 DEF Caught, Regs, Banks
  <2>4. /\ n \notin {"chain", "late", "swapped"} /\ Settable(n)
        /\ Given(n).num \in Trapped => /\ Given(n).num = n /\ n \in Trapped
                                       /\ ExitRes(n, "none") = "none"
        /\ Given(n).num = "void" => ExitRes(n, "none") = Expected(n)
    BY ONLY <2>2, <2>3, GivenTrapped
  <2>5. n # "ptrace" BY <2>2, <2>3, <2>4 DEF Served, Trapped
  <2>6. n \in Single /\ Due(s.t, n)
    BY ONLY <1>5, <2>2, <2>4 DEF Single, Due, Banks, StageOf
  <2>7. PICK y : y = TranslateExit(s) OBVIOUS
  <2>8. y \in Pairs /\ Ends(s, y, n)
    <3>1. /\ s.t.queue = <<>> /\ ~s.t.force
          /\ IF s.t.chain = "NULL" THEN s.t.workaround = "INACTIVE" ELSE s.t.workaround = "REPLACED"
      BY ONLY <1>5 DEF AtRest
    <3> QED BY ONLY <1>2, <2>6, <2>7, <3>1, ExitIs
  <2>9. /\ AtRest(y.t) /\ Untouched(s.t, y.t)
        /\ y.k = [s.k EXCEPT !.regs = Regs(Own(s.t).num, Own(s.t).args, ExitRes(n, s.k.regs.res))]
        /\ y.t.status = 0 /\ y.t.restoreSeccomp = FALSE
        /\ y.t.exitPending = s.t.exitPending /\ y.t.restart = s.t.restart
        /\ y.t.seccomp = s.t.seccomp
    BY ONLY <2>4, <2>5, <2>8 DEF Ends
  <2>10. PICK r : r = Regs(n, "guest", ExitRes(n, "none")) OBVIOUS
  <2>11. y.k = [k EXCEPT !.regs = r]
    <3>1. Own(s.t).num = n /\ Own(s.t).args = "guest" BY ONLY <1>5, <2>2 DEF Own, Banks
    <3> QED BY ONLY <1>2, <2>3, <2>9, <2>10, <3>1
  <2>12. /\ y.k.pc = k.pc /\ y.k.asked = k.asked /\ y.k.calls = k.calls /\ y.k.sent = k.sent
         /\ y.k.got = k.got /\ y.k.sigsys = k.sigsys /\ y.k.rerun = k.rerun /\ y.k.regs = r
    BY ONLY <1>0, <2>11 DEF Process
  <2>13. Given(n).num = "void" => g.after
    <3>1. /\ Detection /\ g \in [detected : BOOLEAN, after : BOOLEAN] /\ conf.filter \in BOOLEAN
          /\ conf.order = "new" /\ k.ev = "sigsys" /\ k.pc = "back" /\ k.calls # 0
      BY <1>0, <1>3, <1>4, <2>3 DEF Common, Shape, AllHosts, Detection
    <3>2. Given(n).num = "void" => conf.trapsVoid BY <2>3 DEF Trapped
    <3> QED BY <3>1, <3>2 DEF Detection
  <2>14. \/ /\ k.asked \in Trapped /\ y.k.regs = Regs(k.asked, "guest", "none")
            /\ ~t.skip /\ k.sigsys # "void"
         \/ k.sigsys = "void" /\ y.k.regs.res = Expected(k.asked) /\ g.after
    <3>1. CASE Given(n).num \in Trapped
      <4>1. k.sigsys # "void" BY <2>3, <3>1 DEF Trapped
      <4> QED BY ONLY <2>2, <2>3, <2>4, <2>10, <2>12, <3>1, <4>1
    <3>2. CASE Given(n).num = "void"
      <4>1. r.res = Expected(n) BY ONLY <2>4, <2>10, <3>2 DEF Regs
      <4> QED BY ONLY <2>2, <2>3, <2>12, <2>13, <3>2, <4>1
    <3> QED BY ONLY <2>3, <3>1, <3>2
  <2>15. ~y.t.already /\ y.t.suppressed = s.t.suppressed /\ y.t.signal = 0 /\ y.t.skip = s.t.skip
    BY ONLY <1>2, <1>5, <2>9 DEF Untouched
  <2>16. Answerable(y)
    BY ONLY <1>2, <2>8, <2>9, <2>12, <2>14, <2>15 DEF Answerable
  <2>17. SigsysStop(s) = Ruled(y)
    <3>1. s.t.status # 0 BY ONLY <1>5, <2>3
    <3>2. (s.t.status = 0) = FALSE BY ONLY <3>1
    <3>3. y = TranslateSyscall(s) BY ONLY <2>7, <3>2 DEF TranslateSyscall
    <3> QED BY ONLY <3>1, <3>3 DEF SigsysStop, Ruled
  <2> QED BY ONLY <1>3, <1>4, <2>16, <2>17
<1> QED BY <1>6, <1>7

\* SIGSYS is reported.
LEMMA SigsysStep ==
    ASSUME FlowInv, Served(conf), HandleSigsys
    PROVE  FlowInv'
<1>0. Common /\ Shape /\ k \in Process /\ t \in Tracee BY DEF FlowInv, Common, Shape
<1>1. Trapping \/ Caught
  BY DEF FlowInv, Phases, HandleSigsys, User, Fresh, FreshAt, Entered, EnteredAt, Seen, Through,
         Retry, Finished, Chained, Faulty, Replaced, Inserting, AgainAt
<1>2. /\ conf' = conf /\ g' = g /\ k.ev = "sigsys" /\ k.pc = "back" /\ ~k.rerun
      /\ k.asked \in conf.kinds /\ ~Chaining(t) /\ Steady
      /\ \E h : Answerable(h) /\ Restart(Ruled(h))
  BY ONLY <1>0, <1>1, Served(conf), HandleSigsys, AnsweredIs
<1>3. PICK h : Answerable(h) /\ Restart(Ruled(h)) BY ONLY <1>2
<1>4. PICK z : z = Ruled(h) OBVIOUS
<1>5. z \in Pairs /\ Settled(z) BY ONLY <1>3, <1>4, SettledIs
<1>6. z.t.restart \in {"CONT", "SYSCALL"} BY ONLY <1>5 DEF Settled, Usual
<1>7. Resumed(z) BY ONLY <1>3, <1>4, <1>5, <1>6, RestartIs
<1>8. t.suppressed = 0 /\ k.got = k.sent BY <1>0, <1>2 DEF Common, Signals
<1>9. /\ t' \in Tracee /\ k' \in Process /\ t'.restart = "none" /\ t'.signal = 0
      /\ t'.last = k'.how /\ k'.how = z.t.restart /\ k'.ev = "none"
      /\ t'.status = 0 /\ ~t'.already /\ AtRest(t') /\ t'.seccomp = t.seccomp
      /\ t'.suppressed = 0 /\ t'.exitPending = t.exitPending /\ ~t'.skip
      /\ k'.pc = "back" /\ k'.asked = k.asked /\ k'.calls = k.calls /\ k'.sent = k.sent
      /\ k'.got = k.sent /\ k'.sigsys = "none"
      /\ t'.restoreSeccomp = z.t.restoreSeccomp /\ t'.rewrite = z.t.rewrite
      /\ k'.regs = z.k.regs /\ k'.rerun = z.k.rerun
  BY ONLY <1>2, <1>5, <1>7, <1>8 DEF Resumed, Settled, Rest, SameChain, AtRest
<1>10. \/ /\ k.asked = "blocked" /\ t'.rewrite = Regs("blocked", "guest", "none")
          /\ t'.restoreSeccomp /\ k'.how = "SYSCALL" /\ k'.rerun
          /\ k'.regs = Regs("other", "guest", "none")
       \/ ~t'.restoreSeccomp /\ k'.how = Usual /\ ~k'.rerun /\ k'.regs.res = Expected(k.asked)
  BY ONLY <1>2, <1>5, <1>9 DEF Settled
<1>11. Common'
  <2>1. Shape' BY <1>0, <1>2, <1>9, <1>10 DEF Shape, Usual, Filtering
  <2>2. Detection' BY <1>0, <1>2, <1>9 DEF Common, Detection, Filtering
  <2>3. SkipRight' BY <1>9 DEF SkipRight
  <2>4. Standing' BY <1>9, <1>10 DEF Standing, Regs
  <2>5. Signals' BY <1>0, <1>9 DEF Common, Signals, Process
  <2> QED BY <2>1, <2>2, <2>3, <2>4, <2>5 DEF Common
<1>12. Idle' BY <1>9 DEF Idle, AtRest
<1>13. CASE /\ k.asked = "blocked" /\ t'.restoreSeccomp /\ k'.how = "SYSCALL" /\ k'.rerun
            /\ k'.regs = Regs("other", "guest", "none")
  <2>1. Retry' BY <1>2, <1>9, <1>12, <1>13 DEF Retry
  <2> QED BY <1>11, <2>1 DEF FlowInv, Phases
<1>14. CASE ~t'.restoreSeccomp /\ k'.how = Usual /\ ~k'.rerun /\ k'.regs.res = Expected(k.asked)
  <2>1. Steady'
    <3>1. Usual = IF Filtering /\ ~t.exitPending THEN "CONT" ELSE "SYSCALL"
      BY <1>2 DEF Usual, Filtering
    <3>2. k.how \in {"CONT", "SYSCALL"} /\ (k.how = "CONT" => Filtering)
      BY <1>0 DEF Shape, Process
    <3> QED BY <1>2, <1>9, <1>14, <3>1, <3>2 DEF Steady, Late, Filtering
  <2>2. Finished' BY <1>2, <1>9, <1>12, <1>14, <2>1 DEF Finished, Plain
  <2> QED BY <1>11, <2>2 DEF FlowInv, Phases
<1> QED BY ONLY <1>10, <1>13, <1>14
-------------------------------------------------------------------------------
(* The report of the filter.                                               *)

\* The parts of SeccompStop: the tracee with the report noted, whether the exit
\* is needed, the entry translated now, the exit kept if it was asked for.
Noted(h0) == [h0 EXCEPT !.t = [h0.t EXCEPT !.skip = FALSE,
                                           !.seccomp = IF ~g.detected THEN "ENABLED" ELSE @]]
Needed(h0) == Filter(h0.k.regs.num) = "traceExit" \/ ExitNecessary(h0.t)
Entering(h, how) == TranslateSyscall([h EXCEPT !.t.restart = how])
Lasting(x) == IF x.t.exitPending \/ x.t.seccomp = "DISABLING"
              THEN [x EXCEPT !.t.restart = "SYSCALL"] ELSE x
Seeing(x, after) == [x EXCEPT !.t.already = IF ~after /\ x.t.restart = "SYSCALL" THEN TRUE ELSE @]

\* What a report leaves alone, and what it sets.
Report(h) ==
    /\ h \in Pairs /\ h.k = k /\ Rest(t, h.t) /\ h.t.last = t.last
    /\ h.t.exitPending = t.exitPending /\ h.t.suppressed = t.suppressed /\ h.t.signal = 0
    /\ ~h.t.skip /\ h.t.seccomp = (IF g.detected THEN t.seccomp ELSE "ENABLED")

\* The tracee with the report noted.
LEMMA NotedIs ==
    ASSUME Shape, NEW h, h = Noted(Stopped)
    PROVE  Report(h) /\ h.t.restart = Usual
<1>1. PICK s : s = Stopped OBVIOUS
<1>2. /\ s \in Pairs /\ s.k = k /\ Rest(t, s.t) /\ s.t.restart = Usual
      /\ s.t.last = t.last /\ s.t.seccomp = t.seccomp /\ s.t.exitPending = t.exitPending
      /\ s.t.suppressed = t.suppressed /\ s.t.signal = 0
  BY ONLY <1>1, Shape, StoppedIs
<1>3. PICK u : u = s.t OBVIOUS
<1>4. PICK a : a = [u EXCEPT !.skip = FALSE] OBVIOUS
<1>5. PICK w : w = IF ~g.detected THEN "ENABLED" ELSE u.seccomp OBVIOUS
<1>6. PICK v : v = [a EXCEPT !.seccomp = w] OBVIOUS
<1>7. u \in Tracee BY ONLY <1>2, <1>3 DEF Pairs
<1>8. w \in {"DISABLED", "DISABLING", "ENABLED"} BY ONLY <1>5, <1>7 DEF Tracee
<1>9. /\ a \in Tracee /\ Rest(u, a) /\ a.restart = u.restart /\ a.last = u.last
      /\ a.seccomp = u.seccomp /\ a.exitPending = u.exitPending /\ ~a.skip
      /\ a.suppressed = u.suppressed /\ a.signal = u.signal
  BY ONLY <1>4, <1>7 DEF Tracee, Rest, SameChain
<1>10. /\ v \in Tracee /\ Rest(a, v) /\ v.restart = a.restart /\ v.last = a.last
       /\ v.seccomp = w /\ v.exitPending = a.exitPending /\ v.skip = a.skip
       /\ v.suppressed = a.suppressed /\ v.signal = a.signal
  <2>1. a \in Tracee BY ONLY <1>9
  <2> QED BY ONLY <1>6, <1>8, <2>1 DEF Tracee, Rest, SameChain
<1>11. h = [s EXCEPT !.t = v]
  <2>1. a.seccomp = u.seccomp BY ONLY <1>9
  <2>2. [u EXCEPT !.skip = FALSE, !.seccomp = IF ~g.detected THEN "ENABLED" ELSE @] = v
    BY ONLY <1>4, <1>5, <1>6, <2>1
  <2> QED BY ONLY <1>1, <1>3, <2>2, h = Noted(Stopped) DEF Noted
<1>12. h \in Pairs /\ h.t = v /\ h.k = s.k BY ONLY <1>2, <1>10, <1>11 DEF Pairs
<1>13. Rest(t, v) BY ONLY <1>2, <1>3, <1>9, <1>10 DEF Rest, SameChain
<1> QED BY ONLY <1>2, <1>3, <1>5, <1>9, <1>10, <1>12, <1>13 DEF Report

\* The report in these terms.
LEMMA SeccompParts ==
    ASSUME NEW s \in Pairs, NEW after
    PROVE  SeccompStop(s, after) =
             IF after /\ Noted(s).t.status # 0 THEN [Noted(s) EXCEPT !.t.restart = Noted(s).t.last]
             ELSE IF Noted(s).t.seccomp # "ENABLED" THEN Noted(s)
             ELSE IF Needed(s)
             THEN [(IF after THEN Entering(Noted(s), "SYSCALL") ELSE Noted(s))
                   EXCEPT !.t.restart = "SYSCALL"]
             ELSE Seeing(Lasting(Entering(Noted(s), "CONT")), after)
<1>1. PICK u : u = [s.t EXCEPT !.skip = FALSE, !.seccomp = IF ~g.detected THEN "ENABLED" ELSE @]
  OBVIOUS
<1>2. Noted(s) = [s EXCEPT !.t = u] BY ONLY <1>1 DEF Noted
<1>3. Noted(s).t = u BY ONLY <1>2, s \in Pairs DEF Pairs
<1>4. PICK h : h = Noted(s) OBVIOUS
<1>5. h.t = u /\ h = [s EXCEPT !.t = u] BY ONLY <1>2, <1>3, <1>4
<1>6. SeccompStop(s, after) =
        IF after /\ u.status # 0 THEN [h EXCEPT !.t.restart = u.last]
        ELSE IF u.seccomp # "ENABLED" THEN h
        ELSE IF Needed(s)
        THEN [(IF after THEN Entering(h, "SYSCALL") ELSE h) EXCEPT !.t.restart = "SYSCALL"]
        ELSE Seeing(Lasting(Entering(h, "CONT")), after)
  BY ONLY <1>1, <1>5 DEF SeccompStop, Needed, Entering, Lasting, Seeing
<1> QED BY ONLY <1>4, <1>5, <1>6

\* At a report PRoot knows the order of the stops; the first is that of execve(2).
LEMMA SeccompHandled ==
    ASSUME Common, Fresh \/ Entered, HandleSeccomp
    PROVE  /\ conf' = conf /\ k.ev = "seccomp" /\ conf.filter
           /\ \E after \in BOOLEAN : /\ after <=> conf.order = "new"
                                     /\ g' = [detected |-> TRUE, after |-> after]
                                     /\ Restart(SeccompStop(Stopped, after))
           /\ g.detected \/ k.asked = "exit"
<1>0. /\ Shape /\ conf \in AllHosts /\ g \in [detected : BOOLEAN, after : BOOLEAN]
      /\ k \in Process /\ Detection
  BY FlowAssumption DEF Common, Shape
<1>1. k.ev = "seccomp" /\ conf' = conf BY DEF HandleSeccomp
<1>2. PICK after : after = IF g.detected THEN g.after ELSE t.status # 0 OBVIOUS
<1>3. g' = [detected |-> TRUE, after |-> after] /\ Restart(SeccompStop(Stopped, after))
  BY ONLY <1>2, HandleSeccomp DEF HandleSeccomp
<1>4. after \in BOOLEAN BY ONLY <1>0, <1>2
<1>5. k.pc # "user" BY <1>1 DEF Fresh, FreshAt, Entered, EnteredAt
<1>6. conf.filter /\ (g.detected \/ k.asked = "exit")
  BY ONLY <1>0, <1>1, <1>5 DEF Detection
<1>7. CASE g.detected
  <2>1. after <=> conf.order = "new" BY ONLY <1>0, <1>2, <1>7 DEF Detection
  <2> QED BY ONLY <1>1, <1>3, <1>4, <1>6, <2>1
<1>8. CASE ~g.detected
  <2>1. after = (t.status # 0) BY ONLY <1>2, <1>8
  <2>2. conf.order \in {"old", "new"} BY ONLY <1>0 DEF AllHosts
  <2>3. CASE Fresh
    <3>1. k.how = "SYSCALL" /\ t.status = 0 BY ONLY <1>0, <1>8, <2>3 DEF Fresh, Detection, Shape
    <3>2. conf.order # "new" BY ONLY <1>1, <2>3, <3>1 DEF Fresh, FreshAt
    <3> QED BY ONLY <1>1, <1>3, <1>4, <1>6, <2>1, <3>1, <3>2
  <2>4. CASE Entered
    <3>1. t.status # 0 /\ conf.order = "new" BY ONLY <1>1, <2>4 DEF Entered, EnteredAt, Banks
    <3> QED BY ONLY <1>1, <1>3, <1>4, <1>6, <2>1, <3>1
  <2> QED BY ONLY <2>3, <2>4, Fresh \/ Entered
<1> QED BY ONLY <1>0, <1>7, <1>8

\* A report, that of the registers r, leaves the tracee as z.
Reported(z, r) ==
    /\ z \in Pairs /\ z.t.restart \in {"CONT", "SYSCALL"} /\ z.k = [k EXCEPT !.regs = r]
    /\ SameChain(t, z.t) /\ z.t.restoreSeccomp = t.restoreSeccomp
    /\ z.t.rewrite = t.rewrite /\ z.t.suppressed = t.suppressed /\ z.t.signal = 0
    /\ ~z.t.skip /\ z.t.seccomp = (IF g.detected THEN t.seccomp ELSE "ENABLED")
    /\ z.t.seccomp # "ENABLED" => z.t.restart = "SYSCALL"

\* What holds in every phase goes on to hold at a report.
LEMMA ReportedStep ==
    ASSUME Common, k.ev = "seccomp", conf' = conf, conf.filter, NEW after \in BOOLEAN,
           after <=> conf.order = "new", g' = [detected |-> TRUE, after |-> after],
           NEW z, NEW r, Reported(z, r), Restart(z)
    PROVE  /\ Common' /\ Rest(z.t, t') /\ t'.exitPending = z.t.exitPending
           /\ t'.seccomp = z.t.seccomp /\ ~t'.skip /\ t' \in Tracee
           /\ k'.how = z.t.restart /\ k'.ev = "none" /\ k'.regs = r /\ k'.pc = k.pc
           /\ k'.asked = k.asked /\ k'.sigsys = k.sigsys /\ k'.rerun = k.rerun
<1>0. /\ Shape /\ Detection /\ Standing /\ Signals /\ k \in Process /\ t \in Tracee
  BY ONLY Common DEF Common, Shape
<1>1. Resumed(z) BY ONLY Reported(z, r), Restart(z), RestartIs DEF Reported
<1>2. /\ z \in Pairs /\ z.t.restart \in {"CONT", "SYSCALL"} /\ z.k = [k EXCEPT !.regs = r]
      /\ SameChain(t, z.t) /\ z.t.restoreSeccomp = t.restoreSeccomp
      /\ z.t.rewrite = t.rewrite /\ z.t.suppressed = t.suppressed /\ z.t.signal = 0
      /\ ~z.t.skip /\ z.t.seccomp = (IF g.detected THEN t.seccomp ELSE "ENABLED")
      /\ z.t.seccomp # "ENABLED" => z.t.restart = "SYSCALL"
  BY ONLY Reported(z, r) DEF Reported
<1>3. /\ z.k.pc = k.pc /\ z.k.sigsys = k.sigsys /\ z.k.rerun = k.rerun /\ z.k.regs = r
      /\ z.k.asked = k.asked /\ z.k.calls = k.calls /\ z.k.sent = k.sent /\ z.k.got = k.got
  <2>1. z.k = [k EXCEPT !.regs = r] BY ONLY <1>2
  <2> QED BY ONLY <1>0, <2>1 DEF Process
<1>4. /\ t' \in Tracee /\ Rest(z.t, t') /\ t'.last = k'.how /\ t'.restart = "none"
      /\ t'.signal = 0 /\ t'.seccomp = z.t.seccomp /\ t'.exitPending = z.t.exitPending
      /\ ~t'.skip /\ t'.suppressed = t.suppressed
      /\ k' \in Process /\ k'.ev = "none" /\ k'.how = z.t.restart
      /\ k'.got = k.got /\ k'.pc = k.pc /\ k'.sigsys = k.sigsys /\ k'.rerun = k.rerun
      /\ k'.regs = r /\ k'.asked = k.asked /\ k'.calls = k.calls /\ k'.sent = k.sent
  BY ONLY <1>1, <1>2, <1>3 DEF Resumed
<1>5. /\ t'.restoreSeccomp = t.restoreSeccomp /\ t'.rewrite = t.rewrite
      /\ (Chaining(t)' <=> Chaining(t))
  BY ONLY <1>2, <1>4 DEF Rest, SameChain, Chaining
<1>6. g' \in [detected : BOOLEAN, after : BOOLEAN] /\ g'.detected /\ g'.after = after
  BY ONLY g' = [detected |-> TRUE, after |-> after], after \in BOOLEAN
<1>7. Shape'
  <2>1. conf' \in Hosts BY ONLY <1>0, conf' = conf DEF Shape
  <2>2. t'.seccomp # "DISABLING" BY ONLY <1>0, <1>2, <1>4 DEF Shape
  <2>3. ~(t'.seccomp = "ENABLED") => k'.how = "SYSCALL" BY ONLY <1>2, <1>4
  <2> QED BY ONLY <1>4, <1>6, <2>1, <2>2, <2>3 DEF Shape, Filtering
<1>8. Detection'
  <2>1. k'.calls = 0 => k'.pc = "user" BY ONLY <1>0, <1>4 DEF Detection
  <2>2. conf'.filter /\ conf'.order = conf.order BY ONLY conf' = conf, conf.filter
  <2>3. g'.after <=> conf.order = "new" BY ONLY <1>6, after <=> conf.order = "new"
  <2>4. k'.ev # "seccomp" BY ONLY <1>4
  <2> QED BY ONLY <1>6, <2>1, <2>2, <2>3, <2>4 DEF Detection
<1>9. SkipRight' BY ONLY <1>4 DEF SkipRight
<1>10. Standing' BY ONLY <1>0, <1>4, <1>5 DEF Standing
<1>11. Signals'
  <2>1. k.ev # "signal" /\ k'.ev # "signal" BY ONLY <1>4, k.ev = "seccomp"
  <2> QED BY ONLY <1>0, <1>4, <1>5, <2>1 DEF Signals
<1> QED BY ONLY <1>4, <1>7, <1>8, <1>9, <1>10, <1>11 DEF Common

\* Only the way of going on is set.
LEMMA GoingOn ==
    ASSUME NEW h \in Pairs, NEW how \in {"CONT", "SYSCALL"}, NEW z, z = [h EXCEPT !.t.restart = how]
    PROVE  /\ z \in Pairs /\ z.k = h.k /\ Rest(h.t, z.t) /\ z.t.restart = how
           /\ z.t.last = h.t.last /\ z.t.exitPending = h.t.exitPending
           /\ z.t.seccomp = h.t.seccomp /\ z.t.skip = h.t.skip
           /\ z.t.suppressed = h.t.suppressed /\ z.t.signal = h.t.signal
<1>1. PICK u : u = h.t OBVIOUS
<1>2. PICK v : v = [u EXCEPT !.restart = how] OBVIOUS
<1>3. u \in Tracee BY ONLY <1>1, h \in Pairs DEF Pairs
<1>4. /\ v \in Tracee /\ Rest(u, v) /\ v.restart = how
      /\ v.last = u.last /\ v.exitPending = u.exitPending /\ v.seccomp = u.seccomp
      /\ v.skip = u.skip /\ v.suppressed = u.suppressed /\ v.signal = u.signal
  <2>1. how \in {"none", "CONT", "SYSCALL"} BY ONLY how \in {"CONT", "SYSCALL"}
  <2> QED BY ONLY <1>2, <1>3, <2>1 DEF Tracee, Rest, SameChain
<1>5. z = [h EXCEPT !.t = v] BY ONLY <1>1, <1>2, z = [h EXCEPT !.t.restart = how]
<1>6. z \in Pairs /\ z.t = v /\ z.k = h.k BY ONLY <1>4, <1>5, h \in Pairs DEF Pairs
<1> QED BY ONLY <1>1, <1>4, <1>6

\* The filter reports a call whose entry was seen.
LEMMA EnteredSeccomp ==
    ASSUME Common, Entered, HandleSeccomp
    PROVE  FlowInv'
<1>0. /\ Shape /\ t.status # 0 /\ t \in Tracee /\ k \in Process /\ t.last = k.how
      /\ ~t.already
  BY DEF Common, Shape, Entered, Banks
<1>1. /\ conf' = conf /\ k.ev = "seccomp" /\ conf.filter
      /\ \E after \in BOOLEAN : /\ after <=> conf.order = "new"
                                /\ g' = [detected |-> TRUE, after |-> after]
                                /\ Restart(SeccompStop(Stopped, after))
      /\ g.detected \/ k.asked = "exit"
  BY ONLY Common, Entered, HandleSeccomp, SeccompHandled
<1>2. PICK after \in BOOLEAN : /\ after <=> conf.order = "new"
                               /\ g' = [detected |-> TRUE, after |-> after]
                               /\ Restart(SeccompStop(Stopped, after))
  BY ONLY <1>1
<1>3. /\ k.pc = "body" /\ conf.order = "new" /\ k.how = "SYSCALL" /\ after
      /\ k.sigsys = "none" /\ ~k.rerun
  BY <1>1, <1>2 DEF Entered, EnteredAt, Plain
<1>4. PICK s : s = Stopped OBVIOUS
<1>5. s \in Pairs BY ONLY <1>0, <1>4, StoppedIs
<1>6. PICK h : h = Noted(s) OBVIOUS
<1>7. Report(h) BY ONLY <1>0, <1>4, <1>6, NotedIs
<1>8. /\ h \in Pairs /\ h.k = k /\ Rest(t, h.t) /\ h.t.last = k.how
      /\ h.t.exitPending = t.exitPending /\ h.t.suppressed = t.suppressed /\ h.t.signal = 0
      /\ ~h.t.skip /\ h.t.seccomp = (IF g.detected THEN t.seccomp ELSE "ENABLED")
  BY ONLY <1>0, <1>7 DEF Report
<1>9. PICK z : z = [h EXCEPT !.t.restart = "SYSCALL"] OBVIOUS
<1>10. SeccompStop(s, after) = z
  <2>1. h.t.status # 0 /\ h.t.last = "SYSCALL" BY ONLY <1>0, <1>3, <1>8 DEF Rest
  <2> QED BY ONLY <1>3, <1>5, <1>6, <1>9, <2>1, SeccompParts
<1>11. /\ z \in Pairs /\ z.k = k /\ Rest(h.t, z.t) /\ z.t.restart = "SYSCALL"
       /\ z.t.exitPending = h.t.exitPending /\ z.t.seccomp = h.t.seccomp
       /\ z.t.skip = h.t.skip /\ z.t.suppressed = h.t.suppressed /\ z.t.signal = h.t.signal
  <2>1. "SYSCALL" \in {"CONT", "SYSCALL"} OBVIOUS
  <2> QED BY ONLY <1>8, <1>9, <2>1, GoingOn
<1>12. Rest(t, z.t) BY ONLY <1>8, <1>11 DEF Rest, SameChain
<1>13. PICK r : r = k.regs OBVIOUS
<1>14. Reported(z, r)
  <2>1. z.k = [k EXCEPT !.regs = r]
    <3>1. [k EXCEPT !.regs = k.regs] = k BY ONLY <1>0 DEF Process
    <3> QED BY ONLY <1>11, <1>13, <3>1
  <2> QED BY ONLY <1>8, <1>11, <1>12, <2>1 DEF Reported, Rest
<1>15. /\ Common' /\ Rest(z.t, t') /\ t'.exitPending = z.t.exitPending
       /\ t'.seccomp = z.t.seccomp /\ ~t'.skip /\ t' \in Tracee
       /\ k'.how = z.t.restart /\ k'.ev = "none" /\ k'.regs = r /\ k'.pc = k.pc
       /\ k'.asked = k.asked /\ k'.sigsys = k.sigsys /\ k'.rerun = k.rerun
  BY ONLY <1>1, <1>2, <1>4, <1>10, <1>14, Common, ReportedStep
<1>16. Rest(t, t') BY ONLY <1>12, <1>15 DEF Rest, SameChain
<1>17. /\ k'.how = "SYSCALL" /\ k'.ev = "none" /\ k'.regs = k.regs /\ k'.pc = "body"
       /\ k'.asked = k.asked /\ k'.sigsys = "none" /\ ~k'.rerun
       /\ t'.exitPending = t.exitPending
       /\ t'.seccomp = (IF g.detected THEN t.seccomp ELSE "ENABLED")
  BY ONLY <1>3, <1>8, <1>11, <1>13, <1>15
<1>18. /\ Current' = Current /\ Given(Current)' = Given(Current)
       /\ Wanted(Current)' = Wanted(Current)
  BY <1>1, <1>16, <1>17 DEF Rest, Current, Given, Settable, Wanted
<1>19. k'.regs = Ran(Given(Current))' /\ k.regs = Given(Current)
  BY <1>3, <1>17, <1>18 DEF Entered, Ran
<1>20. EnteredAt' /\ Banks(Current)' /\ Idle'
  BY <1>3, <1>16, <1>17, <1>18 DEF Entered, EnteredAt, Banks, Idle, Plain, Rest, SameChain
<1>21. Current = "clone" /\ Filtering' => t'.exitPending
  <2>1. CASE g.detected BY <1>17, <2>1 DEF Entered, Filtering
  <2>2. CASE ~g.detected
    <3>1. k.asked = "exit" BY ONLY <1>1, <2>2
    <3>2. Current # "clone" BY ONLY <3>1 DEF Current
    <3> QED BY ONLY <3>2
  <2> QED BY ONLY <2>1, <2>2
<1>22. Entered'
  <2>1. /\ k.asked \in conf.kinds /\ (Current = "swapped" => conf.canSet)
        /\ Current \notin Trapped
    BY <1>3 DEF Entered
  <2>2. ~t'.already BY <1>0, <1>16 DEF Rest
  <2> QED BY <1>1, <1>15, <1>17, <1>18, <1>19, <1>20, <1>21, <2>1, <2>2 DEF Entered
<1> QED BY ONLY <1>15, <1>22 DEF FlowInv, Phases

\* The call n of the guest is translated when the filter reports it.
Enters(y, n) ==
    /\ y \in Pairs /\ y.k = [k EXCEPT !.regs = Wanted(n)] /\ AtRest(y.t)
    /\ y.t.orig = Regs(n, "guest", "none") /\ y.t.mod = Handled(n) /\ ~y.t.restoreSeccomp
    /\ y.t.rewrite = t.rewrite /\ y.t.suppressed = t.suppressed /\ y.t.signal = 0
    /\ ~y.t.skip /\ y.t.seccomp = "ENABLED"
    /\ y.t.exitPending = IF n = "late" THEN TRUE ELSE t.exitPending

\* What becomes of it on the hosts that serve every call.
LEMMA EnteringIs ==
    ASSUME Common, Served(conf), conf.filter, Fresh, ~t.restoreSeccomp, NEW n, n = k.asked,
           NEW h, Report(h), h.t.seccomp = "ENABLED", NEW how \in {"CONT", "SYSCALL"},
           NEW y, y = Entering(h, how)
    PROVE  /\ Enters(y, n) /\ ~y.t.already /\ Given(n) = Wanted(n)
           /\ y.t.restart = IF n = "late" THEN "SYSCALL" ELSE how
           /\ y.t.status = IF y.t.restart = "CONT" THEN 0 ELSE StageOf(n)
<1>0. /\ Shape /\ n \in Kinds /\ t \in Tracee /\ k \in Process
  BY FlowAssumption DEF Common, Shape, Fresh, AllHosts
<1>1. /\ h \in Pairs /\ h.k = k /\ Rest(t, h.t)
      /\ h.t.exitPending = t.exitPending /\ h.t.suppressed = t.suppressed /\ h.t.signal = 0
      /\ ~h.t.skip
  BY ONLY Report(h) DEF Report
<1>2. /\ t.status = 0 /\ ~t.already /\ AtRest(t) /\ k.regs = Regs(n, "guest", "none")
  BY DEF Fresh, Idle, AtRest, Current
<1>3. PICK x : x = [h EXCEPT !.t.restart = how] OBVIOUS
<1>4. /\ x \in Pairs /\ x.k = h.k /\ Rest(h.t, x.t) /\ x.t.restart = how
      /\ x.t.exitPending = h.t.exitPending /\ x.t.seccomp = h.t.seccomp /\ x.t.skip = h.t.skip
      /\ x.t.suppressed = h.t.suppressed /\ x.t.signal = h.t.signal
  BY ONLY <1>1, <1>3, how \in {"CONT", "SYSCALL"}, GoingOn
<1>5. /\ x.t.status = 0 /\ ~x.t.already /\ AtRest(x.t) /\ x.t.rewrite = t.rewrite
      /\ x.t.restoreSeccomp = t.restoreSeccomp /\ x.k.regs = Regs(n, "guest", "none")
  BY ONLY <1>1, <1>2, <1>4 DEF Rest, SameChain, AtRest
<1>6. Settable(n) BY DEF Served, Settable
<1>7. y = TranslateEnter(x)
  BY ONLY <1>3, <1>5, y = Entering(h, how) DEF Entering, TranslateSyscall
<1>8. /\ y \in Pairs /\ AtEntry(x.t, y.t, n) /\ SameChain(x.t, y.t)
      /\ y.t.restart = IF n = "late" THEN "SYSCALL" ELSE x.t.restart
      /\ y.t.status = IF y.t.restart = "CONT" THEN 0 ELSE StageOf(n)
      /\ y.k = [x.k EXCEPT !.regs = Given(n)]
  <2>1. n \in Kinds \cup {"other"} /\ x.t.chain = "NULL" BY ONLY <1>0, <1>5 DEF AtRest
  <2> QED BY ONLY <1>4, <1>5, <1>6, <1>7, <2>1, EntryIs
<1>9. Given(n) = Wanted(n) BY ONLY <1>6 DEF Given
<1>10. AtRest(y.t) BY ONLY <1>5, <1>8 DEF AtRest, SameChain
<1>11. /\ y.t.orig = Regs(n, "guest", "none") /\ y.t.mod = Handled(n)
       /\ y.t.restoreSeccomp = x.t.restoreSeccomp /\ y.t.rewrite = x.t.rewrite
       /\ y.t.suppressed = x.t.suppressed /\ y.t.signal = x.t.signal /\ y.t.skip = x.t.skip
       /\ y.t.seccomp = x.t.seccomp /\ y.t.already = x.t.already
       /\ y.t.exitPending = IF n = "late" THEN TRUE ELSE x.t.exitPending
  BY ONLY <1>8 DEF AtEntry, Untouched
<1>12. y.k = [k EXCEPT !.regs = Wanted(n)] BY ONLY <1>1, <1>4, <1>8, <1>9
<1>13. Enters(y, n)
  BY ONLY <1>1, <1>4, <1>5, <1>8, <1>10, <1>11, <1>12, ~t.restoreSeccomp,
          h.t.seccomp = "ENABLED" DEF Enters
<1> QED BY ONLY <1>4, <1>5, <1>8, <1>9, <1>11, <1>13

\* Its exit is waited for, or not.
LEMMA EntersOn ==
    ASSUME NEW y, NEW n, Enters(y, n), NEW z, z = [y EXCEPT !.t.restart = "SYSCALL"]
    PROVE  /\ Enters(z, n) /\ z.t.restart = "SYSCALL" /\ z.t.status = y.t.status
           /\ z.t.already = y.t.already
<1>1. y \in Pairs /\ "SYSCALL" \in {"CONT", "SYSCALL"} BY ONLY Enters(y, n) DEF Enters
<1>2. /\ z \in Pairs /\ z.k = y.k /\ Rest(y.t, z.t) /\ z.t.restart = "SYSCALL"
      /\ z.t.exitPending = y.t.exitPending /\ z.t.seccomp = y.t.seccomp /\ z.t.skip = y.t.skip
      /\ z.t.suppressed = y.t.suppressed /\ z.t.signal = y.t.signal
  BY ONLY <1>1, z = [y EXCEPT !.t.restart = "SYSCALL"], GoingOn
<1>3. AtRest(y.t) => AtRest(z.t) BY ONLY <1>2 DEF Rest, SameChain, AtRest
<1>4. /\ z.t.status = y.t.status /\ z.t.already = y.t.already /\ z.t.orig = y.t.orig
      /\ z.t.mod = y.t.mod /\ z.t.rewrite = y.t.rewrite
      /\ z.t.restoreSeccomp = y.t.restoreSeccomp
  BY ONLY <1>2 DEF Rest
<1> QED BY ONLY <1>2, <1>3, <1>4, Enters(y, n) DEF Enters

\* The entry the filter reported is marked where it comes after the report.
LEMMA SeeingIs ==
    ASSUME NEW x, NEW n, Enters(x, n), ~x.t.already, NEW after \in BOOLEAN, NEW z,
           z = Seeing(x, after)
    PROVE  /\ Enters(z, n) /\ z.t.restart = x.t.restart /\ z.t.status = x.t.status
           /\ z.t.already = (~after /\ x.t.restart = "SYSCALL")
<1>1. PICK u : u = x.t OBVIOUS
<1>2. PICK b : b = (~after /\ u.restart = "SYSCALL") OBVIOUS
<1>3. x \in Pairs /\ u \in Tracee /\ b \in BOOLEAN /\ ~u.already
  BY ONLY <1>1, <1>2, Enters(x, n), ~x.t.already DEF Enters, Pairs
<1>4. PICK v : v = [u EXCEPT !.already = b] OBVIOUS
<1>5. z = [x EXCEPT !.t = v]
  <2>1. (IF ~after /\ x.t.restart = "SYSCALL" THEN TRUE ELSE x.t.already) = b
    <3>1. x.t.already = FALSE BY ONLY <1>1, <1>3 DEF Tracee
    <3>2. CASE b
      <4>1. ~after /\ x.t.restart = "SYSCALL" BY ONLY <1>1, <1>2, <3>2
      <4>2. b = TRUE BY ONLY <1>3, <3>2
      <4> QED BY ONLY <4>1, <4>2
    <3>3. CASE ~b
      <4>1. (~after /\ x.t.restart = "SYSCALL") = FALSE BY ONLY <1>1, <1>2, <3>3
      <4>2. b = FALSE BY ONLY <1>3, <3>3
      <4> QED BY ONLY <3>1, <4>1, <4>2
    <3> QED BY ONLY <3>2, <3>3
  <2>2. z = [x EXCEPT !.t.already = IF ~after /\ x.t.restart = "SYSCALL" THEN TRUE ELSE x.t.already]
    BY ONLY z = Seeing(x, after) DEF Seeing
  <2>3. z = [x EXCEPT !.t.already = b] BY ONLY <2>1, <2>2
  <2> QED BY ONLY <1>1, <1>4, <2>3
<1>6. /\ v \in Tracee /\ v.already = b /\ v.status = u.status /\ v.restart = u.restart
      /\ SameChain(u, v) /\ v.orig = u.orig /\ v.mod = u.mod
      /\ v.restoreSeccomp = u.restoreSeccomp /\ v.rewrite = u.rewrite
      /\ v.suppressed = u.suppressed /\ v.signal = u.signal /\ v.skip = u.skip
      /\ v.seccomp = u.seccomp /\ v.exitPending = u.exitPending
  BY ONLY <1>3, <1>4 DEF Tracee, SameChain
<1>7. z \in Pairs /\ z.t = v /\ z.k = x.k BY ONLY <1>3, <1>5, <1>6 DEF Pairs
<1>8. AtRest(u) => AtRest(v) BY ONLY <1>6 DEF SameChain, AtRest
<1> QED BY ONLY <1>1, <1>2, <1>6, <1>7, <1>8, Enters(x, n) DEF Enters

\* The call goes on, entered or let through; its entry may still be to come.
LEMMA EntersStep ==
    ASSUME Common, Served(conf), Fresh, ~t.restoreSeccomp, k.ev = "seccomp", conf' = conf,
           conf.filter, NEW after \in BOOLEAN, after <=> conf.order = "new",
           g' = [detected |-> TRUE, after |-> after],
           g.detected => t.seccomp = "ENABLED",
           NEW n, n = k.asked, Given(n) = Wanted(n), Filter(n) # "allow",
           NEW z, Enters(z, n), Restart(z), z.t.restart \in {"CONT", "SYSCALL"},
           z.t.status = IF z.t.restart = "CONT" THEN 0 ELSE StageOf(n),
           z.t.already <=> ~after /\ z.t.restart = "SYSCALL",
           z.t.restart = "CONT" => /\ n \in {"enter", "fails", "clone", "swapped"}
                                   /\ ~t.exitPending,
           z.t.restart = "SYSCALL" => n \notin {"clone", "swapped", "fails"},
           ~after /\ z.t.restart = "SYSCALL" => n = "late"
    PROVE  FlowInv'
<1>0. Shape /\ t \in Tracee /\ k \in Process /\ conf \in AllHosts
  BY FlowAssumption DEF Common, Shape
<1>1. PICK r : r = Wanted(n) OBVIOUS
<1>2. /\ z \in Pairs /\ z.k = [k EXCEPT !.regs = r] /\ AtRest(z.t)
      /\ z.t.orig = Regs(n, "guest", "none") /\ z.t.mod = Handled(n) /\ ~z.t.restoreSeccomp
      /\ z.t.rewrite = t.rewrite /\ z.t.suppressed = t.suppressed /\ z.t.signal = 0
      /\ ~z.t.skip /\ z.t.seccomp = "ENABLED"
      /\ z.t.exitPending = IF n = "late" THEN TRUE ELSE t.exitPending
  BY ONLY <1>1, Enters(z, n) DEF Enters
<1>3. AtRest(t) BY DEF Fresh, Idle, AtRest
<1>4. SameChain(t, z.t)
  <2>1. t.force = z.t.force BY ONLY <1>0, <1>2, <1>3 DEF AtRest, Pairs, Tracee
  <2> QED BY ONLY <1>2, <1>3, <2>1 DEF AtRest, SameChain
<1>5. Reported(z, r)
  <2>1. z.t.restoreSeccomp = t.restoreSeccomp
    BY ONLY <1>0, <1>2, ~t.restoreSeccomp DEF Pairs, Tracee
  <2>2. z.t.seccomp = (IF g.detected THEN t.seccomp ELSE "ENABLED")
    BY ONLY <1>2, g.detected => t.seccomp = "ENABLED"
  <2> QED BY ONLY <1>2, <1>4, <2>1, <2>2, z.t.restart \in {"CONT", "SYSCALL"} DEF Reported
<1>6. /\ Common' /\ Rest(z.t, t') /\ t'.exitPending = z.t.exitPending
      /\ t'.seccomp = z.t.seccomp /\ ~t'.skip /\ t' \in Tracee
      /\ k'.how = z.t.restart /\ k'.ev = "none" /\ k'.regs = r /\ k'.pc = k.pc
      /\ k'.asked = k.asked /\ k'.sigsys = k.sigsys /\ k'.rerun = k.rerun
  BY ONLY <1>5, Common, k.ev = "seccomp", conf' = conf, conf.filter, after \in BOOLEAN,
          after <=> conf.order = "new", g' = [detected |-> TRUE, after |-> after],
          Restart(z), ReportedStep
<1>7. /\ t'.status = z.t.status /\ t'.already = z.t.already /\ ~t'.restoreSeccomp
      /\ t'.orig = Regs(n, "guest", "none") /\ t'.mod = Handled(n) /\ AtRest(t')
  BY ONLY <1>2, <1>6 DEF Rest, SameChain, AtRest
<1>8. Idle' BY ONLY <1>7 DEF Idle, AtRest
<1>9. /\ n \in conf.kinds /\ n \in Kinds /\ k'.sigsys = "none" /\ ~k'.rerun
      /\ k.pc = IF conf.order = "new" THEN "body" ELSE "enter"
      /\ conf.order = "new" => ~t.exitPending
  <2>1. conf.order \in {"old", "new"} BY ONLY <1>0 DEF AllHosts
  <2>2. Plain /\ FreshAt /\ n \in conf.kinds /\ (k.how = "CONT" => ~t.exitPending)
    BY ONLY Fresh, n = k.asked DEF Fresh
  <2>3. n \in Kinds BY ONLY <1>0, <2>2 DEF AllHosts
  <2>4. CASE conf.order = "new"
    <3>1. k.pc = "body" /\ k.how = "CONT" BY ONLY <2>2, <2>4, k.ev = "seccomp" DEF FreshAt
    <3> QED BY ONLY <1>6, <2>2, <2>3, <2>4, <3>1 DEF Plain
  <2>5. CASE conf.order # "new"
    <3>1. k.pc = "enter" BY ONLY <2>2, <2>5, k.ev = "seccomp" DEF FreshAt
    <3> QED BY ONLY <1>6, <2>2, <2>3, <2>5, <3>1 DEF Plain
  <2> QED BY ONLY <2>4, <2>5
<1>10. n \notin Trapped BY ONLY Filter(n) # "allow" DEF Filter, Trapped
<1>11. CASE z.t.restart = "CONT"
  <2>1. t'.status = 0 /\ ~t'.already /\ k'.how = "CONT" /\ t'.seccomp = "ENABLED"
    BY ONLY <1>2, <1>6, <1>7, <1>11, z.t.status = IF z.t.restart = "CONT" THEN 0 ELSE StageOf(n),
            z.t.already <=> ~after /\ z.t.restart = "SYSCALL"
  <2>2. n \in {"enter", "fails", "clone", "swapped"} /\ ~t'.exitPending
    BY ONLY <1>2, <1>6, <1>11,
            z.t.restart = "CONT" => /\ n \in {"enter", "fails", "clone", "swapped"}
                                    /\ ~t.exitPending
  <2>3. k'.regs = Ran(Wanted(k.asked))'
    <3>1. k'.pc \notin {"exit", "back"} BY ONLY <1>6, <1>9
    <3>2. Wanted(k.asked)' = r BY <1>1, <1>6 DEF Wanted
    <3> QED BY <1>6, <3>1, <3>2 DEF Ran
  <2>4. Through'
    <3>1. k'.pc = IF conf'.order = "new" THEN "body" ELSE "enter" BY ONLY <1>6, <1>9, conf' = conf
    <3>2. /\ k'.asked \in conf'.kinds
          /\ k'.asked \in {"untraced", "enter", "fails", "clone", "swapped"}
      BY ONLY <1>6, <1>9, <2>2, n = k.asked, conf' = conf
    <3>3. conf'.order \in {"old", "new"} BY ONLY <1>0, conf' = conf DEF AllHosts
    <3> QED BY <1>6, <1>7, <1>8, <1>9, <2>1, <2>2, <2>3, <3>1, <3>2, <3>3
               DEF Through, Plain, Filtering
  <2> QED BY ONLY <1>6, <2>4 DEF FlowInv, Phases
<1>12. CASE z.t.restart = "SYSCALL"
  <2>1. /\ t'.status = 1 /\ k'.how = "SYSCALL" /\ t'.seccomp = "ENABLED"
        /\ t'.already <=> ~after
    <3>1. z.t.status = StageOf(n)
      BY ONLY <1>12, z.t.status = IF z.t.restart = "CONT" THEN 0 ELSE StageOf(n)
    <3>2. n # "fails" BY ONLY <1>12, z.t.restart = "SYSCALL" => n \notin {"clone", "swapped", "fails"}
    <3> QED BY ONLY <1>2, <1>6, <1>7, <1>12, <3>1, <3>2,
                    z.t.already <=> ~after /\ z.t.restart = "SYSCALL" DEF StageOf
  <2>2. n \notin {"clone", "swapped", "fails"}
    BY ONLY <1>12, z.t.restart = "SYSCALL" => n \notin {"clone", "swapped", "fails"}
  <2>3. Current' = n BY ONLY <1>6, <1>7, n = k.asked DEF Current
  <2>4. CASE after
    <3>1. k'.pc = "body" /\ ~t'.already /\ conf.order = "new"
      BY ONLY <1>6, <1>9, <2>1, <2>4, after <=> conf.order = "new"
    <3>2. Banks(Current)'
      <4>1. t'.orig.num = n /\ t'.orig.args = "guest" BY ONLY <1>7 DEF Regs
      <4> QED BY <1>7, <2>1, <2>2, <2>3, <4>1 DEF Banks, Handled
    <3>3. k'.regs = Ran(Given(Current))'
      <4>1. Given(Current)' = Given(n)
        BY ONLY <2>3, conf' = conf DEF Given, Settable, Wanted, Handled, Regs
      <4> QED BY ONLY <1>1, <1>6, <3>1, <4>1, Given(n) = Wanted(n) DEF Ran
    <3>4. EnteredAt' BY <1>6, <1>9, <2>1, <3>1 DEF EnteredAt, Plain
    <3>5. Entered'
      BY <1>6, <1>7, <1>8, <1>9, <1>10, <2>1, <2>2, <2>3, <3>1, <3>2, <3>3, <3>4 DEF Entered
    <3> QED BY ONLY <1>6, <3>5 DEF FlowInv, Phases
  <2>5. CASE ~after
    <3>1. n = "late" BY ONLY <1>12, <2>5, ~after /\ z.t.restart = "SYSCALL" => n = "late"
    <3>2. k'.pc = "enter" /\ t'.already /\ conf'.order = "old"
      <4>1. conf.order = "old" BY ONLY <1>0, <2>5, after <=> conf.order = "new" DEF AllHosts
      <4> QED BY ONLY <1>6, <1>9, <2>1, <2>5, <4>1, conf' = conf
    <3>3. Banks("late")'
      <4>1. t'.orig.num = n /\ t'.orig.args = "guest" BY ONLY <1>7 DEF Regs
      <4> QED BY <1>7, <2>1, <3>1, <4>1 DEF Banks, Handled
    <3>4. k'.regs = Handled("late") BY ONLY <1>1, <1>6, <3>1 DEF Wanted
    <3>5. Seen'
      <4>1. Handled("late")' = Handled("late") BY DEF Handled
      <4> QED BY <1>6, <1>7, <1>8, <1>9, <2>1, <3>1, <3>2, <3>3, <3>4, <4>1
                 DEF Seen, Plain, Filtering
    <3> QED BY ONLY <1>6, <3>5 DEF FlowInv, Phases
  <2> QED BY ONLY <2>4, <2>5
<1> QED BY ONLY <1>11, <1>12, z.t.restart \in {"CONT", "SYSCALL"}

\* The filter reports a call whose entry PRoot has not seen.
LEMMA FreshSeccomp ==
    ASSUME Common, Served(conf), Fresh, HandleSeccomp
    PROVE  FlowInv'
<1>0. /\ Shape /\ t.status = 0 /\ t \in Tracee /\ k \in Process /\ conf \in AllHosts
      /\ ~t.already /\ AtRest(t) /\ t.restoreSeccomp \in BOOLEAN
  BY FlowAssumption DEF Common, Shape, Fresh, Idle, AtRest, Tracee
<1>1. /\ conf' = conf /\ k.ev = "seccomp" /\ conf.filter
      /\ \E after \in BOOLEAN : /\ after <=> conf.order = "new"
                                /\ g' = [detected |-> TRUE, after |-> after]
                                /\ Restart(SeccompStop(Stopped, after))
      /\ g.detected \/ k.asked = "exit"
  BY ONLY Common, Fresh, HandleSeccomp, SeccompHandled
<1>2. PICK after \in BOOLEAN : /\ after <=> conf.order = "new"
                               /\ g' = [detected |-> TRUE, after |-> after]
                               /\ Restart(SeccompStop(Stopped, after))
  BY ONLY <1>1
<1>3. PICK s : s = Stopped OBVIOUS
<1>4. /\ s \in Pairs /\ s.k = k /\ Rest(t, s.t) /\ s.t.exitPending = t.exitPending
  BY ONLY <1>0, <1>3, StoppedIs
<1>5. PICK h : h = Noted(s) OBVIOUS
<1>6. Report(h) /\ h.t.restart = Usual BY ONLY <1>0, <1>3, <1>5, NotedIs
<1>7. /\ h \in Pairs /\ h.k = k /\ Rest(t, h.t) /\ h.t.status = 0 /\ ~h.t.already
      /\ h.t.exitPending = t.exitPending /\ h.t.suppressed = t.suppressed /\ h.t.signal = 0
      /\ ~h.t.skip /\ h.t.seccomp = (IF g.detected THEN t.seccomp ELSE "ENABLED")
  BY ONLY <1>0, <1>6 DEF Report, Rest
<1>8. PICK n : n = Current OBVIOUS
<1>9. /\ k.regs = Regs(n, "guest", "none") /\ k.regs.num = n /\ Filter(n) # "allow"
      /\ IF after THEN k.how = "CONT" /\ k.pc = "body" /\ ~t.exitPending /\ ~t.restoreSeccomp
         ELSE k.pc = "enter"
      /\ Plain /\ k.asked \in conf.kinds /\ FreshAt
  BY <1>1, <1>2, <1>8 DEF Fresh, FreshAt, Regs
<1>10. k.how = "CONT" => t.seccomp = "ENABLED" /\ g.detected
  BY ONLY <1>0, Common DEF Common, Shape, Detection, Filtering, Process
<1>11. Needed(s) <=> Filter(n) = "traceExit" \/ t.exitPending \/ Chaining(t)
  BY ONLY <1>4, <1>9 DEF Needed, ExitNecessary, Chaining, Rest, SameChain
<1>12. Chaining(t) <=> t.restoreSeccomp BY ONLY <1>0 DEF Chaining, AtRest
<1>13. CASE ~after /\ (h.t.seccomp # "ENABLED" \/ Needed(s))
  <2>1. PICK z : z = SeccompStop(s, after) OBVIOUS
  <2>2. /\ z \in Pairs /\ z.k = k /\ Rest(h.t, z.t) /\ z.t.restart = "SYSCALL"
        /\ z.t.exitPending = h.t.exitPending /\ z.t.seccomp = h.t.seccomp /\ z.t.skip = h.t.skip
        /\ z.t.suppressed = h.t.suppressed /\ z.t.signal = h.t.signal
    <3>1. CASE h.t.seccomp # "ENABLED"
      <4>1. z = h BY ONLY <1>4, <1>5, <1>13, <2>1, <3>1, SeccompParts
      <4>2. Usual = "SYSCALL" BY ONLY <1>7, <3>1 DEF Usual
      <4> QED BY ONLY <1>6, <1>7, <4>1, <4>2 DEF Rest, SameChain
    <3>2. CASE h.t.seccomp = "ENABLED"
      <4>1. z = [h EXCEPT !.t.restart = "SYSCALL"]
        BY ONLY <1>4, <1>5, <1>13, <2>1, <3>2, SeccompParts
      <4>2. "SYSCALL" \in {"CONT", "SYSCALL"} OBVIOUS
      <4> QED BY ONLY <1>7, <4>1, <4>2, GoingOn
    <3> QED BY ONLY <3>1, <3>2
  <2>3. Rest(t, z.t) BY ONLY <1>7, <2>2 DEF Rest, SameChain
  <2>4. PICK r : r = k.regs OBVIOUS
  <2>5. Reported(z, r)
    <3>1. z.k = [k EXCEPT !.regs = r]
      <4>1. [k EXCEPT !.regs = k.regs] = k BY ONLY <1>0 DEF Process
      <4> QED BY ONLY <2>2, <2>4, <4>1
    <3> QED BY ONLY <1>7, <2>2, <2>3, <3>1 DEF Reported, Rest
  <2>6. /\ Common' /\ Rest(z.t, t') /\ t'.exitPending = z.t.exitPending
        /\ t'.seccomp = z.t.seccomp /\ ~t'.skip /\ t' \in Tracee
        /\ k'.how = z.t.restart /\ k'.ev = "none" /\ k'.regs = r /\ k'.pc = k.pc
        /\ k'.asked = k.asked /\ k'.sigsys = k.sigsys /\ k'.rerun = k.rerun
    BY ONLY <1>1, <1>2, <1>3, <2>1, <2>5, Common, ReportedStep
  <2>7. Rest(t, t') BY ONLY <2>3, <2>6 DEF Rest, SameChain
  <2>8. /\ conf'.order # "new" /\ k'.pc = "enter" /\ k'.ev = "none" /\ k'.how = "SYSCALL"
        /\ k'.regs = k.regs /\ k'.sigsys = "none" /\ ~k'.rerun
    BY ONLY <1>1, <1>2, <1>9, <1>13, <2>2, <2>4, <2>6 DEF Plain
  <2>9. Current' = n BY ONLY <1>8, <2>6, <2>7 DEF Current, Rest
  <2>10. n \notin Trapped BY ONLY <1>9 DEF Filter, Trapped
  <2>11. FreshAt' BY <2>8, <2>9, <2>10 DEF FreshAt
  <2>12. Idle' BY ONLY <1>0, <2>7 DEF Idle, AtRest, Rest, SameChain
  <2>13. Fresh'
    <3>1. /\ k'.asked \in conf'.kinds /\ t'.status = 0 /\ ~t'.already
          /\ k'.regs = Regs(n, "guest", "none")
      BY ONLY <1>0, <1>1, <1>9, <2>6, <2>7, <2>8 DEF Rest
    <3> QED BY <2>8, <2>9, <2>11, <2>12, <3>1 DEF Fresh, Plain
  <2> QED BY ONLY <2>6, <2>13 DEF FlowInv, Phases
<1>14. CASE ~(~after /\ (h.t.seccomp # "ENABLED" \/ Needed(s)))
  <2>1. h.t.seccomp = "ENABLED" BY ONLY <1>7, <1>9, <1>10, <1>14
  <2>2. ~t.restoreSeccomp /\ ~t.exitPending
    BY ONLY <1>9, <1>11, <1>12, <1>14
  <2>3. n = k.asked BY ONLY <1>8, <2>2 DEF Current
  <2>4. g.detected => t.seccomp = "ENABLED" BY ONLY <1>7, <2>1
  <2>5. n \in Kinds BY ONLY <1>0, <1>9, <2>3 DEF AllHosts
  <2>6. CASE Needed(s)
    <3>1. after /\ Filter(n) = "traceExit" BY ONLY <1>11, <1>12, <1>14, <2>2, <2>6
    <3>2. n \notin {"late", "clone", "swapped", "fails"} BY ONLY <3>1 DEF Filter
    <3>3. PICK y : y = Entering(h, "SYSCALL") OBVIOUS
    <3>4. /\ Enters(y, n) /\ ~y.t.already /\ Given(n) = Wanted(n)
          /\ y.t.restart = IF n = "late" THEN "SYSCALL" ELSE "SYSCALL"
          /\ y.t.status = IF y.t.restart = "CONT" THEN 0 ELSE StageOf(n)
      <4>1. "SYSCALL" \in {"CONT", "SYSCALL"} OBVIOUS
      <4> QED BY ONLY <1>1, <1>6, <2>1, <2>2, <2>3, <3>3, <4>1, Common, Served(conf), Fresh,
                      EnteringIs
    <3>5. PICK z : z = [y EXCEPT !.t.restart = "SYSCALL"] OBVIOUS
    <3>6. /\ Enters(z, n) /\ z.t.restart = "SYSCALL" /\ z.t.status = y.t.status
          /\ z.t.already = y.t.already
      BY ONLY <3>4, <3>5, EntersOn
    <3>7. SeccompStop(s, after) = z
      BY ONLY <1>4, <1>5, <1>7, <2>1, <2>6, <3>1, <3>3, <3>5, SeccompParts
    <3>8. /\ z.t.restart \in {"CONT", "SYSCALL"}
          /\ z.t.status = IF z.t.restart = "CONT" THEN 0 ELSE StageOf(n)
          /\ z.t.already <=> ~after /\ z.t.restart = "SYSCALL"
          /\ z.t.restart = "CONT" => /\ n \in {"enter", "fails", "clone", "swapped"}
                                     /\ ~t.exitPending
          /\ z.t.restart = "SYSCALL" => n \notin {"clone", "swapped", "fails"}
          /\ ~after /\ z.t.restart = "SYSCALL" => n = "late"
      BY ONLY <3>1, <3>2, <3>4, <3>6
    <3> QED BY ONLY <1>1, <1>2, <1>3, <1>9, <2>2, <2>3, <2>4, <3>4, <3>6, <3>7, <3>8,
                    Common, Served(conf), Fresh, EntersStep
  <2>7. CASE ~Needed(s)
    <3>1. n \in {"enter", "late", "fails", "clone", "swapped"}
      BY ONLY <1>9, <1>11, <2>5, <2>7 DEF Filter, Kinds
    <3>2. PICK y : y = Entering(h, "CONT") OBVIOUS
    <3>3. /\ Enters(y, n) /\ ~y.t.already /\ Given(n) = Wanted(n)
          /\ y.t.restart = IF n = "late" THEN "SYSCALL" ELSE "CONT"
          /\ y.t.status = IF y.t.restart = "CONT" THEN 0 ELSE StageOf(n)
      <4>1. "CONT" \in {"CONT", "SYSCALL"} OBVIOUS
      <4> QED BY ONLY <1>1, <1>6, <2>1, <2>2, <2>3, <3>2, <4>1, Common, Served(conf), Fresh,
                      EnteringIs
    <3>4. PICK x : x = Lasting(y) OBVIOUS
    <3>5. Enters(x, n) /\ ~x.t.already /\ x.t.restart = y.t.restart /\ x.t.status = y.t.status
      <4>1. y.t.exitPending = (IF n = "late" THEN TRUE ELSE t.exitPending) /\ y.t.seccomp = "ENABLED"
        BY ONLY <3>3 DEF Enters
      <4>2. CASE n = "late"
        <5>1. x = [y EXCEPT !.t.restart = "SYSCALL"] BY ONLY <3>4, <4>1, <4>2 DEF Lasting
        <5>2. Enters(y, n) BY ONLY <3>3
        <5>3. /\ Enters(x, n) /\ x.t.restart = "SYSCALL" /\ x.t.status = y.t.status
              /\ x.t.already = y.t.already
          BY ONLY <5>1, <5>2, EntersOn
        <5> QED BY ONLY <3>3, <4>2, <5>3
      <4>3. CASE n # "late"
        <5>1. x = y BY ONLY <2>2, <3>4, <4>1, <4>3 DEF Lasting
        <5> QED BY ONLY <3>3, <5>1
      <4> QED BY ONLY <4>2, <4>3
    <3>6. PICK z : z = Seeing(x, after) OBVIOUS
    <3>7. /\ Enters(z, n) /\ z.t.restart = x.t.restart /\ z.t.status = x.t.status
          /\ z.t.already = (~after /\ x.t.restart = "SYSCALL")
      BY ONLY <3>5, <3>6, SeeingIs, after \in BOOLEAN
    <3>8. SeccompStop(s, after) = z
      <4>1. h.t.status = 0 BY ONLY <1>7
      <4> QED BY ONLY <1>4, <1>5, <2>1, <2>7, <3>2, <3>4, <3>6, <4>1, SeccompParts
    <3>9. /\ z.t.restart \in {"CONT", "SYSCALL"}
          /\ z.t.status = IF z.t.restart = "CONT" THEN 0 ELSE StageOf(n)
          /\ z.t.already <=> ~after /\ z.t.restart = "SYSCALL"
          /\ z.t.restart = "CONT" => /\ n \in {"enter", "fails", "clone", "swapped"}
                                     /\ ~t.exitPending
          /\ z.t.restart = "SYSCALL" => n \notin {"clone", "swapped", "fails"}
          /\ ~after /\ z.t.restart = "SYSCALL" => n = "late"
      <4>1. z.t.restart = IF n = "late" THEN "SYSCALL" ELSE "CONT" BY ONLY <3>3, <3>5, <3>7
      <4>2. z.t.already <=> ~after /\ z.t.restart = "SYSCALL" BY ONLY <3>7
      <4>3. z.t.status = IF z.t.restart = "CONT" THEN 0 ELSE StageOf(n) BY ONLY <3>3, <3>5, <3>7
      <4> QED BY ONLY <2>2, <3>1, <4>1, <4>2, <4>3
    <3> QED BY ONLY <1>1, <1>2, <1>3, <1>9, <2>2, <2>3, <2>4, <3>3, <3>7, <3>8, <3>9,
                    Common, Served(conf), Fresh, EntersStep
  <2> QED BY ONLY <2>6, <2>7
<1> QED BY ONLY <1>13, <1>14

\* The filter's report of a call.
LEMMA SeccompStep ==
    ASSUME FlowInv, Served(conf), HandleSeccomp
    PROVE  FlowInv'
<1>0. Common /\ k.ev = "seccomp" BY DEF FlowInv, HandleSeccomp
<1>1. conf.filter BY <1>0 DEF Common, Detection
<1>2. ~Faulty BY <1>1 DEF Faulty, Served
<1>3. Fresh \/ Entered
  BY <1>0, <1>2 DEF FlowInv, Phases, User, Seen, Through, Caught, Trapping, Retry, Finished,
                    Chained, Replaced, Inserting, AgainAt
<1> QED BY ONLY <1>0, <1>3, Served(conf), HandleSeccomp, EnteredSeccomp, FreshSeccomp

\* The report of an entry or an exit.
LEMMA SyscallStep ==
    ASSUME FlowInv, Served(conf), HandleSyscall
    PROVE  FlowInv'
<1>0. Common /\ k.ev = "syscall" BY DEF FlowInv, HandleSyscall
<1>1. Fresh \/ Entered \/ Seen \/ Caught \/ Chained \/ Faulty \/ Replaced
  BY <1>0 DEF FlowInv, Phases, User, Through, Trapping, Retry, Finished
<1> QED BY ONLY <1>0, <1>1, Served(conf), HandleSyscall, FreshSyscall, EnteredSyscall,
               SeenSyscall, CaughtSyscall, ChainedSyscall, FaultySyscall, ReplacedSyscall
-------------------------------------------------------------------------------
(* The theorems.                                                           *)

\* The tracee of launch_process() is in user code.
LEMMA FlowStarts == Init => FlowInv
<1> SUFFICES ASSUME Init PROVE FlowInv OBVIOUS
<1>1. conf \in Hosts /\ conf \in AllHosts BY FlowAssumption DEF Init
<1>2. NoRegs \in Bank BY DEF NoRegs, Regs, Bank, Numbers, Inserted
<1>3. PICK c : c = NoRegs OBVIOUS
<1>4. /\ t = [status |-> 0, restart |-> "none", last |-> "SYSCALL",
            seccomp |-> "DISABLED", exitPending |-> FALSE, already |-> FALSE,
            skip |-> FALSE, chain |-> "NULL", queue |-> <<>>, force |-> FALSE,
            workaround |-> "INACTIVE", suppressed |-> 0,
            restore |-> FALSE, restoreSeccomp |-> FALSE,
            cur |-> c, orig |-> c, mod |-> c, rewrite |-> c, signal |-> 0]
      /\ k = [pc |-> "user", ev |-> "none", sig |-> 0, sigsys |-> "none",
            rerun |-> FALSE, how |-> "SYSCALL", regs |-> c,
            asked |-> "none", answer |-> "none", calls |-> 0, sent |-> 0, got |-> 0]
  BY ONLY <1>3, Init DEF Init
<1>5. t \in Tracee
  <2>1. <<>> \in Seq([num : Numbers, args : {"guest", "host", "bad"}]) OBVIOUS
  <2>2. c \in Bank BY ONLY <1>2, <1>3
  <2> QED BY ONLY <1>4, <2>1, <2>2 DEF Tracee
<1>6. k \in Process
  <2>1. c \in Bank BY ONLY <1>2, <1>3
  <2> QED BY ONLY <1>4, <2>1 DEF Process
<1>7. /\ g \in [detected : BOOLEAN, after : BOOLEAN] /\ ~g.detected
      /\ g.after => conf.order = "new"
      /\ ~conf.filter => (conf.trapsVoid /\ conf.order = "new" => g.after)
  BY DEF Init
<1>8. Common
  <2>1. Shape BY <1>1, <1>4, <1>5, <1>6, <1>7 DEF Shape, Filtering
  <2>2. Detection BY <1>4, <1>7 DEF Detection, Filtering
  <2>3. SkipRight /\ Standing BY <1>4 DEF SkipRight, Standing
  <2>4. Signals BY <1>4, FlowAssumption DEF Signals
  <2> QED BY <2>1, <2>2, <2>3, <2>4 DEF Common
<1>9. User BY <1>4 DEF User, Idle, Plain, Steady, Late, Filtering
<1> QED BY <1>8, <1>9 DEF FlowInv, Phases

\* No step of the guest, the kernel or the event loop leaves the phases.
LEMMA FlowStep ==
    ASSUME FlowInv, Served(conf), [Next]_vars
    PROVE  FlowInv'
<1>1. CASE UNCHANGED vars
  <2>1. conf' = conf /\ g' = g /\ t' = t /\ k' = k BY <1>1 DEF vars
  <2>2. Filtering' = Filtering /\ Idle' = Idle /\ Plain' = Plain /\ Late' = Late /\ Steady' = Steady
        /\ Current' = Current /\ Chaining(t)' = Chaining(t)
    BY <2>1 DEF Filtering, Idle, Plain, Late, Steady, Current, Chaining
  <2>3. Common'
    BY <2>1, <2>2 DEF FlowInv, Common, Shape, Detection, SkipRight, Standing, Signals
  <2>4. FreshAt' = FreshAt /\ EnteredAt' = EnteredAt /\ AgainAt' = AgainAt
    BY <2>1, <2>2 DEF FreshAt, EnteredAt, AgainAt
  <2>5. /\ Given(Current)' = Given(Current) /\ Wanted(Current)' = Wanted(Current)
        /\ Given(k.asked)' = Given(k.asked) /\ Wanted(k.asked)' = Wanted(k.asked)
        /\ Handled("late")' = Handled("late")
    BY <2>1, <2>2 DEF Given, Settable, Wanted
  <2>6. /\ Banks(Current)' = Banks(Current) /\ Banks(k.asked)' = Banks(k.asked)
        /\ Banks("late")' = Banks("late")
    BY <2>1, <2>2 DEF Banks
  <2>7. /\ Inserting("chain")' = Inserting("chain") /\ Inserting("swapped")' = Inserting("swapped")
    BY <2>1, <2>4 DEF Inserting
  <2>8. /\ Ran(Given(Current))' = Ran(Given(Current))
        /\ Ran(Wanted(k.asked))' = Ran(Wanted(k.asked))
        /\ Ran(Regs("swapped", "bad", "none"))' = Ran(Regs("swapped", "bad", "none"))
    BY <2>1, <2>5 DEF Ran
  <2>9. User' = User /\ Fresh' = Fresh BY <2>1, <2>2, <2>4 DEF User, Fresh
  <2>10. Entered' = Entered
    BY <2>1, <2>2, <2>4, <2>5, <2>6, <2>8 DEF Entered
  <2>11. Seen' = Seen /\ Through' = Through BY <2>1, <2>2, <2>5, <2>6, <2>8 DEF Seen, Through
  <2>12. Caught' = Caught BY <2>1, <2>2, <2>5, <2>6 DEF Caught
  <2>13. Trapping' = Trapping /\ Retry' = Retry /\ Finished' = Finished
    BY <2>1, <2>2 DEF Trapping, Retry, Finished
  <2>14. Chained' = Chained /\ Faulty' = Faulty /\ Replaced' = Replaced
    BY <2>1, <2>7, <2>8 DEF Chained, Faulty, Replaced
  <2> QED
    BY <2>3, <2>9, <2>10, <2>11, <2>12, <2>13, <2>14 DEF FlowInv, Phases
<1>2. CASE Done BY <1>1, <1>2 DEF Done
<1>3. ASSUME NEW c \in conf.kinds, GuestCall(c) PROVE FlowInv' BY <1>3, GuestCallStep
<1>4. CASE SignalArrives BY <1>4, SignalArrivesStep
<1>5. CASE Kernel
  BY ONLY <1>5, FlowInv, Served(conf), EnterStopStep, SeccompAllowsStep, SeccompTrapsStep, BodyStep,
          SigsysArrivesStep, BackStep DEF Kernel
<1>6. CASE EventLoop
  BY ONLY <1>6, FlowInv, Served(conf), SyscallStep, SeccompStep, SigsysStep, SignalStep, ForkStep
     DEF EventLoop
<1> QED BY ONLY <1>1, <1>2, <1>3, <1>4, <1>5, <1>6, [Next]_vars DEF Next

\* On hosts that serve their guests the phases are all there is, for any number
\* of calls and signals and any length of a chain.
THEOREM FlowHolds ==
    ASSUME \A h \in Hosts : Served(h)
    PROVE  Spec => []FlowInv
<1>1. FlowInv /\ [Next]_vars => FlowInv'
  <2> SUFFICES ASSUME FlowInv, [Next]_vars PROVE FlowInv' OBVIOUS
  <2>1. Served(conf) BY DEF FlowInv, Common, Shape
  <2> QED BY ONLY <2>1, FlowInv, [Next]_vars, FlowStep
<1> HIDE DEF FlowInv
<1> QED BY <1>1, FlowStarts, PTL DEF Spec

\* At every report the assertions of handle_tracee_event() hold, and in user code
\* the latest signal was delivered.
THEOREM StagesAlwaysAgree ==
    ASSUME \A h \in Hosts : Served(h)
    PROVE  Spec => []StagesAgree
<1>1. FlowInv => StagesAgree
  <2> SUFFICES ASSUME FlowInv PROVE StagesAgree OBVIOUS
  <2>1. /\ Shape /\ Detection /\ Signals /\ t \in Tracee /\ k \in Process
        /\ g \in [detected : BOOLEAN, after : BOOLEAN] /\ t.last = k.how /\ Phases
    BY DEF FlowInv, Common, Shape
  <2>2. TypeOK
    <3>1. t.suppressed \in 0..MaxSignals BY <2>1, FlowAssumption DEF Signals, Tracee, Process
    <3> QED BY <2>1, <3>1 DEF TypeOK, Shape, Tracee, Process
  <2>3. k.ev = "syscall" /\ t.already => t.status # 0 /\ ~g.after
    BY <2>1 DEF Phases, User, Fresh, Entered, Seen, Banks, Through, Caught, Trapping, Retry,
                Finished, Chained, Faulty, Replaced, Inserting, Detection
  <2>4. ASSUME k.ev = "seccomp", g.detected
        PROVE  IF g.after THEN t.status # 0 => t.last # "CONT" ELSE t.status = 0
    <3>1. Fresh \/ (EnteredAt /\ k.how = "SYSCALL")
      BY <2>1, <2>4 DEF Phases, User, Entered, EnteredAt, Seen, Through, Caught, Trapping, Retry,
                        Finished, Chained, Faulty, Replaced, Inserting, AgainAt
    <3>2. CASE Fresh BY <3>2 DEF Fresh
    <3>3. CASE EnteredAt /\ k.how = "SYSCALL"
      <4>1. conf.order = "new" BY <2>4, <3>3 DEF EnteredAt
      <4> QED BY <2>1, <2>4, <3>3, <4>1 DEF Detection
    <3> QED BY <3>1, <3>2, <3>3
  <2>5. LatestDelivered
    <3> SUFFICES ASSUME k.pc = "user", Running PROVE k.got = k.sent BY DEF LatestDelivered
    <3>1. User
      BY <2>1 DEF Phases, Fresh, FreshAt, Entered, EnteredAt, Seen, Through, Caught, Trapping,
                  Retry, Finished, Chained, Faulty, Replaced, Inserting, AgainAt
    <3>2. ~Chaining(t) BY <3>1 DEF User, Idle, Chaining
    <3> QED BY <2>1, <3>2 DEF Signals, Running
  <2> QED BY <2>2, <2>3, <2>4, <2>5 DEF StagesAgree, Asserts
<1>2. Spec => []FlowInv BY FlowHolds
<1> QED BY <1>1, <1>2, PTL

\* Nothing the kernel executes has an untranslated path in it.
THEOREM NothingEverUntranslated ==
    ASSUME \A h \in Hosts : Served(h)
    PROVE  Spec => []NothingUntranslated
<1>1. FlowInv => NothingUntranslated
  <2> SUFFICES ASSUME FlowInv, k.pc = "body", Running, k.regs.num \in NeedHost
               PROVE  k.regs.args # "guest"
    BY DEF NothingUntranslated
  <2>1. k.ev = "none" /\ Shape BY DEF Running, FlowInv, Common
  <2>2. Entered \/ Through \/ Chained \/ Faulty \/ Replaced
    BY <2>1 DEF FlowInv, Phases, User, Fresh, FreshAt, Seen, Caught, Trapping, Retry, Finished
  <2>3. ASSUME NEW n, Wanted(n).num \in NeedHost PROVE Wanted(n).args # "guest"
    BY <2>3 DEF Wanted, Handled, Regs, NeedHost
  <2>4. CASE Entered
    <3>1. k.regs = Given(Current) BY <2>4 DEF Entered, Ran
    <3>2. CASE Settable(Current)
      <4>1. k.regs = Wanted(Current) BY ONLY <3>1, <3>2 DEF Given
      <4> QED BY ONLY <2>3, <4>1, k.regs.num \in NeedHost
    <3>3. CASE ~Settable(Current)
      <4>1. k.regs.args = "bad" BY ONLY <3>1, <3>3 DEF Given, Regs
      <4> QED BY ONLY <4>1
    <3> QED BY ONLY <3>2, <3>3
  <2>5. CASE Through
    <3>1. k.regs = Wanted(k.asked) BY <2>5 DEF Through, Ran
    <3> QED BY ONLY <2>3, <3>1, k.regs.num \in NeedHost
  <2>6. CASE Chained BY <2>6 DEF Chained, Regs
  <2>7. CASE Faulty
    <3>1. k.regs = Regs("swapped", "bad", "none") BY <2>7 DEF Faulty, Ran
    <3> QED BY ONLY <3>1 DEF Regs
  <2>8. CASE Replaced
    <3>1. k.regs.args = "host" BY <2>8 DEF Replaced, Regs
    <3> QED BY ONLY <3>1
  <2> QED BY ONLY <2>2, <2>4, <2>5, <2>6, <2>7, <2>8
<1>2. Spec => []FlowInv BY FlowHolds
<1> QED BY <1>1, <1>2, PTL

\* Nothing of a call is left over when the guest goes on.
THEOREM UserIsAlwaysClean ==
    ASSUME \A h \in Hosts : Served(h)
    PROVE  Spec => []UserIsClean
<1>1. FlowInv => UserIsClean
  <2> SUFFICES ASSUME FlowInv, k.pc = "user"
               PROVE  t.status = 0 /\ t.chain = "NULL" /\ ~t.restoreSeccomp /\ t.suppressed = 0
    BY DEF UserIsClean
  <2>1. User
    BY DEF FlowInv, Phases, Fresh, FreshAt, Entered, EnteredAt, Seen, Through, Caught, Trapping,
           Retry, Finished, Chained, Faulty, Replaced, Inserting, AgainAt
  <2>2. ~Chaining(t) BY <2>1 DEF User, Idle, Chaining
  <2> QED BY <2>1, <2>2 DEF FlowInv, Common, Signals, User, Idle
<1>2. Spec => []FlowInv BY FlowHolds
<1> QED BY <1>1, <1>2, PTL

\* Handlers do not touch what the guest asked for and what it was answered.
Guest(h) == /\ "t" \in DOMAIN h /\ "k" \in DOMAIN h
            /\ "asked" \in DOMAIN h.k /\ "answer" \in DOMAIN h.k
            /\ h.k.asked = k.asked /\ h.k.answer = k.answer

\* Neither does setting a part of the tracee or the registers of the process.
LEMMA GuestUnseen ==
    ASSUME NEW h, Guest(h)
    PROVE  /\ \A u : Guest([h EXCEPT !.t = u])
           /\ \A r : Guest([h EXCEPT !.k.regs = r])
           /\ \A u : Guest([t |-> u, k |-> [h.k EXCEPT !.rerun = TRUE]])
           /\ \A u, r : Guest([t |-> u, k |-> [h.k EXCEPT !.regs = r]])
BY DEF Guest

\* Registers are pushed without the guest seeing more than their values.
LEMMA GuestPushed ==
    ASSUME NEW h, Guest(h)
    PROVE  Guest(Push(h)) /\ Guest(PushArgs(h)) /\ Guest(ChainNext(h))
<1>1. Guest(Push(h)) BY GuestUnseen DEF Push
<1>2. Guest(PushArgs(h)) BY GuestUnseen DEF PushArgs
<1>3. Guest(ChainNext(h)) BY GuestUnseen DEF ChainNext
<1> QED BY <1>1, <1>2, <1>3

\* translate_syscall() leaves them alone, ...
LEMMA GuestTranslated ==
    ASSUME NEW h, Guest(h)
    PROVE  Guest(TranslateSyscall(h))
<1>1. Guest(TranslateEnter(h))
  <2>1. PICK e : e = EnterStage(h) OBVIOUS
  <2>2. Guest(e) BY <2>1, GuestUnseen DEF EnterStage
  <2>3. \A n : Guest(NumberStuck(e, n)) BY <2>2, GuestUnseen, GuestPushed DEF NumberStuck
  <2> QED BY <2>1, <2>2, <2>3, GuestPushed DEF TranslateEnter
<1>2. Guest(TranslateExit(h)) BY GuestUnseen, GuestPushed DEF TranslateExit
<1> QED BY <1>1, <1>2 DEF TranslateSyscall

\* ... so does the stop at an entry or an exit, ...
LEMMA GuestStopped ==
    ASSUME NEW s, Guest(s)
    PROVE  Guest(SyscallStop(s))
<1>1. Guest(Begun(s)) BY DEF Guest, Begun
<1>2. Guest(Skipped(s)) BY <1>1 DEF Guest, Skipped
<1>3. Guest(Marked(TranslateSyscall(Begun(s)), s))
  <2>1. PICK y : y = TranslateSyscall(Begun(s)) OBVIOUS
  <2>2. Guest(y) BY <1>1, <2>1, GuestTranslated
  <2>3. ASSUME NEW b PROVE Guest([y EXCEPT !.t.skip = b]) BY <2>2 DEF Guest
  <2>4. ASSUME NEW x, Guest(x) PROVE Guest(Redelivered(x)) BY <2>4 DEF Guest, Redelivered
  <2>5. Guest(Marked(y, s)) BY ONLY <2>3, <2>4 DEF Marked
  <2> QED BY ONLY <2>1, <2>5
<1>4. ASSUME NEW x, Guest(x) PROVE Guest(Stopping(s, x)) BY <1>4 DEF Guest, Stopping
<1>5. SyscallStop(s) = Stopping(s, IF s.t.already THEN Skipped(s)
                                   ELSE Marked(TranslateSyscall(Begun(s)), s))
  BY ONLY DEF SyscallStop, Stopping, Skipped, Begun, Marked
<1> QED BY ONLY <1>2, <1>3, <1>4, <1>5

\* ... the report of the filter, ...
LEMMA GuestReported ==
    ASSUME NEW s \in Pairs, Guest(s), NEW after
    PROVE  Guest(SeccompStop(s, after))
<1>1. Guest(Noted(s)) BY DEF Guest, Noted
<1>2. ASSUME NEW x, Guest(x), NEW how PROVE Guest([x EXCEPT !.t.restart = how])
  BY <1>2 DEF Guest
<1>3. ASSUME NEW x, Guest(x), NEW how PROVE Guest(Entering(x, how))
  BY ONLY <1>2, <1>3, GuestTranslated DEF Entering
<1>4. ASSUME NEW x, Guest(x) PROVE Guest(Lasting(x)) BY ONLY <1>2, <1>4 DEF Lasting
<1>5. ASSUME NEW x, Guest(x) PROVE Guest(Seeing(x, after)) BY ONLY <1>5 DEF Guest, Seeing
<1>6. PICK h : h = Noted(s) OBVIOUS
<1>7. /\ Guest(h) /\ Guest(Entering(h, "SYSCALL")) /\ Guest([h EXCEPT !.t.restart = h.t.last])
      /\ Guest(Seeing(Lasting(Entering(h, "CONT")), after))
  BY ONLY <1>1, <1>2, <1>3, <1>4, <1>5, <1>6
<1>8. Guest([(IF after THEN Entering(h, "SYSCALL") ELSE h) EXCEPT !.t.restart = "SYSCALL"])
  <2>1. Guest(IF after THEN Entering(h, "SYSCALL") ELSE h) BY ONLY <1>7
  <2> QED BY ONLY <1>2, <2>1
<1> QED BY ONLY <1>6, <1>7, <1>8, s \in Pairs, SeccompParts

\* ... SIGSYS and the other signals, ...
LEMMA GuestJudged ==
    ASSUME NEW s, Guest(s)
    PROVE  Guest(SigsysStop(s)) /\ Guest(SignalStop(s))
<1>1. Guest(SignalStop(s)) BY DEF Guest, SignalStop
<1>2. PICK h : h = IF s.t.status # 0 THEN TranslateSyscall(s) ELSE s OBVIOUS
<1>3. Guest(h) BY <1>2, GuestTranslated
<1>4. Guest(HandleSeccompEvent(h))
  <2>1. PICK u : u = [h.t EXCEPT !.status = 0, !.restore = FALSE, !.cur = h.k.regs,
                                 !.rewrite = h.k.regs] OBVIOUS
  <2>2. ASSUME NEW v PROVE Guest([t |-> v, k |-> [h.k EXCEPT !.rerun = TRUE]])
    BY <1>3 DEF Guest
  <2>3. ASSUME NEW v PROVE Guest([h EXCEPT !.t = v])
    BY <1>3 DEF Guest
  <2> QED BY ONLY <2>1, <2>2, <2>3, GuestPushed DEF HandleSeccompEvent
<1>5. Guest(Ruled(h))
  <2>1. Guest([h EXCEPT !.t.skip = FALSE]) BY <1>3 DEF Guest
  <2>2. ASSUME NEW x, Guest(x) PROVE Guest([x EXCEPT !.k.sigsys = "none"]) BY <2>2 DEF Guest
  <2> QED BY ONLY <1>4, <2>1, <2>2 DEF Ruled
<1>6. SigsysStop(s) = Ruled(h) BY ONLY <1>2 DEF SigsysStop, Ruled
<1> QED BY ONLY <1>1, <1>5, <1>6

\* ... and with them the event loop.
LEMMA GuestHandled ==
    ASSUME Shape, EventLoop
    PROVE  k'.asked = k.asked /\ k'.answer = k.answer
<1>1. PICK s : s = Stopped OBVIOUS
<1>2. s \in Pairs /\ s.k = k BY ONLY <1>1, Shape, StoppedIs
<1>3. Guest(s) BY ONLY <1>2, Shape DEF Guest, Pairs, Process, Shape
<1>4. ASSUME NEW h, Guest(h), Restart(h) PROVE k'.asked = k.asked /\ k'.answer = k.answer
  BY ONLY <1>4 DEF Guest, Restart
<1>5. CASE HandleSyscall BY ONLY <1>1, <1>3, <1>4, <1>5, GuestStopped DEF HandleSyscall
<1>6. CASE HandleSeccomp BY ONLY <1>1, <1>2, <1>3, <1>4, <1>6, GuestReported DEF HandleSeccomp
<1>7. CASE HandleSigsys BY ONLY <1>1, <1>3, <1>4, <1>7, GuestJudged DEF HandleSigsys
<1>8. CASE HandleSignal BY ONLY <1>1, <1>3, <1>4, <1>8, GuestJudged DEF HandleSignal
<1>9. CASE HandleFork BY ONLY <1>1, <1>3, <1>4, <1>9 DEF HandleFork
<1> QED BY ONLY <1>5, <1>6, <1>7, <1>8, <1>9, EventLoop DEF EventLoop

\* A call is answered with the result of its kind, and nothing else changes what
\* the guest sees.
LEMMA PromiseStep ==
    ASSUME FlowInv, [Next]_vars
    PROVE  [Promise!Next]_(Promise!vars)
<1>1. Shape /\ Phases BY DEF FlowInv, Common
<1>2. CASE k'.asked = k.asked /\ k'.answer = k.answer BY <1>2 DEF Promise!vars
<1>3. ASSUME NEW c \in conf.kinds, GuestCall(c) PROVE Promise!Next
  <2>1. k.asked = "none"
    BY <1>1, <1>3 DEF GuestCall, Phases, User, Fresh, FreshAt, Entered, EnteredAt, Seen, Through,
                      Caught, Trapping, Retry, Finished, Chained, Faulty, Replaced, Inserting,
                      AgainAt
  <2>2. c \in Kinds BY <1>1, FlowAssumption DEF Shape, AllHosts
  <2>3. k'.asked = c /\ k'.answer = k.answer
    <3>1. k \in Process BY <1>1 DEF Shape
    <3> QED BY <1>3, <3>1 DEF GuestCall, Process
  <2> QED BY <2>1, <2>2, <2>3 DEF Promise!Next, Promise!Ask
<1>4. CASE Back /\ ~k.rerun
  <2>1. k'.asked = "none" /\ k'.answer = k.regs.res
    BY ONLY <1>1, <1>4, BackIs
  <2>2. Finished
    BY <1>1, <1>4 DEF Back, Running, Phases, User, Fresh, FreshAt, Entered, EnteredAt, Seen,
                      Through, Caught, Trapping, Trapped, Retry, Chained, Faulty, Replaced,
                      Inserting, AgainAt
  <2>3. k.regs.res = Expected(k.asked) /\ k.asked \in conf.kinds BY <2>2 DEF Finished
  <2>4. k.asked # "none" BY <1>1, <2>3, FlowAssumption DEF Shape, AllHosts, Kinds
  <2> QED BY <2>1, <2>3, <2>4 DEF Promise!Next, Promise!Answer
<1>5. CASE Back /\ k.rerun
  <2>1. k'.asked = k.asked /\ k'.answer = k.answer BY ONLY <1>1, <1>5, BackIs
  <2> QED BY ONLY <1>2, <2>1
<1>6. k \in Process BY <1>1 DEF Shape
<1>7. CASE SignalArrives BY <1>2, <1>6, <1>7 DEF SignalArrives, Process
<1>8. CASE EnterStop BY <1>2, <1>6, <1>8 DEF EnterStop, Process
<1>9. CASE SeccompAllows BY <1>2, <1>6, <1>9 DEF SeccompAllows, Process
<1>10. CASE SeccompTraps BY <1>2, <1>6, <1>10 DEF SeccompTraps, Process
<1>11. CASE Body BY <1>2, <1>6, <1>11 DEF Body, Process
<1>12. CASE SigsysArrives BY <1>2, <1>6, <1>12 DEF SigsysArrives, Process
<1>13. CASE EventLoop BY ONLY <1>1, <1>2, <1>13, GuestHandled
<1>14. CASE Done \/ UNCHANGED vars BY <1>2, <1>14 DEF Done, vars
<1> QED BY ONLY <1>3, <1>4, <1>5, <1>7, <1>8, <1>9, <1>10, <1>11, <1>12, <1>13, <1>14,
               [Next]_vars DEF Next, Kernel

\* The whole of the kernel's stops and PRoot's handlers implements GuestCalls.
THEOREM EveryCallAsPromised ==
    ASSUME \A h \in Hosts : Served(h)
    PROVE  Spec => Promised
<1>1. Init => Promise!Init BY DEF Init, Promise!Init
<1>2. FlowInv /\ [Next]_vars => [Promise!Next]_(Promise!vars) BY PromiseStep
<1>3. Spec => []FlowInv BY FlowHolds
<1> HIDE DEF FlowInv
<1> QED BY <1>1, <1>2, <1>3, PTL DEF Spec, Promised, Promise!Spec
===============================================================================
