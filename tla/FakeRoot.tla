------------------------------- MODULE FakeRoot -------------------------------
(***************************************************************************)
(* The fake root identity of extension/fake_id0: the ids a tracee believes *)
(* to have, the capability to change them, and the permissions of files    *)
(* that are widened for the time of a call, because the user that runs     *)
(* PRoot cannot override them as root would.                               *)
(***************************************************************************)
EXTENDS Integers, SequencesExt

CONSTANTS Users,         \* the tracees there can be
          Ids,           \* user and group ids; 0 is root
          FileCalls,     \* the calls on files tracees make, see FileCall
          MaxIdCalls,    \* bound: calls about identity
          MaxIdMixed,    \* bound: the same, with calls on files
          MaxFileCalls   \* bound: calls on files

VARIABLES cred,     \* per tracee its Config
          mode,     \* per file its permissions
          names,    \* the file each name of the host stands for
          undo,     \* per tracee the ModifiedNodes of its ctx, latest first
          inCall,   \* per tracee the file call it is in
          idCalls, fileCalls,
          dropped,  \* the ids a tracee had when it lost its power to change them
          wanted,   \* the permissions the guest gave to each file
          mixed     \* whether a call met what another tracee had to undo, or moved what it had itself

fakeVars == <<cred, mode, names, undo, inCall, idCalls, fileCalls, dropped, wanted, mixed>>

Within(ids, files) ==
    /\ ids <= (IF files = 0 THEN MaxIdCalls ELSE MaxIdMixed)
    /\ files <= MaxFileCalls

-------------------------------------------------------------------------------
(* The ids.                                                                *)

Unset == -1
NoCred == [alive |-> FALSE]
Same(id) == [r |-> id, e |-> id, s |-> id, fs |-> id]
InitialCred(uid, gid) ==
    [alive |-> TRUE, uid |-> Same(uid), gid |-> Same(gid), caps |-> uid = 0, keep |-> FALSE]

Real(c, kind) == {c[kind].r, c[kind].e, c[kind].s}
HasRoot(c) == 0 \in Real(c, "uid")
Privileged(c) == c.uid.e = 0 \/ c.caps

\* MAYBE_DROP_CAPS: the power is lost with the last 0 of the user ids.
MaybeDropCaps(old, c) ==
    [c EXCEPT !.caps = @ /\ ~(HasRoot(old) /\ ~c.keep /\ ~HasRoot(c))]

\* A macro of the same form for user and group ids: refused, or done and the caps looked at.
Emulated(c, allowed, kind, new) ==
    IF allowed THEN MaybeDropCaps(c, [c EXCEPT ![kind] = new]) ELSE c

\* SETXID.
SetXid(c, kind, id) ==
    LET x == c[kind]
    IN Emulated(c, Privileged(c) \/ id \in Real(c, kind), kind,
                IF Privileged(c) THEN Same(id) ELSE [x EXCEPT !.e = id, !.fs = id])

\* SETREXID.
SetreXid(c, kind, r, e) ==
    LET x == c[kind]
        sameR == r \in {Unset, x.r}
        sameE == e \in {Unset, x.e}
        allowed == \/ Privileged(c)
                   \/ sameE /\ sameR
                   \/ r = x.e /\ (e = x.r \/ sameE)
                   \/ e = x.r /\ (r = x.e \/ sameR)
                   \/ e = x.s /\ sameR
        saved   == e # Unset /\ (r # Unset \/ e # x.r)
    IN Emulated(c, allowed, kind,
                [r  |-> IF r = Unset THEN x.r ELSE r,
                 e  |-> IF e = Unset THEN x.e ELSE e,
                 s  |-> IF saved THEN e ELSE x.s,
                 fs |-> IF e = Unset THEN x.fs ELSE e])

\* SETRESXID.
SetresXid(c, kind, r, e, s) ==
    LET x == c[kind]
        Or(id, old) == IF id = Unset THEN old ELSE id
    IN Emulated(c, Privileged(c) \/ {r, e, s} \subseteq Real(c, kind) \cup {Unset}, kind,
                [r |-> Or(r, x.r), e |-> Or(e, x.e), s |-> Or(s, x.s), fs |-> Or(e, x.fs)])

\* SETFSXID, which looks at no capability afterwards.
SetfsXid(c, kind, id) ==
    IF Privileged(c) \/ id \in Real(c, kind) \cup {c[kind].fs} THEN [c EXCEPT ![kind].fs = id] ELSE c

\* handle_sysexit_start() of an execve that succeeded.
Execed(c, setuid, setgid) ==
    [c EXCEPT !.keep = FALSE,
              !.caps = @ \/ setuid,
              !.uid  = IF setuid THEN [@ EXCEPT !.e = 0, !.s = 0] ELSE @,
              !.gid  = IF setgid THEN [@ EXCEPT !.e = 0, !.s = 0] ELSE @]

\* INHERIT_CHILD: a copy, since a change of one is no change of the other.
Inherited(c) == c

-------------------------------------------------------------------------------
(* The permissions: even numbers lack some of what the owner needs to read *)
(* and write a file or to pass a directory.                                *)

Narrow(m) == m % 2 = 0
Widened(m) == m + 1
NoFile == "none"

\* A path is the names that canonicalize() asks about, and which of them is final; a call
\* what is done to the last of them.
Visit(name, final) == [name |-> name, final |-> final]
FileCall(op, path, arg) == [op |-> op, path |-> path, arg |-> arg]
NotInCall == FileCall("none", <<>>, 0)

\* override_permissions(), for one name: what is changed is noted, to be undone.  The final
\* name of a chmod gets the permissions asked for; of a stat, it keeps what it has.
UndoMode_Old(current, call, step) == current
UndoMode(current, call, step) == IF step.final /\ call.op = "chmod" THEN call.arg ELSE current

OverridePermissions(s, call, step) ==
    LET file == names[step.name]
    IN IF file = NoFile \/ ~Narrow(s.mode[file]) \/ (step.final /\ call.op = "stat") THEN s
       ELSE [mode |-> [s.mode EXCEPT ![file] = Widened(@)],
             undo |-> <<[name |-> step.name, mode |-> UndoMode(s.mode[file], call, step)]>> \o s.undo]

\* restore_mode(), the destructor of a ModifiedNode, for all those of a tracee.
RestoreMode(m, node) == IF names[node.name] = NoFile THEN m ELSE [m EXCEPT ![names[node.name]] = node.mode]
Restored(u) == FoldLeft(RestoreMode, mode, undo[u])

\* get_tracee(): every event of a tracee begins with a new ctx.
NewCtx(u) ==
    /\ mode' = Restored(u)
    /\ undo' = [undo EXCEPT ![u] = <<>>]

-------------------------------------------------------------------------------
FilesOf(call) == {names[call.path[i].name] : i \in DOMAIN call.path} \ {NoFile}
UndoneBy(u) == {names[undo[u][i].name] : i \in DOMAIN undo[u]} \ {NoFile}
Target(call) == Last(call.path).name

Lives(u) == cred[u].alive
Idle(u) == Lives(u) /\ inCall[u] = NotInCall

Held(c) == ({"uid"} \X Real(c, "uid")) \cup ({"gid"} \X Real(c, "gid"))
Powerless(c) == ~HasRoot(c) /\ ~c.caps
Noted(before, c) == IF before = {} /\ Powerless(c) THEN Held(c) ELSE before

\* A call about identity: it is void for the kernel, or trapped by a filter of the host,
\* and emulated when it returns, or when the trap is seen.
Identity(u, c) ==
    /\ Within(idCalls + 1, fileCalls)
    /\ idCalls' = idCalls + 1
    /\ NewCtx(u)
    /\ cred' = [cred EXCEPT ![u] = c]
    /\ UNCHANGED <<names, inCall, fileCalls, wanted, mixed>>

TakesIds(u, c) ==
    /\ Identity(u, c)
    /\ dropped' = [dropped EXCEPT ![u] = Noted(@, c)]

Optional == Ids \cup {Unset}
SetIds(u) ==
    /\ Idle(u) /\ Within(idCalls + 1, fileCalls)
    /\ \E kind \in {"uid", "gid"} :
         \/ \E id \in Ids : TakesIds(u, SetXid(cred[u], kind, id)) \/ TakesIds(u, SetfsXid(cred[u], kind, id))
         \/ \E r, e \in Optional :
              \/ TakesIds(u, SetreXid(cred[u], kind, r, e))
              \/ \E s \in Optional : TakesIds(u, SetresXid(cred[u], kind, r, e, s))

\* prctl(PR_SET_KEEPCAPS), when the kernel has agreed.
KeepCaps(u) ==
    /\ Idle(u)
    /\ \E keep \in BOOLEAN : Identity(u, [cred[u] EXCEPT !.keep = keep])
    /\ UNCHANGED dropped

Execve(u) ==
    /\ Idle(u)
    /\ \E setuid, setgid \in BOOLEAN :
         LET c == Execed(cred[u], setuid, setgid)
         IN /\ Identity(u, c)
            /\ dropped' = [dropped EXCEPT ![u] = IF setuid THEN {}
                                                 ELSE IF @ # {} /\ setgid THEN @ \cup {<<"gid", 0>>} ELSE @]

Fork(u, child) ==
    /\ Idle(u) /\ ~Lives(child)
    /\ Within(idCalls + 1, fileCalls)
    /\ idCalls' = idCalls + 1
    /\ NewCtx(u)
    /\ cred' = [cred EXCEPT ![child] = Inherited(cred[u])]
    /\ dropped' = [dropped EXCEPT ![child] = dropped[u]]
    /\ UNCHANGED <<names, inCall, fileCalls, wanted, mixed>>

\* The tracee is freed, and its ctx with it.  A chmod it was in may have been done or not.
Die(u) ==
    /\ Lives(u) /\ \E other \in Users \ {u} : Lives(other)
    /\ NewCtx(u)
    /\ cred' = [cred EXCEPT ![u] = NoCred]
    /\ inCall' = [inCall EXCEPT ![u] = NotInCall]
    /\ dropped' = [dropped EXCEPT ![u] = {}]
    /\ wanted' = IF inCall[u].op # "chmod" THEN wanted
                 ELSE [f \in DOMAIN wanted |-> IF f = names[Target(inCall[u])] THEN mode'[f] ELSE wanted[f]]
    /\ UNCHANGED <<names, idCalls, fileCalls, mixed>>

-------------------------------------------------------------------------------
\* Entry of a call: its path is translated, and HOST_PATH notified of each name.
EnterFileCall(u) ==
    /\ Idle(u) /\ Within(idCalls, fileCalls + 1)
    /\ fileCalls' = fileCalls + 1
    /\ \E call \in FileCalls :
         LET begun == [mode |-> Restored(u), undo |-> <<>>]
             Over(s, step) == OverridePermissions(s, call, step)
             after == IF cred[u].uid.e = 0 THEN FoldLeft(Over, begun, call.path) ELSE begun
         IN /\ mode' = after.mode
            /\ undo' = [undo EXCEPT ![u] = after.undo]
            /\ inCall' = [inCall EXCEPT ![u] = call]
            /\ mixed' = (mixed \/ \E v \in Users \ {u} : UndoneBy(v) \cap FilesOf(call) # {})
    /\ UNCHANGED <<cred, names, idCalls, dropped, wanted>>

\* The kernel makes the call, with the permissions of whoever runs PRoot.  That of an open
\* returns unseen, the others stop once more.
Passes(call) == \A i \in 1..(Len(call.path) - 1) : ~Narrow(mode[names[call.path[i].name]])

KernelCall(u) ==
    /\ inCall[u].op \notin {"none", "done"}
    /\ LET call == inCall[u]
           file == names[Target(call)]
           done == Passes(call) /\ file # NoFile
       IN /\ inCall' = [inCall EXCEPT ![u] = IF call.op = "open" THEN NotInCall ELSE FileCall("done", <<>>, 0)]
          /\ mode' = IF call.op = "chmod" /\ done THEN [mode EXCEPT ![file] = call.arg] ELSE mode
          /\ wanted' = IF call.op = "chmod" /\ done THEN [wanted EXCEPT ![file] = call.arg] ELSE wanted
          /\ names' = IF call.op = "rename" /\ done
                      THEN [names EXCEPT ![call.arg] = file, ![Target(call)] = NoFile] ELSE names
          /\ mixed' = (mixed \/ (call.op = "rename" /\ file \in UndoneBy(u)))
    /\ UNCHANGED <<cred, undo, idCalls, fileCalls, dropped>>

ExitFileCall(u) ==
    /\ inCall[u].op = "done"
    /\ NewCtx(u)
    /\ inCall' = [inCall EXCEPT ![u] = NotInCall]
    /\ UNCHANGED <<cred, names, idCalls, fileCalls, dropped, wanted, mixed>>

FakeInit ==
    /\ \E uid, gid \in Ids :
         LET first == CHOOSE u \in Users : TRUE IN
         /\ cred = [u \in Users |-> IF u = first THEN InitialCred(uid, gid) ELSE NoCred]
         /\ dropped = [u \in Users |-> IF u = first THEN Noted({}, InitialCred(uid, gid)) ELSE {}]
    /\ names = [n \in {"d", "d/f", "d/g"} |-> IF n = "d" THEN "dir" ELSE IF n = "d/f" THEN "file" ELSE NoFile]
    /\ mode = [file \in {"dir", "file"} |-> 0]
    /\ wanted = mode
    /\ undo = [u \in Users |-> <<>>]
    /\ inCall = [u \in Users |-> NotInCall]
    /\ idCalls = 0 /\ fileCalls = 0 /\ mixed = FALSE

FakeNext ==
    \E u \in Users :
      \/ SetIds(u) \/ KeepCaps(u) \/ Execve(u) \/ Die(u)
      \/ \E child \in Users : Fork(u, child)
      \/ EnterFileCall(u) \/ KernelCall(u) \/ ExitFileCall(u)

FakeSpec == FakeInit /\ [][FakeNext]_fakeVars
-------------------------------------------------------------------------------
\* "Linux clears capabilities on a permanent UID drop": who has lost root gets no id it
\* did not have, nor do its children, but by running a set-user-ID program.
DropIsFinal ==
    \A u \in Users : dropped[u] # {} => Powerless(cred[u]) /\ Held(cred[u]) \subseteq dropped[u]

\* "Force permissions of @path during the path translation": for the time of its call
\* nothing on its way stops root, unless another tracee uses the same files.
NothingStopsRoot ==
    \A u \in Users :
      LET call == inCall[u]
      IN call.op \notin {"none", "done", "stat"} /\ cred[u].uid.e = 0 /\ ~mixed =>
           \A file \in FilesOf(call) : ~Narrow(mode[file])

\* "The original permissions are restored": where no tracee has anything to undo, a file
\* has the permissions the guest gave it.
OriginalsRestored ==
    \A file \in DOMAIN mode :
      (\A u \in Users : file \notin UndoneBy(u)) => mode[file] = wanted[file]

\* The same, as long as no two tracees use a file at once, and none is renamed while it
\* lacks permissions: what is undone is noted by name.
ModesComeBack == mixed \/ OriginalsRestored

RootFaked == DropIsFinal /\ NothingStopsRoot /\ ModesComeBack
===============================================================================
