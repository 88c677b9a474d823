-------------------------------- MODULE Sessions --------------------------------
(***************************************************************************)
(* The terminal sessions of the app: the maps of SessionService.kt, and    *)
(* the screens that change them (KeyShortcutHandler, TerminalBackEnd,      *)
(* TerminalDrawer, TerminalScreen, TerminalViewModel, TerminalViewLayout). *)
(* All of it runs on the main thread, so that a handler is one action; the *)
(* shells, Android and the user come in between.                           *)
(*                                                                         *)
(* A terminal is a number, in the order in which they are made; its shell  *)
(* is started when it is first shown.  The mode of a session (which rootfs *)
(* it runs in) is left out.                                                *)
(***************************************************************************)
EXTENDS Naturals, Sequences, FiniteSets, Functions, SequencesExt, FiniteSetsExt

CONSTANTS
    UserIds,       \* names the user gives to sessions
    MadeUpIds,     \* lists of the ids the app makes up: main1, main2, ..., script1, ...
    MainId,        \* the id of the first session
    Slips,         \* what is done although the app does not cope with it: subset of AllSlips
    MaxTerminals   \* bound: terminals ever made

AllSlips == {"reuse", "delete", "exit"}
ASSUME SessionsAssumption ==
    /\ Slips \subseteq AllSlips /\ MaxTerminals \in Nat
    /\ \A ids \in MadeUpIds :   \* they never run out and are all different
         /\ DOMAIN ids \subseteq Nat /\ 1..MaxTerminals \subseteq DOMAIN ids
         /\ \A i, j \in DOMAIN ids : ids[i] = ids[j] => i = j

VARIABLES
    sessions,        \* id |-> terminal
    sessionList,     \* ids that are listed
    sessionOrder,    \* their order in the drawer
    currentSession,  \* the id of the session that is shown
    shell,           \* terminal |-> "new", "running" or "ended"
    terminalView,    \* the terminal that is shown, 0 for none
    activity,        \* "on", "finishing" or "off"
    service          \* [alive, started]

sessionVars == <<sessions, sessionList, sessionOrder, currentSession, shell, terminalView, activity, service>>

Terminals == 1..Len(shell)

\* What a handler changes of the service and the view, as one record.
AsItIs == [sessions |-> sessions, list |-> sessionList, order |-> sessionOrder, current |-> currentSession,
           shell |-> shell, view |-> terminalView, started |-> service.started]
Turns(s) ==
    /\ sessions' = s.sessions /\ sessionList' = s.list /\ sessionOrder' = s.order
    /\ currentSession' = s.current /\ shell' = s.shell /\ terminalView' = s.view
    /\ service' = [service EXCEPT !.started = s.started]

-------------------------------------------------------------------------------
(* SessionBinder *)

\* sessions[id] = terminal
PutSession(map, id, t) == [x \in DOMAIN map \cup {id} |-> IF x = id THEN t ELSE map[x]]

\* createSession(): an id that is taken is given to the new terminal.
CreateSession(s, id) ==
    [s EXCEPT !.shell = Append(@, "new"), !.sessions = PutSession(@, id, Len(s.shell) + 1),
              !.list = @ \cup {id}, !.order = IF id \in ToSet(@) THEN @ ELSE Append(@, id)]

\* finishIfRunning(), of some terminals
FinishIfRunning(shells, ts) == [t \in DOMAIN shells |-> IF t \in ts /\ shells[t] = "running" THEN "ended" ELSE shells[t]]

\* terminateSession(): the service stops itself with its last session.
TerminateSession(s, id) ==
    LET left == Restrict(s.sessions, DOMAIN s.sessions \ {id})
        ends == IF id \in DOMAIN s.sessions THEN {s.sessions[id]} ELSE {}
    IN [s EXCEPT !.shell = FinishIfRunning(@, ends), !.sessions = left, !.list = @ \ {id},
                 !.order = RemoveFirst(@, id), !.started = @ /\ DOMAIN left # {}]

\* Mutant: the session that is shown keeps its old name.
RenameSession_Shown(s, old, new) ==
    [s EXCEPT !.sessions = PutSession(Restrict(@, DOMAIN @ \ {old}), new, @[old]), !.list = (@ \ {old}) \cup {new},
              !.order = [i \in DOMAIN @ |-> IF @[i] = old THEN new ELSE @[i]]]

\* renameSession(), to a name that is free.
RenameSession(s, old, new) ==
    [s EXCEPT !.sessions = PutSession(Restrict(@, DOMAIN @ \ {old}), new, @[old]), !.list = (@ \ {old}) \cup {new},
              !.order = [i \in DOMAIN @ |-> IF @[i] = old THEN new ELSE @[i]], !.current = IF @ = old THEN new ELSE @]

-------------------------------------------------------------------------------
(* The screens *)

\* attachSession(): the shell of a terminal that is shown for the first time is started.
Attached(s, id) ==
    [s EXCEPT !.view = s.sessions[id], !.shell[s.sessions[id]] = IF @ = "new" THEN "running" ELSE @]

SessionFor(s, id) == IF id \in DOMAIN s.sessions THEN s ELSE CreateSession(s, id)

\* changeSession()
ChangeSession(s, id) == [Attached(SessionFor(s, id), id) EXCEPT !.current = id]

\* Mutant: the number of sessions is taken for a free number.
FreshId_Counted(ids, list) == ids[Cardinality(list \cap ToSet(ids)) + 1]

\* generateUniqueSessionId()
FreshId(ids, list) == ids[Min({i \in DOMAIN ids : ids[i] \notin list})]

Usable == activity = "on" /\ terminalView # 0
MayCreate == Len(shell) < MaxTerminals

\* The factory of the view: it shows the current session.
ViewCreated ==
    /\ activity = "on" /\ terminalView = 0 /\ MayCreate
    /\ Turns(Attached(SessionFor(AsItIs, currentSession), currentSession))
    /\ UNCHANGED activity

NewSession ==
    /\ Usable /\ MayCreate
    /\ \E ids \in MadeUpIds :
         LET id == FreshId(ids, sessionList)
         IN Turns(ChangeSession(CreateSession(AsItIs, id), id))
    /\ UNCHANGED activity

\* A session of a saved command is called by the name of the command.
NewCustomSession ==
    /\ Usable /\ MayCreate
    /\ \E name \in UserIds :
         /\ "reuse" \in Slips \/ name \notin sessionList
         /\ Turns(ChangeSession(CreateSession(AsItIs, name), name))
    /\ UNCHANGED activity

\* The shortcut that goes to the next session, and a tap in the drawer.
SwitchSession ==
    /\ Usable
    /\ \E id \in sessionList : Turns(ChangeSession(AsItIs, id))
    /\ UNCHANGED activity

\* What comes after the current session in the map is any other one.
CloseSession ==
    /\ Usable
    /\ IF Cardinality(sessionList) <= 1
       THEN LET s == TerminateSession(AsItIs, currentSession)
            IN Turns(s) /\ activity' = IF s.list = {} THEN "finishing" ELSE activity
       ELSE /\ \E next \in sessionList \ {currentSession} :
                 Turns(TerminateSession(ChangeSession(AsItIs, next), currentSession))
            /\ UNCHANGED activity

\* onKeyDown(): Enter in a terminal whose shell has ended.
EnterWhenEnded ==
    /\ Usable /\ shell[terminalView] # "running"
    /\ LET s == TerminateSession(AsItIs, currentSession)
       IN IF s.list = {} THEN Turns(s) /\ activity' = "finishing"
          ELSE (\E id \in s.list : Turns(ChangeSession(s, id))) /\ UNCHANGED activity

\* The button of the drawer leaves the view at what it shows.
DeleteSession ==
    /\ Usable
    /\ \E id \in ToSet(sessionOrder) :
         /\ id # currentSession \/ (Len(sessionOrder) > 1 /\ "delete" \in Slips)
         /\ Turns(TerminateSession(AsItIs, id))
    /\ UNCHANGED activity

RenamedSession ==
    /\ Usable
    /\ \E old \in ToSet(sessionOrder) \cap DOMAIN sessions, new \in UserIds \ sessionList :
         Turns(RenameSession(AsItIs, old, new))
    /\ UNCHANGED activity

\* moveSession() to a neighbour
MoveSession ==
    /\ Usable
    /\ \E i \in 1..Len(sessionOrder) - 1 :
         sessionOrder' = [sessionOrder EXCEPT ![i] = sessionOrder[i + 1], ![i + 1] = sessionOrder[i]]
    /\ UNCHANGED <<sessions, sessionList, currentSession, shell, terminalView, activity, service>>

-------------------------------------------------------------------------------
(* Android *)

\* onStart(): the service is started and bound, and created if need be.
ActivityStarts ==
    /\ activity # "on"
    /\ activity' = "on" /\ terminalView' = 0
    /\ service' = [alive |-> TRUE, started |-> TRUE]
    /\ IF service.alive THEN UNCHANGED <<sessions, sessionList, sessionOrder, currentSession>>
       ELSE sessions' = <<>> /\ sessionList' = {} /\ sessionOrder' = <<>> /\ currentSession' = MainId
    /\ UNCHANGED shell

\* onDestroy() of the service
ServiceDestroyed ==
    /\ service' = [alive |-> FALSE, started |-> FALSE]
    /\ shell' = FinishIfRunning(shell, Range(sessions))

\* onStop(): a service that nobody binds and that is not started is destroyed.
ActivityStops ==
    /\ activity # "off" /\ activity' = "off"
    /\ IF service.started THEN UNCHANGED <<service, shell>> ELSE ServiceDestroyed
    /\ UNCHANGED <<sessions, sessionList, sessionOrder, currentSession, terminalView>>

\* ACTION_EXIT, the button of the notification.
ExitTapped ==
    /\ service.alive /\ (activity = "off" \/ "exit" \in Slips)
    /\ IF activity = "off" THEN ServiceDestroyed
       ELSE service' = [service EXCEPT !.started = FALSE] /\ shell' = FinishIfRunning(shell, Range(sessions))
    /\ UNCHANGED <<sessions, sessionList, sessionOrder, currentSession, terminalView, activity>>

ShellEnds ==
    /\ \E t \in Terminals : shell[t] = "running" /\ shell' = [shell EXCEPT ![t] = "ended"]
    /\ UNCHANGED <<sessions, sessionList, sessionOrder, currentSession, terminalView, activity, service>>

SessionsInit ==
    /\ sessions = <<>> /\ sessionList = {} /\ sessionOrder = <<>> /\ currentSession = MainId
    /\ shell = <<>> /\ terminalView = 0 /\ activity = "off"
    /\ service = [alive |-> FALSE, started |-> FALSE]

SessionsNext ==
    \/ ViewCreated \/ NewSession \/ NewCustomSession \/ SwitchSession \/ CloseSession \/ EnterWhenEnded
    \/ DeleteSession \/ RenamedSession \/ MoveSession
    \/ ActivityStarts \/ ActivityStops \/ ExitTapped \/ ShellEnds

SessionsSpec == SessionsInit /\ [][SessionsNext]_sessionVars
-------------------------------------------------------------------------------
\* The three views of the sessions hold the same ids, each once.
ViewsAgree ==
    DOMAIN sessions = sessionList /\ ToSet(sessionOrder) = sessionList /\ Len(sessionOrder) = Cardinality(sessionList)

\* A shell that runs can be reached: its terminal is that of a session.
NoneOrphaned == \A t \in Terminals : shell[t] = "running" => t \in Range(sessions)

\* What Enter and the shortcuts close is what the user sees.
ShownIsCurrent ==
    Usable => currentSession \in DOMAIN sessions /\ sessions[currentSession] = terminalView

\* While a shell runs the service is started: to leave the app ends none.
StaysUp == (\E t \in Terminals : shell[t] = "running") => service.started

SessionsKept == ViewsAgree /\ NoneOrphaned /\ ShownIsCurrent /\ StaysUp
================================================================================
