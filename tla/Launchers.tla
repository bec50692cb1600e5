------------------------------- MODULE Launchers -------------------------------
(***************************************************************************)
(* Launchers with --etw that run beside each other and after each other:   *)
(* wmain (Main.cpp) from its arguments to its return code, composed of the *)
(* handover of Elevation and the session of EtwSession, with console       *)
(* control events (Ctrl+C) and launchers that are killed.                  *)
(*                                                                         *)
(* The target is abstracted to what wmain waits for: it is created,        *)
(* injected (Launch is about that part) and, at some time, ends.           *)
(***************************************************************************)
EXTENDS EtwSession, Elevation

CONSTANTS
  MaxKills,  \* bound: launchers killed
  MaxCtrl    \* bound: control events

ASSUME LauncherAssumption ==
  MaxKills \in Nat /\ MaxCtrl \in Nat

VARIABLES
  handler,   \* EtwCtrlHandler is registered
  ctrl,      \* where the thread of a control event is
  parent,    \* what ParentProcess returned: a launcher, "shell" or Nobody
  token,     \* the token of the target that was created
  env,       \* whose environment the target got
  recycled,  \* history: pids given out while somebody relied on them
  kills,     \* launchers killed so far
  presses    \* control events so far

mainVars == <<parent, token, env>>
ctrlVars == <<handler, ctrl, presses>>
vars == <<processVars, etwVars, elevationVars, mainVars, ctrlVars, recycled, kills>>

-----------------------------------------------------------------------------
(* Birth and death *)

\* Names that are about to be stopped, and pids that an elevated instance has
\* still to look up.
ReliedOn(n) ==
  {x \in {"sweep"} : \E p \in Process : condemned[p] = n}
  \cup {x \in {"begin"} : \E p \in Process : by[p] = n /\ main[p] \in {"open", "map", "attach"}}

Recycle(n) == recycled' = recycled \cup ReliedOn(n)

\* A user starts a launcher with --etw or without.  Elevated it is only with
\* --etw here: nothing else asks whether it is.
UserStarts(p, n) ==
  /\ Born(p, n, {}) /\ Recycle(n)
  /\ MoveTo(p, "decide")
  /\ \E a, w \in BOOLEAN : /\ a => w
                           /\ admin' = [admin EXCEPT ![p] = a]
                           /\ etw' = [etw EXCEPT ![p] = w]
  /\ console' = [console EXCEPT ![p] = p]
  /\ UNCHANGED <<etwVars, by, starter, orig, hdr, cstate, mainVars, ctrlVars, kills>>

UacStarts(o, e, n) ==
  /\ Accepted(o, e, n) /\ Recycle(n)
  /\ UNCHANGED <<etwVars, mainVars, ctrlVars, kills>>

\* A process ends, with all it had but its session.
Dies(p, ending) ==
  /\ Ends(p, ending) /\ MonitorGone(p) /\ LauncherGone(p)
  /\ handler' = [handler EXCEPT ![p] = FALSE]
  /\ ctrl' = [ctrl EXCEPT ![p] = "none"]
  /\ parent' = [parent EXCEPT ![p] = Nobody]
  /\ token' = [token EXCEPT ![p] = "none"]
  /\ env' = [env EXCEPT ![p] = Nobody]
  /\ UNCHANGED <<recycled, presses>>

Killed(p) ==
  /\ Alive(p) /\ kills < MaxKills
  /\ Dies(p, "killed")
  /\ kills' = kills + 1

-----------------------------------------------------------------------------
(* wmain *)

\* Nobody waits: wmain returns 6.
BeginFails(e) == NobodyWaits(e) /\ Dies(e, "returned") /\ UNCHANGED kills

\* wmain returns the exit code of the elevated instance.
WaitReturns(o) == WaitOver(o) /\ Dies(o, "returned") /\ UNCHANGED kills

\* An elevated instance looks for a parent for the target.
ChooseParent(p) ==
  /\ At(p, "parent")
  /\ MoveTo(p, "create")
  /\ \E r \in IF by[p] = 0 THEN {Nobody} ELSE Parents(p) :
       parent' = [parent EXCEPT ![p] = r]
  /\ UNCHANGED <<processVars, etwVars, admin, etw, by, starter, orig, hdr, cstate,
                 console, token, env, ctrlVars, recycled, kills>>

\* Without a parent the target gets the launcher's own token.
TokenOf(p) ==
  IF parent[p] = "shell" THEN "user"
  ELSE IF admin[IF parent[p] = Nobody THEN p ELSE parent[p]] THEN "admin" ELSE "user"

\* BuildEnvironment: that of the original if the handoff is there.
EnvOf(p) == IF parent[p] # Nobody /\ hdr[p] # Nobody THEN hdr[p] ELSE p

CreateTarget(p) ==
  /\ At(p, "create")
  /\ MoveTo(p, "inject")
  /\ token' = [token EXCEPT ![p] = TokenOf(p)]
  /\ env' = [env EXCEPT ![p] = EnvOf(p)]
  /\ UNCHANGED <<processVars, etwVars, admin, etw, by, starter, orig, hdr, cstate,
                 console, parent, ctrlVars, recycled, kills>>

\* The target cannot be created or injected: wmain returns 4 or 5.
StartFails(p) ==
  /\ main[p] \in {"create", "inject"}
  /\ Dies(p, "returned") /\ UNCHANGED kills

\* A step that moves wmain, and the monitor at most to a label.
Moves(p, to) ==
  /\ MoveTo(p, to)
  /\ UNCHANGED <<processVars, sessions, todo, condemned, session, orphans, denied,
                 admin, etw, by, starter, orig, hdr, cstate, console,
                 mainVars, ctrl, presses, recycled, kills>>

Injected(p) ==
  /\ At(p, "inject")
  /\ Moves(p, IF etw[p] THEN "etw" ELSE "run")
  /\ UNCHANGED <<mon, handler>>

CallStart(p) ==
  /\ At(p, "etw")
  /\ Moves(p, "starting")
  /\ GoTo(p, "start")
  /\ UNCHANGED handler

\* Start has returned; without a session wmain goes on.
StartReturns(p) ==
  /\ At(p, "starting")
  /\ \/ mon[p] = "running" /\ Moves(p, "handler")
     \/ mon[p] \in {"failed", "stopped"} /\ Moves(p, "run")
  /\ UNCHANGED <<mon, handler>>

RegisterHandler(p) ==
  /\ At(p, "handler")
  /\ Moves(p, "run")
  /\ handler' = [handler EXCEPT ![p] = TRUE]
  /\ UNCHANGED mon

\* External: the target ends.
TargetEnds(p) ==
  /\ At(p, "run")
  /\ Moves(p, "exited")
  /\ UNCHANGED <<mon, handler>>

\* Mutant: the handler is removed before the session is stopped.
CallStopUnhandled(p) ==
  /\ At(p, "exited")
  /\ IF mon[p] = "running"
     THEN Moves(p, "stopping") /\ GoTo(p, "stop")
     ELSE Moves(p, "finish") /\ UNCHANGED mon
  /\ handler' = [handler EXCEPT ![p] = FALSE]

\* After the render loop: Monitor::Stop if the session runs.
CallStop(p) ==
  /\ At(p, "exited")
  /\ IF mon[p] = "running"
     THEN Moves(p, "stopping") /\ GoTo(p, "stop")
     ELSE Moves(p, "finish") /\ UNCHANGED mon
  /\ UNCHANGED handler

\* Stop has returned: the handler is removed.
StopReturns(p) ==
  /\ At(p, "stopping") /\ mon[p] = "stopped"
  /\ Moves(p, "finish")
  /\ handler' = [handler EXCEPT ![p] = FALSE]
  /\ UNCHANGED mon

\* The summary is printed, and wmain returns the exit code of the target.
Return(p) == At(p, "finish") /\ Dies(p, "returned") /\ UNCHANGED kills

-----------------------------------------------------------------------------
(* Control events *)

\* Ctrl+C in a console goes to all processes attached to it, each of which
\* handles it on a thread of its own.
CtrlEvent(c) ==
  /\ presses < MaxCtrl /\ presses' = presses + 1
  /\ \E p \in Process : console[p] = c
  /\ ctrl' = [p \in Process |->
                IF console[p] = c /\ ctrl[p] = "none" THEN "pending" ELSE ctrl[p]]
  /\ UNCHANGED <<processVars, etwVars, elevationVars, mainVars, handler, recycled, kills>>

Handling(p, from, to) ==
  /\ ctrl[p] = from /\ ctrl' = [ctrl EXCEPT ![p] = to]
  /\ UNCHANGED <<processVars, elevationVars, mainVars, handler, presses, recycled, kills>>

WaitCtrlHandler(p) ==
  /\ Swallows(p)
  /\ Handling(p, "pending", "none")
  /\ UNCHANGED etwVars

EtwCtrlHandler(p) ==
  /\ handler[p]
  /\ Handling(p, "pending", "stop")
  /\ UNCHANGED etwVars

\* The default handling ends the process, early if its session runs and its
\* handler is not registered yet.
DefaultHandler(p) ==
  /\ ctrl[p] = "pending" /\ ~handler[p] /\ ~Swallows(p)
  /\ Dies(p, IF main[p] \in {"starting", "handler"} THEN "early" ELSE "control")
  /\ UNCHANGED kills

HandlerStops(p) == EmergencyStop(p) /\ Handling(p, "stop", "exit")

\* EtwCtrlHandler returns FALSE, and the default handling follows.
HandlerReturns(p) ==
  /\ ctrl[p] = "exit"
  /\ Dies(p, "control") /\ UNCHANGED kills

-----------------------------------------------------------------------------
(* Specification *)

Init ==
  /\ ProcessInit /\ EtwInit /\ ElevationInit
  /\ handler = [p \in Process |-> FALSE]
  /\ ctrl = [p \in Process |-> "none"]
  /\ parent = [p \in Process |-> Nobody]
  /\ token = [p \in Process |-> "none"]
  /\ env = [p \in Process |-> Nobody]
  /\ recycled = {} /\ kills = 0 /\ presses = 0

\* The steps of the components, beside which the rest does not move.
Handover(p) ==
  /\ ElevationStep(p)
  /\ UNCHANGED <<etwVars, mainVars, ctrlVars, recycled, kills>>

Monitoring(p) ==
  /\ MonitorStep(p)
  /\ UNCHANGED <<elevationVars, mainVars, ctrlVars, recycled, kills>>

Wmain(p) ==
  \/ BeginFails(p) \/ WaitReturns(p) \/ ChooseParent(p) \/ CreateTarget(p)
  \/ StartFails(p) \/ Injected(p) \/ CallStart(p) \/ StartReturns(p)
  \/ RegisterHandler(p) \/ CallStop(p) \/ StopReturns(p) \/ Return(p)

Control(p) ==
  \/ WaitCtrlHandler(p) \/ EtwCtrlHandler(p) \/ DefaultHandler(p)
  \/ HandlerStops(p) \/ HandlerReturns(p)

World ==
  \/ \E p \in Process, n \in Pid : UserStarts(p, n)
  \/ \E o, e \in Process, n \in Pid : UacStarts(o, e, n)
  \/ \E p \in Process : Killed(p) \/ TargetEnds(p) \/ CtrlEvent(p)

Next ==
  \/ \E p \in Process : Handover(p) \/ Monitoring(p) \/ Wmain(p) \/ Control(p)
  \/ World

Spec == Init /\ [][Next]_vars

-----------------------------------------------------------------------------
(* Properties *)

\* Every variable keeps its type, and what exists has a pid of its own.
TypeOK ==
  /\ ProcessTypeOK /\ EtwTypeOK /\ ElevationTypeOK
  /\ handler \in [Process -> BOOLEAN]
  /\ ctrl \in [Process -> {"none", "pending", "stop", "exit"}]
  /\ parent \in [Process -> Process \cup {"shell", Nobody}]
  /\ token \in [Process -> {"none", "user", "admin"}]
  /\ env \in [Process -> Process \cup {Nobody}]
  /\ recycled \subseteq {"sweep", "begin"}
  /\ kills \in 0..MaxKills /\ presses \in 0..MaxCtrl
  /\ \A p, q \in Process : Exists(p) /\ Exists(q) /\ pid[p] = pid[q] => p = q

\* A launcher that ends by itself, wherever it fails, or through its control
\* handler, leaves no session behind, though the handler runs beside wmain,
\* which may be in Stop itself.  Only being killed does, or Ctrl+C before wmain,
\* back from Start, has registered the handler, or Windows' refusal to stop it.
NoSessionLeft ==
  \A p \in sessions : Alive(p) \/ how[p] \in {"killed", "early"} \/ p \in denied[p]

\* The session of a live launcher is stopped by nobody but that launcher, as
\* the comment at StopStaleSessions says: another one that sweeps, or that has
\* the pid of a dead one, stops only what is stale.  The exception is a pid
\* that is given to a new launcher between the look at it and the stop.
LiveSessionsKept ==
  [][\A p \in sessions \ sessions' :
       Alive(p) /\ "sweep" \notin recycled => mon'[p] # mon[p] \/ ctrl'[p] # ctrl[p]]_vars

\* When a launcher comes to start its own session, what dead launchers had left
\* when it looked is gone, unless it was not allowed to stop it or another
\* process was born with the pid.
StaleSwept ==
  \A p \in Process : mon[p] = "trace" =>
    \A q \in (orphans[p] \cap sessions) \ denied[p] :
      \E r \in Process \ {q} : pid[r] = pid[q] /\ state[r] # "unborn"

\* The target of an elevated instance has the user's token, from the launcher
\* that asked for elevation or from the shell, and the environment of that
\* launcher or else of the instance itself: whatever ended in the meantime, the
\* pid on the command line has not led to another process.  There are two
\* exceptions, neither parent can be opened (the code warns), and the pid was
\* given to another process before Begin had looked it up.
TargetIsUsers ==
  \A e \in Process : by[e] # 0 /\ token[e] # "none" /\ "begin" \notin recycled =>
    /\ token[e] = "user" \/ parent[e] = Nobody
    /\ env[e] \in {e, starter[e]}
=============================================================================
