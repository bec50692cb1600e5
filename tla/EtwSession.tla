------------------------------ MODULE EtwSession ------------------------------
(***************************************************************************)
(* The ETW session of a launcher (EtwMonitor.cpp): Monitor::Start, Stop    *)
(* and EmergencyStop and StopStaleSessions, for all launchers that run at  *)
(* one time or another.  The consumer thread, which Stop waits for, is in  *)
(* module Launch; here the wait takes any time.                            *)
(*                                                                         *)
(* A real-time session lives in the kernel and outlives the process that   *)
(* started it.  Its name is made from the pid of the launcher, so that of  *)
(* a dead one may come to be the name of another.                          *)
(***************************************************************************)
EXTENDS Processes

CONSTANT
  MaxDenied  \* bound: sessions that somebody is not allowed to stop

VARIABLES
  sessions,   \* the kernel's sessions, each as the launcher that started it
  mon,        \* where a launcher is in Start or Stop
  todo,       \* names QueryAllTraces returned and the sweep has not looked at
  condemned,  \* the name that the sweep is about to stop, or 0
  session,    \* Impl::session is not 0
  orphans,    \* history: sessions that named no process when p queried
  denied      \* history: sessions that p was not allowed to stop

monitorVars == <<mon, todo, condemned, session>>
etwVars == <<sessions, monitorVars, orphans, denied>>

Monitors == {"idle", "start", "sweep", "trace", "enable", "open", "running",
             "stop", "join", "stopped", "failed"}

\* The sessions under the name of a pid (OwnSessionName).
NamedSessions(n) == {q \in sessions : pid[q] = n}

\* ControlTrace(STOP), which Windows may refuse: a launcher without elevation
\* may start a session and yet not stop that of an elevated one.  The callers
\* go on whatever the result.
ControlStop(p, S) ==
  \/ sessions' = sessions \ S /\ UNCHANGED denied
  \/ /\ S # {} /\ Cardinality(S \cup UNION {denied[q] : q \in Process}) <= MaxDenied
     /\ denied' = [denied EXCEPT ![p] = @ \cup S]
     /\ UNCHANGED sessions

StopByName(p, n) == ControlStop(p, NamedSessions(n))

GoTo(p, label) == mon' = [mon EXCEPT ![p] = label]

-----------------------------------------------------------------------------
(* Monitor::Start *)

\* The library's handler is created, or Create throws.  QueryAllTraces fails,
\* or lists all sessions.
Query(p) ==
  /\ mon[p] = "start"
  /\ \/ GoTo(p, "failed") /\ UNCHANGED <<todo, orphans>>
     \/ GoTo(p, "sweep") /\ UNCHANGED <<todo, orphans>>
     \/ /\ GoTo(p, "sweep")
        /\ todo' = [todo EXCEPT ![p] = {pid[q] : q \in sessions}]
        /\ orphans' = [orphans EXCEPT ![p] = {q \in sessions : ~PidAlive(pid[q])}]
  /\ UNCHANGED <<processVars, sessions, condemned, session, denied>>

\* Mutant: sessions of live launchers are taken for stale.
CheckNoName(p) ==
  /\ mon[p] = "sweep" /\ condemned[p] = 0
  /\ \E n \in todo[p] :
       /\ todo' = [todo EXCEPT ![p] = @ \ {n}]
       /\ condemned' = [condemned EXCEPT ![p] = IF n = pid[p] THEN 0 ELSE n]
  /\ UNCHANGED <<processVars, sessions, mon, session, orphans, denied>>

\* Mutant: the test of ProcessIsAlive is the wrong way round.
CheckAliveName(p) ==
  /\ mon[p] = "sweep" /\ condemned[p] = 0
  /\ \E n \in todo[p] :
       /\ todo' = [todo EXCEPT ![p] = @ \ {n}]
       /\ condemned' = [condemned EXCEPT ![p] =
                          IF n = pid[p] \/ ~PidAlive(n) THEN 0 ELSE n]
  /\ UNCHANGED <<processVars, sessions, mon, session, orphans, denied>>

\* The sweep passes over its own name and those of live processes.
CheckName(p) ==
  /\ mon[p] = "sweep" /\ condemned[p] = 0
  /\ \E n \in todo[p] :
       /\ todo' = [todo EXCEPT ![p] = @ \ {n}]
       /\ condemned' = [condemned EXCEPT ![p] =
                          IF n = pid[p] \/ PidAlive(n) THEN 0 ELSE n]
  /\ UNCHANGED <<processVars, sessions, mon, session, orphans, denied>>

\* It stops the others, by name.
StopStaleSession(p) ==
  /\ mon[p] = "sweep" /\ condemned[p] # 0
  /\ StopByName(p, condemned[p])
  /\ condemned' = [condemned EXCEPT ![p] = 0]
  /\ UNCHANGED <<processVars, mon, todo, session, orphans>>

\* Our own name may be left from an earlier process with our pid.
StopOwnName(p) ==
  /\ mon[p] = "sweep" /\ todo[p] = {} /\ condemned[p] = 0
  /\ StopByName(p, pid[p])
  /\ GoTo(p, "trace")
  /\ UNCHANGED <<processVars, todo, condemned, session, orphans>>

StartTrace(p) ==
  /\ mon[p] = "trace"
  /\ orphans' = [orphans EXCEPT ![p] = {}]
  /\ \/ GoTo(p, "failed") /\ UNCHANGED <<sessions, session>>
     \/ /\ NamedSessions(pid[p]) = {}
        /\ sessions' = sessions \cup {p}
        /\ session' = [session EXCEPT ![p] = TRUE]
        /\ GoTo(p, "enable")
  /\ UNCHANGED <<processVars, todo, condemned, denied>>

\* Both providers are enabled, or Start undoes what it has done.
EnableProviders(p) ==
  /\ mon[p] = "enable"
  /\ GoTo(p, "stop") \/ GoTo(p, "open")
  /\ UNCHANGED <<processVars, sessions, todo, condemned, session, orphans, denied>>

OpenTrace(p) ==
  /\ mon[p] = "open"
  /\ GoTo(p, "stop") \/ GoTo(p, "running")
  /\ UNCHANGED <<processVars, sessions, todo, condemned, session, orphans, denied>>

-----------------------------------------------------------------------------
(* Monitor::Stop *)

\* The session is stopped by its handle ...
StopSession(p) ==
  /\ mon[p] = "stop"
  /\ ControlStop(p, {q \in sessions : q = p /\ session[p]})
  /\ session' = [session EXCEPT ![p] = FALSE]
  /\ GoTo(p, "join")
  /\ UNCHANGED <<processVars, todo, condemned, orphans>>

\* ... and the consumer joined, if there is one.
JoinConsumer(p) ==
  /\ mon[p] = "join"
  /\ GoTo(p, "stopped")
  /\ UNCHANGED <<processVars, sessions, todo, condemned, session, orphans, denied>>

\* Monitor::EmergencyStop, on the thread of a console handler, touches
\* nothing of the monitor.
EmergencyStop(p) ==
  /\ StopByName(p, pid[p])
  /\ UNCHANGED <<monitorVars, orphans>>

\* The end of the process takes the monitor and its threads with it, and
\* leaves the session.
MonitorGone(p) ==
  /\ GoTo(p, "idle")
  /\ todo' = [todo EXCEPT ![p] = {}]
  /\ condemned' = [condemned EXCEPT ![p] = 0]
  /\ session' = [session EXCEPT ![p] = FALSE]
  /\ orphans' = [orphans EXCEPT ![p] = {}]
  /\ UNCHANGED <<sessions, denied>>

-----------------------------------------------------------------------------

EtwInit ==
  /\ sessions = {}
  /\ mon = [p \in Process |-> "idle"]
  /\ todo = [p \in Process |-> {}]
  /\ condemned = [p \in Process |-> 0]
  /\ session = [p \in Process |-> FALSE]
  /\ orphans = [p \in Process |-> {}]
  /\ denied = [p \in Process |-> {}]

MonitorStep(p) ==
  \/ Query(p) \/ CheckName(p) \/ StopStaleSession(p) \/ StopOwnName(p)
  \/ StartTrace(p) \/ EnableProviders(p) \/ OpenTrace(p)
  \/ StopSession(p) \/ JoinConsumer(p)

EtwTypeOK ==
  /\ sessions \subseteq Process
  /\ mon \in [Process -> Monitors]
  /\ todo \in [Process -> SUBSET (Pid \cup {0})]
  /\ condemned \in [Process -> Pid \cup {0}]
  /\ session \in [Process -> BOOLEAN]
  /\ orphans \in [Process -> SUBSET Process]
  /\ denied \in [Process -> SUBSET Process]
=============================================================================
