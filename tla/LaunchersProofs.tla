-------------------------- MODULE LaunchersProofs ---------------------------
(***************************************************************************)
(* Theorems about Launchers, for any number of processes, pids, kills and  *)
(* control events.                                                         *)
(***************************************************************************)
EXTENDS Launchers, TLAPS

-----------------------------------------------------------------------------
(* Types *)

MainTypeOK ==
  /\ handler \in [Process -> BOOLEAN]
  /\ ctrl \in [Process -> {"none", "pending", "stop", "exit"}]
  /\ parent \in [Process -> Process \cup {"shell", Nobody}]
  /\ token \in [Process -> {"none", "user", "admin"}]
  /\ env \in [Process -> Process \cup {Nobody}]
  /\ recycled \subseteq {"sweep", "begin"}
  /\ kills \in 0..MaxKills /\ presses \in 0..MaxCtrl

Types == ProcessTypeOK /\ EtwTypeOK /\ ElevationTypeOK /\ MainTypeOK

\* No two processes that exist have one pid.
OwnPids ==
  \A p, q \in Process : Exists(p) /\ Exists(q) /\ pid[p] = pid[q] => p = q

\* Whom a pid names.
LEMMA NamedIs ==
  ASSUME NEW n
  PROVE  /\ Named(n) = Nobody => ~\E p \in Process : Exists(p) /\ pid[p] = n
         /\ Named(n) # Nobody =>
              Named(n) \in Process /\ Exists(Named(n)) /\ pid[Named(n)] = n
<1>1. CASE \E p \in Process : Exists(p) /\ pid[p] = n
  <2> DEFINE c == CHOOSE p \in Process : Exists(p) /\ pid[p] = n
  <2>1. c \in Process /\ Exists(c) /\ pid[c] = n
    BY <1>1
  <2>2. Named(n) = c
    BY <1>1 DEF Named
  <2> HIDE DEF c
  <2>3. QED
    BY <2>1, <2>2, ProcessAssumption
<1>2. CASE ~\E p \in Process : Exists(p) /\ pid[p] = n
  BY <1>2 DEF Named
<1>3. QED
  BY <1>1, <1>2

\* The end of a process.
LEMMA DiesTypes ==
  ASSUME Types, NEW p \in Process, NEW ending \in Endings, Dies(p, ending),
         kills' \in 0..MaxKills
  PROVE  Types'
<1> USE DEF Types, Dies
<1>1. ProcessTypeOK'
  BY DEF ProcessTypeOK, Ends
<1>2. EtwTypeOK'
  BY DEF EtwTypeOK, MonitorGone, GoTo, Monitors
<1>3. ElevationTypeOK'
  BY DEF ElevationTypeOK, LauncherGone, MoveTo, Mains
<1>4. MainTypeOK'
  BY DEF MainTypeOK
<1>5. QED
  BY <1>1, <1>2, <1>3, <1>4

\* The birth of a process.
LEMMA BornTypes ==
  ASSUME ProcessTypeOK, NEW p \in Process, NEW n \in Pid, NEW openers, Born(p, n, openers)
  PROVE  ProcessTypeOK'
  BY DEF ProcessTypeOK, Born

\* A step of Elevation.
LEMMA HandoverTypes ==
  ASSUME Types, NEW p \in Process, Handover(p)
  PROVE  Types'
<1> USE DEF Types, Handover, processVars, etwVars, monitorVars, mainVars, ctrlVars
<1>1. EtwTypeOK' /\ MainTypeOK'
  BY DEF EtwTypeOK, MainTypeOK
<1>2. ASSUME NEW e \in Process, Original(e) # Nobody
      PROVE  Original(e) \in Process
  BY <1>2, NamedIs DEF Original
<1>3. ProcessTypeOK'
  <2>1. CASE OpenOriginal(p)
    BY <1>2, <2>1 DEF OpenOriginal, ProcessTypeOK
  <2>2. CASE ~OpenOriginal(p)
    <3>1. UNCHANGED processVars
      BY <2>2 DEF ElevationStep, Decide, Declined, NoHandle, BeginWait, OpenHandoff, SwitchConsole,
         PublishConsole
    <3>2. QED
      BY <3>1 DEF ProcessTypeOK
  <2>3. QED
    BY <2>1, <2>2
<1>4. ElevationTypeOK'
  <2> USE DEF ElevationTypeOK, MoveTo, At
  <2>1. CASE Decide(p)
    <3>1. main' \in [Process -> Mains]
      BY <2>1 DEF Decide, Mains
    <3>2. etw' \in [Process -> BOOLEAN]
      BY <2>1 DEF Decide
    <3>3. /\ hdr' \in [Process -> Process \cup {Nobody}]
          /\ cstate' \in [Process -> {"pending", "attached", "own"}]
      BY <2>1 DEF Decide
    <3>4. QED
      BY <2>1, <3>1, <3>2, <3>3 DEF Decide
  <2>2. CASE Declined(p) \/ NoHandle(p)
    BY <2>2 DEF Declined, NoHandle, GoOnAlone, Mains
  <2>3. CASE BeginWait(p)
    BY <2>3 DEF BeginWait, Mains
  <2>4. CASE OpenOriginal(p)
    BY <1>2, <2>4 DEF OpenOriginal, Mains
  <2>5. CASE OpenHandoff(p)
    BY <2>5 DEF OpenHandoff, Mappings, Mains
  <2>6. CASE SwitchConsole(p)
    <3>1. \A q \in Process : console[q] \in Process \cup {Nobody}
      OBVIOUS
    <3>2. PICK c \in Process \cup {Nobody} : console' = [console EXCEPT ![p] = c]
      BY <1>2, <2>6, <3>1, Zenon DEF SwitchConsole
    <3>3. QED
      BY <2>6, <3>2 DEF SwitchConsole, Mains
  <2>7. CASE PublishConsole(p)
    BY <2>7 DEF PublishConsole, Mains
  <2>8. QED
    BY <2>1, <2>2, <2>3, <2>4, <2>5, <2>6, <2>7 DEF ElevationStep
<1>5. QED
  BY <1>1, <1>3, <1>4

\* What is left of the sessions S after p's stop of them, refused or not.
Stopped(p, S) ==
  /\ sessions' \subseteq sessions /\ sessions \ sessions' \subseteq S
  /\ S \cap sessions' \subseteq denied'[p] /\ denied[p] \subseteq denied'[p]
  /\ denied' \in [Process -> SUBSET Process]
  /\ \A x \in Process \ {p} : denied'[x] = denied[x]

LEMMA ControlStopIs ==
  ASSUME EtwTypeOK, NEW p \in Process, NEW S, S \subseteq sessions, ControlStop(p, S)
  PROVE  Stopped(p, S)
<1>1. CASE sessions' = sessions \ S /\ UNCHANGED denied
  BY <1>1 DEF EtwTypeOK, Stopped
<1>2. CASE denied' = [denied EXCEPT ![p] = @ \cup S] /\ UNCHANGED sessions
  BY <1>2 DEF EtwTypeOK, Stopped
<1>3. QED
  BY <1>1, <1>2 DEF ControlStop

LEMMA StopByNameIs ==
  ASSUME EtwTypeOK, NEW p \in Process, NEW n, StopByName(p, n)
  PROVE  Stopped(p, NamedSessions(n))
<1>1. NamedSessions(n) \subseteq sessions
  BY DEF NamedSessions
<1>2. ControlStop(p, NamedSessions(n))
  BY DEF StopByName
<1>3. QED
  BY <1>1, <1>2, ControlStopIs

\* The sessions that Monitor::Stop stops.
OwnSession(p) == {q \in sessions : q = p /\ session[p]}

LEMMA StopSessionIs ==
  ASSUME EtwTypeOK, NEW p \in Process, StopSession(p)
  PROVE  Stopped(p, OwnSession(p))
<1>1. OwnSession(p) \subseteq sessions
  BY DEF OwnSession
<1>2. ControlStop(p, OwnSession(p))
  BY DEF StopSession, OwnSession
<1>3. QED
  BY <1>1, <1>2, ControlStopIs

\* A step of EtwSession.
LEMMA MonitorTypes ==
  ASSUME Types, NEW p \in Process, Monitoring(p)
  PROVE  Types'
<1>1. MonitorStep(p)
  BY DEF Monitoring
<1>2. UNCHANGED processVars
  BY <1>1 DEF MonitorStep, Query, CheckName, StopStaleSession, StopOwnName, StartTrace,
     EnableProviders, OpenTrace, StopSession, JoinConsumer
<1>3. UNCHANGED <<elevationVars, mainVars, ctrlVars, recycled, kills>>
  BY DEF Monitoring
<1>4. ProcessTypeOK' /\ ElevationTypeOK' /\ MainTypeOK'
  BY <1>2, <1>3 DEF Types, processVars, elevationVars, mainVars, ctrlVars, ProcessTypeOK,
     ElevationTypeOK, MainTypeOK
<1>5. EtwTypeOK'
  <2> USE DEF Types, EtwTypeOK, GoTo, Monitors
  <2>1. CASE Query(p)
    <3>1. {pid[q] : q \in sessions} \in SUBSET (Pid \cup {0})
      BY DEF ProcessTypeOK
    <3>2. {q \in sessions : ~PidAlive(pid[q])} \in SUBSET Process
      OBVIOUS
    <3> DEFINE T == {pid[q] : q \in sessions}
               O == {q \in sessions : ~PidAlive(pid[q])}
    <3>3. /\ mon' = [mon EXCEPT ![p] = "failed"] \/ mon' = [mon EXCEPT ![p] = "sweep"]
          /\ todo' = todo \/ todo' = [todo EXCEPT ![p] = T]
          /\ orphans' = orphans \/ orphans' = [orphans EXCEPT ![p] = O]
          /\ UNCHANGED <<sessions, condemned, session, denied>>
      BY <2>1 DEF Query
    <3> HIDE DEF T, O
    <3>4. T \in SUBSET (Pid \cup {0}) /\ O \in SUBSET Process
      BY <3>1, <3>2 DEF T, O
    <3>5. QED
      BY <3>3, <3>4
  <2>2. CASE CheckName(p)
    BY <2>2 DEF CheckName
  <2>3. CASE StopStaleSession(p)
    <3>1. StopByName(p, condemned[p])
      BY <2>3 DEF StopStaleSession
    <3>2. QED
      BY <2>3, <3>1, StopByNameIs DEF StopStaleSession, Stopped
  <2>4. CASE StopOwnName(p)
    <3>1. StopByName(p, pid[p])
      BY <2>4 DEF StopOwnName
    <3>2. QED
      BY <2>4, <3>1, StopByNameIs DEF StopOwnName, Stopped
  <2>5. CASE StartTrace(p)
    <3>1. mon' \in [Process -> Monitors]
      BY <2>5 DEF StartTrace
    <3>2. sessions' \subseteq Process /\ session' \in [Process -> BOOLEAN]
      BY <2>5 DEF StartTrace
    <3>3. QED
      BY <2>5, <3>1, <3>2 DEF StartTrace
  <2>6. CASE EnableProviders(p)
    BY <2>6 DEF EnableProviders
  <2>7. CASE OpenTrace(p)
    BY <2>7 DEF OpenTrace
  <2>8. CASE StopSession(p)
    BY <2>8, StopSessionIs DEF StopSession, Stopped
  <2>9. CASE JoinConsumer(p)
    BY <2>9 DEF JoinConsumer
  <2>10. QED
    BY <1>1, <2>1, <2>2, <2>3, <2>4, <2>5, <2>6, <2>7, <2>8, <2>9 DEF MonitorStep
<1>6. QED
  BY <1>4, <1>5 DEF Types

\* wmain, but for the ends of the process.
Goes(p) ==
  \/ ChooseParent(p) \/ CreateTarget(p) \/ Injected(p) \/ CallStart(p) \/ StartReturns(p)
  \/ RegisterHandler(p) \/ TargetEnds(p) \/ CallStop(p) \/ StopReturns(p)

\* A step of wmain.
LEMMA GoesTypes ==
  ASSUME Types, NEW p \in Process, Goes(p)
  PROVE  Types'
<1> USE DEF Types, Moves, MoveTo, GoTo, At, processVars, etwVars, monitorVars, mainVars, ctrlVars
<1>1. ProcessTypeOK'
  <2>1. UNCHANGED processVars
    BY DEF Goes, ChooseParent, CreateTarget, Injected, CallStart, StartReturns,
       RegisterHandler, TargetEnds, CallStop, StopReturns
  <2>2. QED
    BY <2>1 DEF ProcessTypeOK
<1>2. CASE ChooseParent(p)
  <2>1. EtwTypeOK'
    BY <1>2 DEF ChooseParent, EtwTypeOK
  <2>2. ElevationTypeOK'
    BY <1>2 DEF ChooseParent, ElevationTypeOK, Mains
  <2>3. MainTypeOK'
    BY <1>2 DEF ChooseParent, MainTypeOK, Parents, ElevationTypeOK
  <2>4. QED
    BY <1>1, <2>1, <2>2, <2>3
<1>3. CASE CreateTarget(p)
  <2>1. EtwTypeOK'
    BY <1>3 DEF CreateTarget, EtwTypeOK
  <2>2. ElevationTypeOK'
    BY <1>3 DEF CreateTarget, ElevationTypeOK, Mains
  <2>3. MainTypeOK'
    BY <1>3 DEF CreateTarget, MainTypeOK, TokenOf, EnvOf, ElevationTypeOK
  <2>4. QED
    BY <1>1, <2>1, <2>2, <2>3
<1>4. CASE Injected(p) \/ CallStart(p) \/ StartReturns(p) \/ RegisterHandler(p)
           \/ TargetEnds(p) \/ CallStop(p) \/ StopReturns(p)
  <2>1. EtwTypeOK'
    BY <1>4 DEF Injected, CallStart, StartReturns, RegisterHandler, TargetEnds, CallStop,
       StopReturns, EtwTypeOK, Monitors
  <2>2. ElevationTypeOK'
    BY <1>4 DEF Injected, CallStart, StartReturns, RegisterHandler, TargetEnds, CallStop,
       StopReturns, ElevationTypeOK, Mains
  <2>3. MainTypeOK'
    BY <1>4 DEF Injected, CallStart, StartReturns, RegisterHandler, TargetEnds, CallStop,
       StopReturns, MainTypeOK
  <2>4. QED
    BY <1>1, <2>1, <2>2, <2>3
<1>5. QED
  BY <1>2, <1>3, <1>4 DEF Goes

\* What ends a process, and how.
Ending(p, ending) ==
  \/ Killed(p) /\ ending = "killed"
  \/ BeginFails(p) /\ ending = "returned"
  \/ WaitReturns(p) /\ ending = "returned"
  \/ StartFails(p) /\ ending = "returned"
  \/ Return(p) /\ ending = "returned"
  \/ /\ DefaultHandler(p)
     /\ ending = IF main[p] \in {"starting", "handler"} THEN "early" ELSE "control"
  \/ HandlerReturns(p) /\ ending = "control"

\* However a process ends, it loses all it had.
LEMMA EndingDies ==
  ASSUME Types, NEW p \in Process, NEW ending, Ending(p, ending)
  PROVE  Dies(p, ending) /\ ending \in Endings /\ kills' \in 0..MaxKills
<1>1. Dies(p, ending) /\ ending \in Endings /\ (Killed(p) \/ UNCHANGED kills)
  BY DEF Ending, Endings, Killed, BeginFails, WaitReturns, StartFails, Return, DefaultHandler,
     HandlerReturns
<1>2. Killed(p) => kills + 1 \in 0..MaxKills /\ kills' = kills + 1
  BY LauncherAssumption DEF Killed, Types, MainTypeOK
<1>3. QED
  BY <1>1, <1>2 DEF Types, MainTypeOK

\* A control event, and what the handlers do short of ending the process.
LEMMA ControlTypes ==
  ASSUME Types, NEW p \in Process,
         CtrlEvent(p) \/ WaitCtrlHandler(p) \/ EtwCtrlHandler(p) \/ HandlerStops(p)
  PROVE  Types'
<1>1. UNCHANGED <<processVars, elevationVars, mainVars, handler, recycled, kills>>
  BY DEF CtrlEvent, WaitCtrlHandler, EtwCtrlHandler, HandlerStops, Handling
<1>2. ProcessTypeOK' /\ ElevationTypeOK'
  BY <1>1 DEF Types, processVars, elevationVars, ProcessTypeOK, ElevationTypeOK
<1>3. EtwTypeOK'
  <2>1. CASE HandlerStops(p)
    <3>1. StopByName(p, pid[p]) /\ UNCHANGED <<monitorVars, orphans>>
      BY <2>1 DEF HandlerStops, EmergencyStop
    <3>2. QED
      BY <3>1, StopByNameIs DEF Types, Stopped, monitorVars, EtwTypeOK
  <2>2. CASE CtrlEvent(p) \/ WaitCtrlHandler(p) \/ EtwCtrlHandler(p)
    BY <2>2 DEF Types, CtrlEvent, WaitCtrlHandler, EtwCtrlHandler, etwVars, monitorVars, EtwTypeOK
  <2>3. QED
    BY <2>1, <2>2
<1>4. ctrl' \in [Process -> {"none", "pending", "stop", "exit"}] /\ presses' \in 0..MaxCtrl
  <2>1. CASE CtrlEvent(p)
    <3>1. presses + 1 \in 0..MaxCtrl
      BY <2>1, LauncherAssumption DEF CtrlEvent, Types, MainTypeOK
    <3>2. QED
      BY <2>1, <3>1 DEF CtrlEvent, Types, MainTypeOK
  <2>2. CASE WaitCtrlHandler(p) \/ EtwCtrlHandler(p) \/ HandlerStops(p)
    BY <2>2 DEF WaitCtrlHandler, EtwCtrlHandler, HandlerStops, Handling, Types, MainTypeOK
  <2>3. QED
    BY <2>1, <2>2
<1>5. MainTypeOK'
  BY <1>1, <1>4 DEF Types, MainTypeOK, mainVars
<1>6. QED
  BY <1>2, <1>3, <1>5 DEF Types

\* The start of a launcher.
LEMMA StartsTypes ==
  ASSUME Types, NEW p \in Process, NEW n \in Pid,
         UserStarts(p, n) \/ \E o \in Process : UacStarts(o, p, n)
  PROVE  Types'
<1>1. ProcessTypeOK'
  BY BornTypes DEF Types, UserStarts, UacStarts, Accepted
<1>2. EtwTypeOK'
  BY DEF UserStarts, UacStarts, Types, etwVars, monitorVars, EtwTypeOK
<1>3. recycled' \subseteq {"sweep", "begin"}
  BY DEF UserStarts, UacStarts, Recycle, ReliedOn, Types, MainTypeOK
<1>4. MainTypeOK'
  BY <1>3 DEF UserStarts, UacStarts, Types, MainTypeOK, mainVars, ctrlVars
<1>5. ElevationTypeOK'
  <2>1. CASE UserStarts(p, n)
    BY <2>1 DEF UserStarts, Types, ElevationTypeOK, MoveTo, Mains
  <2>2. ASSUME NEW o \in Process, UacStarts(o, p, n)
        PROVE  ElevationTypeOK'
    <3>1. pid[o] \in Pid \cup {0}
      BY DEF Types, ProcessTypeOK
    <3>2. QED
      BY <2>2, <3>1 DEF UacStarts, Accepted, Types, ElevationTypeOK, Mains
  <2>3. QED
    BY <2>1, <2>2
<1>6. QED
  BY <1>1, <1>2, <1>4, <1>5 DEF Types

\* What a step is.
LEMMA StepIs ==
  ASSUME [Next]_vars
  PROVE  \/ UNCHANGED vars
         \/ \E p \in Process :
              \/ Handover(p) \/ Monitoring(p) \/ Goes(p)
              \/ \E ending : Ending(p, ending)
              \/ CtrlEvent(p) \/ WaitCtrlHandler(p) \/ EtwCtrlHandler(p) \/ HandlerStops(p)
              \/ \E n \in Pid : UserStarts(p, n) \/ \E o \in Process : UacStarts(o, p, n)
<1>1. ASSUME NEW p \in Process, Wmain(p) \/ Control(p)
      PROVE  \/ Goes(p) \/ \E ending : Ending(p, ending)
             \/ WaitCtrlHandler(p) \/ EtwCtrlHandler(p) \/ HandlerStops(p)
  BY <1>1 DEF Wmain, Control, Goes, Ending
<1>2. ASSUME World
      PROVE  \E p \in Process :
               \/ \E ending : Ending(p, ending)
               \/ Goes(p) \/ CtrlEvent(p)
               \/ \E n \in Pid : UserStarts(p, n) \/ \E o \in Process : UacStarts(o, p, n)
  BY <1>2 DEF World, Goes, Ending
<1>3. QED
  BY <1>1, <1>2 DEF Next

\* Every step keeps the types.
LEMMA TypesStep == Types /\ [Next]_vars => Types'
<1> SUFFICES ASSUME Types, [Next]_vars PROVE Types'
  OBVIOUS
<1>1. CASE UNCHANGED vars
  BY <1>1 DEF vars, processVars, etwVars, monitorVars, elevationVars, mainVars, ctrlVars,
     Types, ProcessTypeOK, EtwTypeOK, ElevationTypeOK, MainTypeOK
<1>2. ASSUME NEW p \in Process, NEW ending, Ending(p, ending)
      PROVE  Types'
  BY <1>2, EndingDies, DiesTypes
<1>3. QED
  BY <1>1, <1>2, StepIs, HandoverTypes, MonitorTypes, GoesTypes, ControlTypes, StartsTypes

-----------------------------------------------------------------------------
(* One launcher *)

\* In wmain, before the session is started.
Before == {"decide", "uac", "shell", "wait", "open", "map", "attach", "publish",
           "parent", "create", "inject", "etw"}

\* In the monitor, while there is a session.
Tracing == {"enable", "open", "running", "stop"}

\* Where the monitor and the handler are when wmain is somewhere.
PlaceInv(x) ==
  /\ state[x] = "unborn" <=> main[x] = "none"
  /\ state[x] = "dead" <=> main[x] = "gone"
  /\ main[x] \in Before \cup {"none", "gone"} => mon[x] = "idle" /\ ~handler[x]
  /\ main[x] = "starting" => mon[x] # "idle" /\ ~handler[x]
  /\ main[x] = "handler" => mon[x] = "running" /\ ~handler[x]
  /\ main[x] \in {"run", "exited"} =>
       IF handler[x] THEN mon[x] = "running" ELSE mon[x] \in {"idle", "failed", "stopped"}
  /\ main[x] = "stopping" => mon[x] \in {"stop", "join", "stopped"} /\ handler[x]
  /\ main[x] = "finish" => mon[x] \in {"idle", "failed", "stopped"} /\ ~handler[x]

\* A session belongs to a monitor that will stop it, or was left behind.
SessionInv(x) ==
  /\ mon[x] \in Tracing => session[x]
  /\ x \in sessions =>
       \/ mon[x] \in Tracing
       \/ state[x] = "dead" /\ how[x] \in {"killed", "early"}
       \/ state[x] # "unborn" /\ x \in denied[x]

\* The thread of a control event, beside wmain.
CtrlInv(x) ==
  /\ console[x] # Nobody \/ ctrl[x] # "none" => Alive(x)
  /\ ctrl[x] \in {"stop", "exit"} =>
       /\ mon[x] \in {"running", "stop", "join", "stopped"}
       /\ main[x] \in {"run", "exited", "stopping", "finish"}
  /\ ctrl[x] = "exit" /\ x \in sessions => x \in denied[x]

\* A step of another process leaves x alone, but may stop its session.
LeavesAlone(x) ==
  /\ main'[x] = main[x] /\ state'[x] = state[x] /\ pid'[x] = pid[x] /\ how'[x] = how[x]
  /\ mon'[x] = mon[x] /\ session'[x] = session[x] /\ todo'[x] = todo[x]
  /\ condemned'[x] = condemned[x] /\ orphans'[x] = orphans[x] /\ denied'[x] = denied[x]
  /\ x \in sessions' => x \in sessions
  /\ handler'[x] = handler[x] /\ ctrl'[x] = ctrl[x] /\ console'[x] = console[x]
  /\ admin'[x] = admin[x] /\ by'[x] = by[x] /\ starter'[x] = starter[x]
  /\ orig'[x] = orig[x] /\ hdr'[x] = hdr[x]
  /\ parent'[x] = parent[x] /\ token'[x] = token[x] /\ env'[x] = env[x]

\* What is left alone keeps its invariant.
LEMMA LeftAlone ==
  ASSUME Types, NEW x \in Process, LeavesAlone(x)
  PROVE  (PlaceInv(x) => PlaceInv(x)') /\ (SessionInv(x) => SessionInv(x)')
         /\ (CtrlInv(x) => CtrlInv(x)')
  BY DEF LeavesAlone, PlaceInv, SessionInv, CtrlInv, Alive

\* The steps of p leave x alone: the end of p ...
LEMMA OthersDies ==
  ASSUME Types, NEW p \in Process, NEW x \in Process \ {p}, NEW ending, Dies(p, ending)
  PROVE  LeavesAlone(x)
  BY DEF Types, ProcessTypeOK, EtwTypeOK, ElevationTypeOK, MainTypeOK, Dies, Ends, MonitorGone,
     LauncherGone, MoveTo, GoTo, LeavesAlone

\* ... its steps in Elevation ...
LEMMA OthersHandover ==
  ASSUME Types, NEW p \in Process, NEW x \in Process \ {p}, Handover(p)
  PROVE  LeavesAlone(x)
<1>1. UNCHANGED <<etwVars, mainVars, ctrlVars>> /\ ElevationStep(p)
  BY DEF Handover
<1>2. UNCHANGED <<state, pid, how, admin, by, starter>>
  BY <1>1 DEF ElevationStep, Decide, Declined, NoHandle, GoOnAlone, BeginWait, OpenOriginal,
     OpenHandoff, SwitchConsole, PublishConsole, processVars
<1>3. main'[x] = main[x] /\ hdr'[x] = hdr[x]
  BY <1>1 DEF ElevationStep, Decide, Declined, NoHandle, GoOnAlone, BeginWait, OpenOriginal,
     OpenHandoff, SwitchConsole, PublishConsole, MoveTo, Types, ElevationTypeOK
<1>4. orig'[x] = orig[x] /\ console'[x] = console[x]
  BY <1>1 DEF ElevationStep, Decide, Declined, NoHandle, GoOnAlone, BeginWait, OpenOriginal,
     OpenHandoff, SwitchConsole, PublishConsole, Types, ElevationTypeOK
<1>5. QED
  BY <1>1, <1>2, <1>3, <1>4 DEF LeavesAlone, etwVars, monitorVars, mainVars, ctrlVars

\* ... in EtwSession, which may stop sessions of others ...
LEMMA OthersMonitoring ==
  ASSUME Types, NEW p \in Process, NEW x \in Process \ {p}, Monitoring(p)
  PROVE  LeavesAlone(x)
<1>1. /\ UNCHANGED <<elevationVars, mainVars, ctrlVars>>
      /\ MonitorStep(p)
  BY DEF Monitoring
<1>2. UNCHANGED processVars
  BY <1>1 DEF MonitorStep, Query, CheckName, StopStaleSession, StopOwnName, StartTrace,
     EnableProviders, OpenTrace, StopSession, JoinConsumer
<1>3. mon'[x] = mon[x]
  BY <1>1 DEF MonitorStep, Query, CheckName, StopStaleSession, StopOwnName, StartTrace,
     EnableProviders, OpenTrace, StopSession, JoinConsumer, GoTo, Types,
     EtwTypeOK
<1>4. session'[x] = session[x]
  BY <1>1 DEF MonitorStep, Query, CheckName, StopStaleSession, StopOwnName, StartTrace,
     EnableProviders, OpenTrace, StopSession, JoinConsumer, Types,
     EtwTypeOK
<1>5. todo'[x] = todo[x] /\ condemned'[x] = condemned[x] /\ orphans'[x] = orphans[x]
  BY <1>1 DEF MonitorStep, Query, CheckName, StopStaleSession, StopOwnName, StartTrace,
     EnableProviders, OpenTrace, StopSession, JoinConsumer, Types,
     EtwTypeOK
<1>6. (x \in sessions' => x \in sessions) /\ denied'[x] = denied[x]
  <2>1. CASE StopStaleSession(p) \/ StopOwnName(p) \/ StopSession(p)
    <3>1. \E S : Stopped(p, S)
      BY <2>1, StopByNameIs, StopSessionIs DEF StopStaleSession, StopOwnName, Types
    <3>2. QED
      BY <3>1 DEF Stopped
  <2>2. CASE ~(StopStaleSession(p) \/ StopOwnName(p) \/ StopSession(p))
    BY <1>1, <2>2 DEF MonitorStep, Query, CheckName, StartTrace, EnableProviders, OpenTrace,
       JoinConsumer
  <2>3. QED
    BY <2>1, <2>2
<1>7. QED
  BY <1>1, <1>2, <1>3, <1>4, <1>5, <1>6
  DEF LeavesAlone, processVars, elevationVars, mainVars, ctrlVars

\* ... in wmain ...
LEMMA OthersGoes ==
  ASSUME Types, NEW p \in Process, NEW x \in Process \ {p}, Goes(p)
  PROVE  LeavesAlone(x)
<1> USE DEF Types, processVars, etwVars, monitorVars, elevationVars, mainVars, ctrlVars, MoveTo
<1>1. CASE ChooseParent(p)
  BY <1>1 DEF ChooseParent, ElevationTypeOK, MainTypeOK, LeavesAlone
<1>2. CASE CreateTarget(p)
  BY <1>2 DEF CreateTarget, ElevationTypeOK, MainTypeOK, LeavesAlone
<1>3. CASE Injected(p) \/ CallStart(p) \/ StartReturns(p) \/ RegisterHandler(p)
           \/ TargetEnds(p) \/ CallStop(p) \/ StopReturns(p)
  <2>1. \E to : Moves(p, to)
    BY <1>3 DEF Injected, CallStart, StartReturns, RegisterHandler, TargetEnds, CallStop,
       StopReturns
  <2>2. mon'[x] = mon[x] /\ handler'[x] = handler[x]
    BY <1>3 DEF Injected, CallStart, StartReturns, RegisterHandler, TargetEnds, CallStop,
       StopReturns, Moves, GoTo, EtwTypeOK, MainTypeOK
  <2>3. QED
    BY <2>1, <2>2 DEF Moves, ElevationTypeOK, LeavesAlone
<1>4. QED
  BY <1>1, <1>2, <1>3 DEF Goes

\* ... and in its control handlers.
LEMMA OthersControl ==
  ASSUME Types, NEW p \in Process, NEW x \in Process \ {p},
         WaitCtrlHandler(p) \/ EtwCtrlHandler(p) \/ HandlerStops(p)
  PROVE  LeavesAlone(x)
<1>1. UNCHANGED <<processVars, elevationVars, mainVars, handler>> /\ ctrl'[x] = ctrl[x]
  BY DEF WaitCtrlHandler, EtwCtrlHandler, HandlerStops, Handling, Types, MainTypeOK
<1>2. /\ UNCHANGED <<monitorVars, orphans>> /\ denied'[x] = denied[x]
      /\ x \in sessions' => x \in sessions
  <2>1. CASE HandlerStops(p)
    <3>1. StopByName(p, pid[p]) /\ UNCHANGED <<monitorVars, orphans>>
      BY <2>1 DEF HandlerStops, EmergencyStop
    <3>2. QED
      BY <3>1, StopByNameIs DEF Types, Stopped
  <2>2. CASE WaitCtrlHandler(p) \/ EtwCtrlHandler(p)
    BY <2>2 DEF WaitCtrlHandler, EtwCtrlHandler, etwVars
  <2>3. QED
    BY <2>1, <2>2
<1>3. QED
  BY <1>1, <1>2 DEF processVars, elevationVars, mainVars, monitorVars, LeavesAlone

\* A process that is born; the one that asked for it only returns from
\* ShellExecuteEx.
LEMMA OthersStarts ==
  ASSUME Types, NEW p \in Process, NEW n \in Pid, NEW x \in Process \ {p}
  PROVE  /\ UserStarts(p, n) => LeavesAlone(x)
         /\ \A o \in Process : UacStarts(o, p, n) /\ x # o => LeavesAlone(x)
<1> USE DEF Types, ProcessTypeOK, ElevationTypeOK, Born, LeavesAlone, etwVars, monitorVars,
        mainVars, ctrlVars
<1>1. CASE UserStarts(p, n)
  BY <1>1 DEF UserStarts, MoveTo
<1>2. ASSUME NEW o \in Process, UacStarts(o, p, n), x # o
      PROVE  LeavesAlone(x)
  BY <1>2 DEF UacStarts, Accepted
<1>3. QED
  BY <1>1, <1>2

Local(x) == PlaceInv(x) /\ SessionInv(x) /\ CtrlInv(x)

\* Elevation is over before the session starts.
LEMMA HandoverLocal ==
  ASSUME Types, NEW p \in Process, Handover(p), Local(p)
  PROVE  Local(p)'
<1>1. UNCHANGED <<etwVars, mainVars, ctrlVars, state, pid, how>> /\ ElevationStep(p)
  BY DEF Handover, ElevationStep, Decide, Declined, NoHandle, GoOnAlone, BeginWait, OpenOriginal,
     OpenHandoff, SwitchConsole, PublishConsole, processVars
<1>2. main[p] \in Before /\ main'[p] \in Before
  BY <1>1 DEF ElevationStep, Decide, Declined, NoHandle, GoOnAlone, BeginWait, OpenOriginal,
     OpenHandoff, SwitchConsole, PublishConsole, MoveTo, At, Types, ElevationTypeOK, Before
<1>3. main[p] \notin {"none", "gone"} /\ main'[p] \notin {"none", "gone"}
      /\ state[p] \in {"unborn", "alive", "dead"}
  BY <1>2 DEF Before, Types, ProcessTypeOK
<1>4. Alive(p) /\ UNCHANGED <<state, ctrl, mon, handler, session, sessions, denied, how>>
  BY <1>1, <1>3 DEF Alive, Local, PlaceInv, etwVars, monitorVars, ctrlVars
<1>5. PlaceInv(p)'
  BY <1>2, <1>3, <1>4 DEF Local, PlaceInv, Before
<1>6. SessionInv(p)'
  BY <1>4 DEF Local, SessionInv
<1>7. CtrlInv(p)'
  BY <1>2, <1>4 DEF Local, CtrlInv, Before, Alive
<1>8. QED
  BY <1>5, <1>6, <1>7 DEF Local

\* Start and Stop, from step to step.
LEMMA MonitoringLocal ==
  ASSUME Types, NEW p \in Process, Monitoring(p), Local(p)
  PROVE  Local(p)'
<1>1. /\ UNCHANGED <<elevationVars, mainVars, ctrlVars>>
      /\ MonitorStep(p)
  BY DEF Monitoring
<1>2. UNCHANGED <<state, pid, how>>
  BY <1>1 DEF MonitorStep, Query, CheckName, StopStaleSession, StopOwnName, StartTrace,
     EnableProviders, OpenTrace, StopSession, JoinConsumer, processVars
<1>3. UNCHANGED <<main, handler, ctrl, console>>
  BY <1>1 DEF elevationVars, ctrlVars
<1> USE DEF Local, Types, EtwTypeOK, GoTo
<1>4. CASE /\ UNCHANGED <<mon, session>> /\ denied[p] \subseteq denied'[p]
           /\ p \in sessions' => p \in sessions
  BY <1>2, <1>3, <1>4 DEF PlaceInv, SessionInv, CtrlInv, Alive
<1>5. CASE CheckName(p) \/ StopStaleSession(p)
  <2>1. CASE CheckName(p)
    BY <1>4, <2>1 DEF CheckName
  <2>2. CASE StopStaleSession(p)
    <3>1. StopByName(p, condemned[p]) /\ UNCHANGED <<mon, session>>
      BY <2>2 DEF StopStaleSession
    <3>2. QED
      BY <1>4, <3>1, StopByNameIs DEF Stopped
  <2>3. QED
    BY <1>5, <2>1, <2>2
<1>6. CASE Query(p)
  <2>1. /\ mon[p] = "start" /\ mon'[p] \in {"failed", "sweep"}
        /\ UNCHANGED <<session, sessions, denied>>
    BY <1>6 DEF Query
  <2>2. QED
    BY <1>2, <1>3, <2>1 DEF PlaceInv, SessionInv, CtrlInv, Alive, Tracing
<1>7. CASE StopOwnName(p)
  <2>1. mon[p] = "sweep" /\ mon'[p] = "trace" /\ UNCHANGED session
        /\ (p \in sessions' => p \in sessions) /\ denied[p] \subseteq denied'[p]
    BY <1>7, StopByNameIs DEF StopOwnName, Stopped
  <2>2. QED
    BY <1>2, <1>3, <2>1 DEF PlaceInv, SessionInv, CtrlInv, Alive, Tracing
<1>8. CASE StartTrace(p)
  <2>1. /\ mon[p] = "trace"
        /\ \/ mon'[p] = "failed" /\ UNCHANGED <<session, sessions, denied>>
           \/ mon'[p] = "enable" /\ session'[p] = TRUE
    BY <1>8 DEF StartTrace
  <2>2. PlaceInv(p)'
    BY <1>2, <1>3, <2>1 DEF PlaceInv
  <2>3. SessionInv(p)'
    BY <1>2, <2>1 DEF SessionInv, Tracing
  <2>4. CtrlInv(p)'
    BY <1>2, <1>3, <2>1 DEF CtrlInv, Alive
  <2>5. QED
    BY <2>2, <2>3, <2>4
<1>9. CASE EnableProviders(p) \/ OpenTrace(p)
  <2>1. /\ mon[p] \in {"enable", "open"} /\ mon'[p] \in {"stop", "open", "running"}
        /\ UNCHANGED <<session, sessions, denied>>
    BY <1>9 DEF EnableProviders, OpenTrace
  <2>2. QED
    BY <1>2, <1>3, <2>1 DEF PlaceInv, SessionInv, CtrlInv, Alive, Tracing
<1>10. CASE StopSession(p)
  <2>1. mon[p] = "stop" /\ mon'[p] = "join" /\ Stopped(p, OwnSession(p))
    BY <1>10, StopSessionIs DEF StopSession
  <2>2. session[p]
    BY <2>1 DEF SessionInv, Tracing
  <2>3. p \in sessions' => p \in sessions /\ p \in denied'[p]
    BY <2>1, <2>2 DEF Stopped, OwnSession
  <2>4. QED
    BY <1>2, <1>3, <2>1, <2>3 DEF PlaceInv, SessionInv, CtrlInv, Alive, Tracing
<1>11. CASE JoinConsumer(p)
  <2>1. mon[p] = "join" /\ mon'[p] = "stopped" /\ UNCHANGED <<session, sessions, denied>>
    BY <1>11 DEF JoinConsumer
  <2>2. QED
    BY <1>2, <1>3, <2>1 DEF PlaceInv, SessionInv, CtrlInv, Alive, Tracing
<1>12. QED
  BY <1>1, <1>5, <1>6, <1>7, <1>8, <1>9, <1>10, <1>11 DEF MonitorStep

\* wmain calls Stop if Start had a session.
LEMMA GoesLocal ==
  ASSUME Types, NEW p \in Process, Goes(p), Local(p)
  PROVE  Local(p)'
<1>1. UNCHANGED <<state, how, sessions, session, denied, console, ctrl>>
  BY DEF Goes, ChooseParent, CreateTarget, Injected, CallStart, StartReturns,
     RegisterHandler, TargetEnds, CallStop, StopReturns, Moves, processVars, etwVars,
     monitorVars, ctrlVars
<1>2. ASSUME NEW to, MoveTo(p, to)
      PROVE  main'[p] = to
  BY <1>2 DEF MoveTo, Types, ElevationTypeOK
<1> USE DEF Types, EtwTypeOK, MainTypeOK, At, GoTo
<1>3. CASE ChooseParent(p) \/ CreateTarget(p) \/ Injected(p)
  <2>1. /\ main[p] \in {"parent", "create", "inject"} /\ UNCHANGED <<mon, handler>>
        /\ main'[p] \in {"create", "inject", "etw", "run"}
    BY <1>2, <1>3 DEF ChooseParent, CreateTarget, Injected, Moves, etwVars, monitorVars, ctrlVars
  <2>2. QED
    BY <1>1, <2>1 DEF Local, PlaceInv, SessionInv, CtrlInv, Alive, Before
<1>4. CASE CallStart(p)
  <2>1. main[p] = "etw" /\ main'[p] = "starting" /\ mon'[p] = "start" /\ UNCHANGED handler
    BY <1>2, <1>4 DEF CallStart, Moves
  <2>2. QED
    BY <1>1, <2>1 DEF Local, PlaceInv, SessionInv, CtrlInv, Alive, Before, Tracing
<1>5. CASE StartReturns(p) \/ RegisterHandler(p) \/ TargetEnds(p)
  <2>1. /\ UNCHANGED mon
        /\ \/ /\ main[p] = "starting" /\ UNCHANGED handler
              /\ IF mon[p] = "running" THEN main'[p] = "handler"
                 ELSE mon[p] \in {"failed", "stopped"} /\ main'[p] = "run"
           \/ main[p] = "handler" /\ main'[p] = "run" /\ handler'[p] = TRUE
           \/ main[p] = "run" /\ main'[p] = "exited" /\ UNCHANGED handler
    BY <1>2, <1>5 DEF StartReturns, RegisterHandler, TargetEnds, Moves
  <2>2. PlaceInv(p)'
    BY <1>1, <2>1 DEF Local, PlaceInv, Before
  <2>3. SessionInv(p)' /\ CtrlInv(p)'
    BY <1>1, <2>1 DEF Local, SessionInv, CtrlInv, Alive
  <2>4. QED
    BY <2>2, <2>3 DEF Local
<1>6. CASE CallStop(p)
  <2>1. /\ main[p] = "exited" /\ UNCHANGED handler
        /\ IF mon[p] = "running" THEN main'[p] = "stopping" /\ mon'[p] = "stop"
           ELSE main'[p] = "finish" /\ UNCHANGED mon
    BY <1>2, <1>6 DEF CallStop, Moves
  <2>2. PlaceInv(p)'
    BY <1>1, <2>1 DEF Local, PlaceInv, Before
  <2>3. SessionInv(p)' /\ CtrlInv(p)'
    BY <1>1, <2>1 DEF Local, SessionInv, CtrlInv, Alive, Tracing
  <2>4. QED
    BY <2>2, <2>3 DEF Local
<1>7. CASE StopReturns(p)
  <2>1. /\ main[p] = "stopping" /\ mon[p] = "stopped" /\ UNCHANGED mon
        /\ main'[p] = "finish" /\ handler'[p] = FALSE
    BY <1>2, <1>7 DEF StopReturns, Moves
  <2>2. QED
    BY <1>1, <2>1 DEF Local, PlaceInv, SessionInv, CtrlInv, Alive, Before
<1>8. QED
  BY <1>3, <1>4, <1>5, <1>6, <1>7 DEF Goes

\* What has ended by itself has stopped its session before.
LEMMA EndingLocal ==
  ASSUME Types, NEW p \in Process, NEW ending, Ending(p, ending), Local(p)
  PROVE  Local(p)'
<1>1. Dies(p, ending)
  BY EndingDies
<1>2. p \in sessions => ending \in {"killed", "early"} \/ p \in denied[p]
  <2> SUFFICES ASSUME p \in sessions, p \notin denied[p] PROVE ending \in {"killed", "early"}
    OBVIOUS
  <2>1. mon[p] \in Tracing \/ state[p] = "dead"
    BY DEF Local, SessionInv
  <2>2. main[p] \in {"starting", "handler", "run", "exited", "stopping", "gone"}
    <3>1. main[p] \in Mains
      BY DEF Types, ElevationTypeOK
    <3>2. main[p] \notin Before \cup {"none", "finish"}
      BY <2>1 DEF Local, PlaceInv, Tracing, Before
    <3>3. QED
      BY <3>1, <3>2 DEF Mains, Before
  <2>3. main[p] \in {"run", "exited", "stopping"} => handler[p]
    BY <2>1 DEF Local, PlaceInv, Tracing
  <2>4. CASE Killed(p) /\ ending = "killed"
    BY <2>4
  <2>5. CASE BeginFails(p) \/ WaitReturns(p) \/ StartFails(p) \/ Return(p)
    BY <2>2, <2>5 DEF BeginFails, NobodyWaits, WaitReturns, WaitOver, StartFails, Return, At
  <2>6. CASE /\ DefaultHandler(p)
             /\ ending = IF main[p] \in {"starting", "handler"} THEN "early" ELSE "control"
    <3>1. ctrl[p] = "pending" /\ ~handler[p]
      BY <2>6 DEF DefaultHandler
    <3>2. main[p] # "gone"
      BY <3>1 DEF Local, CtrlInv, PlaceInv, Alive
    <3>3. QED
      BY <2>2, <2>3, <2>6, <3>1, <3>2
  <2>7. CASE HandlerReturns(p)
    BY <2>7 DEF HandlerReturns, Local, CtrlInv
  <2>8. QED
    BY <2>4, <2>5, <2>6, <2>7 DEF Ending
<1>3. /\ state'[p] = "dead" /\ how'[p] = ending /\ main'[p] = "gone" /\ mon'[p] = "idle"
      /\ handler'[p] = FALSE /\ console'[p] = Nobody /\ ctrl'[p] = "none"
      /\ UNCHANGED <<sessions, denied>>
  BY <1>1 DEF Dies, Ends, MonitorGone, LauncherGone, MoveTo, GoTo, Types, ProcessTypeOK,
     EtwTypeOK, ElevationTypeOK, MainTypeOK
<1>4. QED
  BY <1>2, <1>3 DEF Local, PlaceInv, SessionInv, CtrlInv, Before, Tracing

\* The handler is there only while there is a session to stop.
LEMMA ControlLocal ==
  ASSUME Types, NEW p \in Process, Local(p),
         WaitCtrlHandler(p) \/ EtwCtrlHandler(p) \/ HandlerStops(p)
  PROVE  Local(p)'
<1>1. UNCHANGED <<main, state, how, mon, session, handler, console>>
  BY DEF WaitCtrlHandler, EtwCtrlHandler, HandlerStops, EmergencyStop, Handling, etwVars,
     monitorVars, processVars, elevationVars
<1>2. (p \in sessions' => p \in sessions) /\ denied[p] \subseteq denied'[p]
  <2>1. CASE HandlerStops(p)
    BY <2>1, StopByNameIs DEF HandlerStops, EmergencyStop, Types, Stopped
  <2>2. CASE WaitCtrlHandler(p) \/ EtwCtrlHandler(p)
    BY <2>2 DEF WaitCtrlHandler, EtwCtrlHandler, etwVars
  <2>3. QED
    BY <2>1, <2>2
<1>3. PlaceInv(p)' /\ SessionInv(p)'
  BY <1>1, <1>2 DEF Local, PlaceInv, SessionInv
<1>4. CtrlInv(p)'
  <2>1. CASE WaitCtrlHandler(p)
    <3>1. ctrl'[p] = "none" /\ ctrl[p] = "pending"
      BY <2>1 DEF WaitCtrlHandler, Handling, Types, MainTypeOK
    <3>2. QED
      BY <1>1, <3>1 DEF Local, CtrlInv, Alive
  <2>2. CASE EtwCtrlHandler(p)
    <3>1. ctrl'[p] = "stop" /\ ctrl[p] = "pending" /\ handler[p]
      BY <2>2 DEF EtwCtrlHandler, Handling, Types, MainTypeOK
    <3>2. main[p] \in {"run", "exited", "stopping"}
      <4>1. main[p] \in Mains
        BY DEF Types, ElevationTypeOK
      <4>2. main[p] \notin Before \cup {"none", "gone", "starting", "handler", "finish"}
        BY <3>1 DEF Local, PlaceInv
      <4>3. QED
        BY <4>1, <4>2 DEF Mains, Before
    <3>3. mon[p] \in {"running", "stop", "join", "stopped"}
      BY <3>1, <3>2 DEF Local, PlaceInv
    <3>4. QED
      BY <1>1, <3>1, <3>2, <3>3 DEF Local, CtrlInv, Alive
  <2>3. CASE HandlerStops(p)
    <3>1. ctrl'[p] = "exit" /\ ctrl[p] = "stop"
      BY <2>3 DEF HandlerStops, Handling, Types, MainTypeOK
    <3>2. p \in sessions' => p \in denied'[p]
      BY <2>3, StopByNameIs DEF HandlerStops, EmergencyStop, Types, Stopped, NamedSessions
    <3>3. QED
      BY <1>1, <3>1, <3>2 DEF Local, CtrlInv, Alive
  <2>4. QED
    BY <2>1, <2>2, <2>3
<1>5. QED
  BY <1>3, <1>4 DEF Local

\* A control event reaches only the living.
LEMMA CtrlEventLocal ==
  ASSUME Types, NEW c \in Process, CtrlEvent(c), NEW x \in Process, Local(x)
  PROVE  Local(x)'
<1>1. UNCHANGED <<main, state, how, mon, session, sessions, denied, handler, console>>
  BY DEF CtrlEvent, etwVars, monitorVars, processVars, elevationVars
<1>2. ctrl'[x] = ctrl[x] \/ (ctrl'[x] = "pending" /\ console[x] # Nobody)
  BY ProcessAssumption DEF CtrlEvent
<1>3. QED
  BY <1>1, <1>2 DEF Local, PlaceInv, SessionInv, CtrlInv, Alive

\* A new launcher has nothing yet.
LEMMA StartsLocal ==
  ASSUME Types, NEW p \in Process, NEW n \in Pid,
         UserStarts(p, n) \/ \E o \in Process : UacStarts(o, p, n),
         \A x \in Process : Local(x), NEW x \in Process
  PROVE  Local(x)'
<1>1. /\ state[p] = "unborn" /\ UNCHANGED <<etwVars, mainVars, ctrlVars, how>>
      /\ state' = [state EXCEPT ![p] = "alive"]
  BY DEF UserStarts, UacStarts, Accepted, Born
<1>2. UNCHANGED <<mon, session, sessions, denied, handler, ctrl>>
  BY <1>1 DEF etwVars, monitorVars, ctrlVars
<1>3. /\ main[p] = "none" /\ mon[p] = "idle" /\ ~handler[p] /\ p \notin sessions
      /\ ctrl[p] = "none"
  BY <1>1 DEF Local, PlaceInv, SessionInv, CtrlInv, Tracing, Alive
<1>4. ASSUME main'[p] \in {"decide", "open"}
      PROVE  Local(p)'
  BY <1>1, <1>2, <1>3, <1>4
  DEF Types, ProcessTypeOK, Local, PlaceInv, SessionInv, CtrlInv, Before, Tracing, Alive
<1>5. CASE UserStarts(p, n)
  <2>1. main'[p] = "decide"
    BY <1>5 DEF UserStarts, MoveTo, Types, ElevationTypeOK
  <2>2. QED
    BY <1>4, <1>5, <2>1, OthersStarts, LeftAlone DEF Local
<1>6. ASSUME NEW o \in Process, UacStarts(o, p, n)
      PROVE  Local(x)'
  <2>1. main[o] = "uac" /\ o # p
    BY <1>3, <1>6 DEF UacStarts, Accepted, At
  <2>2. main'[p] = "open" /\ main'[o] = "shell" /\ UNCHANGED console
    BY <1>6, <2>1 DEF UacStarts, Accepted, Types, ElevationTypeOK
  <2>3. Local(o)'
    <3>1. state'[o] = state[o]
      BY <1>1, <2>1 DEF Types, ProcessTypeOK
    <3>2. QED
      BY <1>1, <1>2, <2>1, <2>2, <3>1
      DEF Local, PlaceInv, SessionInv, CtrlInv, Before, Alive
  <2>4. QED
    BY <1>4, <1>6, <2>2, <2>3, OthersStarts, LeftAlone DEF Local
<1>7. QED
  BY <1>5, <1>6

AllLocal == \A x \in Process : Local(x)

\* Every step keeps what is said of each launcher.
LEMMA LocalStep == Types /\ AllLocal /\ [Next]_vars => AllLocal'
<1> SUFFICES ASSUME Types, AllLocal, [Next]_vars PROVE AllLocal'
  OBVIOUS
<1>1. ASSUME NEW p \in Process, Local(p)', \A x \in Process \ {p} : LeavesAlone(x)
      PROVE  AllLocal'
  BY <1>1, LeftAlone DEF AllLocal, Local
<1>2. CASE UNCHANGED vars
  BY <1>2 DEF vars, processVars, etwVars, monitorVars, elevationVars, mainVars, ctrlVars,
     AllLocal, Local, PlaceInv, SessionInv, CtrlInv, Alive
<1>3. ASSUME NEW p \in Process,
             \/ Handover(p) \/ Monitoring(p) \/ Goes(p)
             \/ WaitCtrlHandler(p) \/ EtwCtrlHandler(p) \/ HandlerStops(p)
      PROVE  AllLocal'
  <2>1. Local(p)
    BY DEF AllLocal
  <2>2. Local(p)'
    BY <1>3, <2>1, HandoverLocal, MonitoringLocal, GoesLocal, ControlLocal
  <2>3. \A x \in Process \ {p} : LeavesAlone(x)
    BY <1>3, OthersHandover, OthersMonitoring, OthersGoes, OthersControl
  <2>4. QED
    BY <1>1, <2>2, <2>3
<1>4. ASSUME NEW p \in Process, NEW ending, Ending(p, ending)
      PROVE  AllLocal'
  <2>1. Local(p)'
    BY <1>4, EndingLocal DEF AllLocal
  <2>2. \A x \in Process \ {p} : LeavesAlone(x)
    BY <1>4, EndingDies, OthersDies
  <2>3. QED
    BY <1>1, <2>1, <2>2
<1>5. ASSUME NEW p \in Process, CtrlEvent(p)
      PROVE  AllLocal'
  BY <1>5, CtrlEventLocal DEF AllLocal
<1>6. ASSUME NEW p \in Process, NEW n \in Pid,
             UserStarts(p, n) \/ \E o \in Process : UacStarts(o, p, n)
      PROVE  AllLocal'
  BY <1>6, StartsLocal DEF AllLocal
<1>7. QED
  BY <1>2, <1>3, <1>4, <1>5, <1>6, StepIs

-----------------------------------------------------------------------------
(* Processes *)

\* A step that is not the birth of a process.
Ordinary(p) ==
  \/ Handover(p) \/ Monitoring(p) \/ Goes(p)
  \/ \E ending : Ending(p, ending)
  \/ CtrlEvent(p) \/ WaitCtrlHandler(p) \/ EtwCtrlHandler(p) \/ HandlerStops(p)

Birth(p, n) == UserStarts(p, n) \/ \E o \in Process : UacStarts(o, p, n)

\* Who has been born has a pid, and only the living have handles.
LifeInv(x) ==
  /\ state[x] # "unborn" => pid[x] \in Pid
  /\ ~Alive(x) => holds[x] = {}

AllLife == \A x \in Process : LifeInv(x)

\* Nobody that ends was dead or unborn.
LEMMA EndingAlive ==
  ASSUME Types, NEW p \in Process, NEW ending, Ending(p, ending), Local(p)
  PROVE  Alive(p)
<1>1. CASE Killed(p)
  BY <1>1 DEF Killed
<1>2. CASE BeginFails(p) \/ WaitReturns(p) \/ StartFails(p) \/ Return(p)
  <2>1. main[p] \notin {"none", "gone"}
    BY <1>2 DEF BeginFails, NobodyWaits, WaitReturns, WaitOver, StartFails, Return, At
  <2>2. QED
    BY <2>1 DEF Local, PlaceInv, Alive, Types, ProcessTypeOK
<1>3. CASE DefaultHandler(p) \/ HandlerReturns(p)
  BY <1>3 DEF DefaultHandler, HandlerReturns, Local, CtrlInv
<1>4. QED
  BY <1>1, <1>2, <1>3 DEF Ending

\* What an ordinary step does to processes.
LEMMA OrdinaryLife ==
  ASSUME Types, AllLocal, NEW p \in Process, Ordinary(p)
  PROVE  /\ pid' = pid
         /\ \A x \in Process :
              /\ state'[x] = state[x] \/ (Alive(x) /\ state'[x] = "dead")
              /\ \A y \in holds'[x] : y \in holds[x] \/ (Alive(x) /\ y \in Process /\ Alive(y))
              /\ state'[x] # state[x] => holds'[x] = {}
<1>1. CASE \E ending : Ending(p, ending)
  <2>1. PICK ending : Ending(p, ending)
    BY <1>1
  <2>2. Ends(p, ending) /\ Alive(p)
    BY <2>1, EndingDies, EndingAlive DEF Dies, AllLocal
  <2>3. QED
    BY <2>2 DEF Ends, Types, ProcessTypeOK
<1>2. CASE OpenOriginal(p)
  <2>1. main[p] = "open" /\ Original(p) \in Process
    BY <1>2, NamedIs DEF OpenOriginal, At, Original
  <2>2. Alive(p)
    BY <2>1 DEF AllLocal, Local, PlaceInv, Alive, Types, ProcessTypeOK
  <2>3. /\ UNCHANGED <<state, pid>>
        /\ \/ holds' = holds
           \/ Alive(Original(p)) /\ holds' = [holds EXCEPT ![p] = @ \cup {Original(p)}]
    BY <1>2 DEF OpenOriginal
  <2>4. QED
    BY <2>1, <2>2, <2>3 DEF Types, ProcessTypeOK
<1>3. CASE UNCHANGED processVars
  BY <1>3 DEF processVars
<1>4. ASSUME Handover(p), ~OpenOriginal(p)
      PROVE  UNCHANGED processVars
  BY <1>4 DEF Handover, ElevationStep, Decide, Declined, NoHandle, BeginWait, OpenHandoff, SwitchConsole,
     PublishConsole, processVars
<1>5. ASSUME Monitoring(p)
      PROVE  UNCHANGED processVars
  BY <1>5 DEF Monitoring, MonitorStep, Query, CheckName, StopStaleSession,
     StopOwnName, StartTrace, EnableProviders, OpenTrace, StopSession, JoinConsumer
<1>6. ASSUME Goes(p)
      PROVE  UNCHANGED processVars
  BY <1>6 DEF Goes, ChooseParent, CreateTarget, Injected, CallStart, StartReturns,
     RegisterHandler, TargetEnds, CallStop, StopReturns, Moves
<1>7. ASSUME CtrlEvent(p) \/ WaitCtrlHandler(p) \/ EtwCtrlHandler(p) \/ HandlerStops(p)
      PROVE  UNCHANGED processVars
  BY <1>7 DEF CtrlEvent, WaitCtrlHandler, EtwCtrlHandler, HandlerStops, Handling
<1>8. QED
  BY <1>1, <1>2, <1>3, <1>4, <1>5, <1>6, <1>7 DEF Ordinary

\* What a birth does to them.
LEMMA BirthLife ==
  ASSUME Types, NEW p \in Process, NEW n \in Pid, Birth(p, n)
  PROVE  /\ state[p] = "unborn" /\ state'[p] = "alive" /\ pid'[p] = n
         /\ ~\E x \in Process : Exists(x) /\ pid[x] = n
         /\ \A x \in Process \ {p} : state'[x] = state[x] /\ pid'[x] = pid[x]
         /\ \A x \in Process : /\ holds[x] \subseteq holds'[x]
                               /\ holds'[x] \subseteq holds[x] \cup {p}
<1>1. ASSUME NEW openers, Born(p, n, openers)
      PROVE  /\ state[p] = "unborn" /\ state'[p] = "alive" /\ pid'[p] = n
             /\ Named(n) = Nobody
             /\ \A x \in Process \ {p} : state'[x] = state[x] /\ pid'[x] = pid[x]
             /\ \A x \in Process : /\ holds[x] \subseteq holds'[x]
                                   /\ holds'[x] \subseteq holds[x] \cup {p}
  BY <1>1 DEF Born, Types, ProcessTypeOK
<1>2. \E openers : Born(p, n, openers)
  BY DEF Birth, UserStarts, UacStarts, Accepted
<1>3. QED
  BY <1>1, <1>2, NamedIs

\* Only a launcher that is asked to start another has a handle to the new one.
LEMMA BirthHolds ==
  ASSUME Types, AllLocal, NEW p \in Process, NEW n \in Pid, Birth(p, n), NEW x \in Process,
         ~Alive(x)
  PROVE  holds'[x] = holds[x]
<1>1. CASE UserStarts(p, n)
  BY <1>1 DEF UserStarts, Born, Types, ProcessTypeOK
<1>2. ASSUME NEW o \in Process, UacStarts(o, p, n)
      PROVE  holds'[x] = holds[x]
  <2>1. main[o] = "uac" /\ (Born(p, n, {o}) \/ Born(p, n, {}))
    BY <1>2 DEF UacStarts, Accepted, At
  <2>2. Alive(o)
    BY <2>1 DEF AllLocal, Local, PlaceInv, Alive, Types, ProcessTypeOK
  <2>3. QED
    BY <2>1, <2>2 DEF Born, Types, ProcessTypeOK
<1>3. QED
  BY <1>1, <1>2 DEF Birth

\* Every step is ordinary or a birth.
LEMMA Steps ==
  ASSUME [Next]_vars
  PROVE  \/ UNCHANGED vars
         \/ \E p \in Process : Ordinary(p) \/ \E n \in Pid : Birth(p, n)
  BY StepIs DEF Ordinary, Birth

\* Pids stay unique: a new one names nobody, and nobody dead comes to exist again.
LEMMA LifeStep == Types /\ AllLocal /\ AllLife /\ OwnPids /\ [Next]_vars => AllLife' /\ OwnPids'
<1> SUFFICES ASSUME Types, AllLocal, AllLife, OwnPids, [Next]_vars PROVE AllLife' /\ OwnPids'
  OBVIOUS
<1>1. CASE UNCHANGED vars
  BY <1>1 DEF vars, processVars, AllLife, LifeInv, OwnPids, Exists, Alive
<1>2. ASSUME NEW p \in Process, Ordinary(p)
      PROVE  AllLife' /\ OwnPids'
  <2>1. /\ pid' = pid
        /\ \A x \in Process :
             /\ state'[x] = state[x] \/ (Alive(x) /\ state'[x] = "dead")
             /\ \A y \in holds'[x] : y \in holds[x] \/ (Alive(x) /\ y \in Process /\ Alive(y))
             /\ state'[x] # state[x] => holds'[x] = {}
    BY <1>2, OrdinaryLife
  <2>2. AllLife'
    BY <2>1 DEF AllLife, LifeInv, Alive
  <2>3. ASSUME NEW x \in Process, Exists(x)'
        PROVE  Exists(x)
    BY <2>1, <2>3 DEF Exists, Alive
  <2>4. QED
    BY <2>1, <2>2, <2>3 DEF OwnPids
<1>3. ASSUME NEW p \in Process, NEW n \in Pid, Birth(p, n)
      PROVE  AllLife' /\ OwnPids'
  <2>1. /\ state[p] = "unborn" /\ state'[p] = "alive" /\ pid'[p] = n
        /\ ~\E x \in Process : Exists(x) /\ pid[x] = n
        /\ \A x \in Process \ {p} : state'[x] = state[x] /\ pid'[x] = pid[x]
        /\ \A x \in Process : holds'[x] \subseteq holds[x] \cup {p}
    BY <1>3, BirthLife
  <2>2. \A x \in Process : ~Alive(x) => holds'[x] = holds[x]
    BY <1>3, BirthHolds
  <2>3. AllLife'
    BY <2>1, <2>2 DEF AllLife, LifeInv, Alive
  <2>4. ASSUME NEW x \in Process \ {p}, Exists(x)'
        PROVE  Exists(x)
    <3>1. CASE Alive(x)'
      BY <2>1, <3>1 DEF Exists, Alive
    <3>2. CASE \E q \in Process : Alive(q)' /\ x \in holds'[q]
      <4>1. PICK q \in Process : Alive(q)' /\ x \in holds'[q]
        BY <3>2
      <4>2. x \in holds[q]
        BY <2>1, <4>1
      <4>3. q # p
        BY <2>1, <4>2 DEF AllLife, LifeInv, Alive
      <4>4. QED
        BY <2>1, <2>4, <4>1, <4>2, <4>3 DEF Exists, Alive
    <3>3. QED
      BY <2>4, <3>1, <3>2 DEF Exists
  <2>5. OwnPids'
    BY <2>1, <2>4 DEF OwnPids
  <2>6. QED
    BY <2>3, <2>5
<1>4. QED
  BY <1>1, <1>2, <1>3, Steps

-----------------------------------------------------------------------------
(* The sweep *)

\* Some other process was born with the pid of q.
Reborn(q) == \E r \in Process \ {q} : pid[r] = pid[q] /\ state[r] # "unborn"

\* What a sweep has found to be stale is dead, and until the sweep is over it
\* is stopped, or that was refused, it is still to be looked at or to be
\* stopped, or its pid was reused.
SweepInv(x) ==
  /\ mon[x] \notin {"sweep", "trace"} => orphans[x] = {}
  /\ mon[x] # "sweep" => todo[x] = {} /\ condemned[x] = 0
  /\ \A q \in orphans[x] : state[q] = "dead"
  /\ \A q \in (orphans[x] \cap sessions) \ denied[x] :
       pid[q] \in todo[x] \/ pid[q] = condemned[x] \/ Reborn(q)

AllSweeps == \A x \in Process : SweepInv(x)

\* A name about to be stopped is that of no live process.
CondemnedInv ==
  "sweep" \notin recycled =>
    \A x, r \in Process : condemned[x] # 0 /\ pid[r] = condemned[x] => ~Alive(r)

\* The born keep their pids, and the dead stay dead.
Kept ==
  \A y \in Process : state[y] # "unborn" =>
    /\ pid'[y] = pid[y] /\ state'[y] # "unborn"
    /\ state[y] = "dead" => state'[y] = "dead"

\* Every step does so.
LEMMA KeptStep ==
  ASSUME Types, AllLocal, [Next]_vars
  PROVE  Kept
<1>1. CASE UNCHANGED vars
  BY <1>1 DEF vars, processVars, Kept
<1>2. ASSUME NEW p \in Process, Ordinary(p)
      PROVE  Kept
  BY <1>2, OrdinaryLife DEF Kept, Alive
<1>3. ASSUME NEW p \in Process, NEW n \in Pid, Birth(p, n)
      PROVE  Kept
  BY <1>3, BirthLife DEF Kept
<1>4. QED
  BY <1>1, <1>2, <1>3, Steps

SameMonitor(x) ==
  /\ mon'[x] = mon[x] /\ todo'[x] = todo[x] /\ condemned'[x] = condemned[x]
  /\ orphans'[x] = orphans[x] /\ denied[x] \subseteq denied'[x]

\* What a step does to the monitor of x.
LEMMA MonitorOf ==
  ASSUME Types, [Next]_vars, NEW x \in Process
  PROVE  \/ SameMonitor(x) \/ MonitorStep(x) \/ MonitorGone(x)
         \/ CallStart(x) \/ CallStop(x)
<1> USE DEF SameMonitor
<1>1. CASE UNCHANGED etwVars
  BY <1>1 DEF etwVars, monitorVars
<1>2. CASE LeavesAlone(x)
  BY <1>2 DEF LeavesAlone
<1>3. CASE UNCHANGED vars
  BY <1>1, <1>3 DEF vars
<1>4. ASSUME NEW p \in Process, \E n \in Pid : Birth(p, n)
      PROVE  UNCHANGED etwVars
  BY <1>4 DEF Birth, UserStarts, UacStarts
<1>5. ASSUME NEW p \in Process, CtrlEvent(p) \/ Handover(p)
      PROVE  UNCHANGED etwVars
  BY <1>5 DEF CtrlEvent, Handover
<1>6. ASSUME NEW p \in Process, WaitCtrlHandler(p) \/ EtwCtrlHandler(p) \/ HandlerStops(p)
      PROVE  SameMonitor(x)
  <2>1. UNCHANGED <<monitorVars, orphans>>
    BY <1>6 DEF WaitCtrlHandler, EtwCtrlHandler, HandlerStops, EmergencyStop, etwVars
  <2>2. denied[x] \subseteq denied'[x]
    <3>1. CASE HandlerStops(p)
      <4>1. Stopped(p, NamedSessions(pid[p]))
        BY <3>1, StopByNameIs DEF HandlerStops, EmergencyStop, Types
      <4>2. QED
        BY <4>1 DEF Stopped
    <3>2. CASE WaitCtrlHandler(p) \/ EtwCtrlHandler(p)
      BY <3>2 DEF WaitCtrlHandler, EtwCtrlHandler, etwVars
    <3>3. QED
      BY <1>6, <3>1, <3>2
  <2>3. QED
    BY <2>1, <2>2 DEF monitorVars
<1>7. ASSUME NEW p \in Process, Monitoring(p)
      PROVE  SameMonitor(x) \/ MonitorStep(x)
  <2>1. CASE p # x
    BY <1>7, <2>1, OthersMonitoring DEF LeavesAlone
  <2>2. CASE p = x
    BY <1>7, <2>2 DEF Monitoring
  <2>3. QED
    BY <2>1, <2>2
<1>8. ASSUME NEW p \in Process, \E ending : Ending(p, ending)
      PROVE  SameMonitor(x) \/ MonitorGone(x)
  <2>1. PICK ending : Dies(p, ending) /\ ending \in Endings
    BY <1>8, EndingDies
  <2>2. CASE p # x
    BY <2>1, <2>2, OthersDies DEF LeavesAlone
  <2>3. CASE p = x
    BY <2>1, <2>3 DEF Dies
  <2>4. QED
    BY <2>2, <2>3
<1>9. ASSUME NEW p \in Process, Goes(p)
      PROVE  SameMonitor(x) \/ CallStart(x) \/ CallStop(x)
  <2>1. CASE p # x
    BY <1>9, <2>1, OthersGoes DEF LeavesAlone
  <2>2. CASE p = x
    BY <1>9, <2>2 DEF Goes, ChooseParent, CreateTarget, Injected, StartReturns,
       RegisterHandler, TargetEnds, StopReturns, Moves, etwVars, monitorVars
  <2>3. QED
    BY <2>1, <2>2
<1>10. QED
  BY <1>1, <1>3, <1>4, <1>5, <1>6, <1>7, <1>8, <1>9, Steps DEF Ordinary

\* Which sessions there are after a step.
LEMMA SessionsGrow ==
  ASSUME Types, [Next]_vars, NEW q \in sessions'
  PROVE  q \in sessions \/ (q \in Process /\ mon[q] = "trace")
<1>1. CASE UNCHANGED sessions
  BY <1>1
<1>2. CASE UNCHANGED vars
  BY <1>2 DEF vars, etwVars
<1>3. ASSUME NEW p \in Process, \E n \in Pid : Birth(p, n)
      PROVE  UNCHANGED sessions
  BY <1>3 DEF Birth, UserStarts, UacStarts, etwVars
<1>4. ASSUME NEW p \in Process,
             \/ CtrlEvent(p) \/ Handover(p) \/ Goes(p)
             \/ WaitCtrlHandler(p) \/ EtwCtrlHandler(p)
      PROVE  UNCHANGED sessions
  BY <1>4 DEF CtrlEvent, Handover, Goes, ChooseParent, CreateTarget, Injected, CallStart,
     StartReturns, RegisterHandler, TargetEnds, CallStop, StopReturns, Moves, WaitCtrlHandler,
     EtwCtrlHandler, etwVars
<1>5. ASSUME NEW p \in Process, Monitoring(p) \/ HandlerStops(p)
      PROVE  q \in sessions \/ (q \in Process /\ mon[q] = "trace")
  <2>1. CASE StopStaleSession(p) \/ StopOwnName(p) \/ StopSession(p) \/ HandlerStops(p)
    <3>1. \E S : Stopped(p, S)
      BY <2>1, StopByNameIs, StopSessionIs
      DEF StopStaleSession, StopOwnName, HandlerStops, EmergencyStop, Types
    <3>2. QED
      BY <3>1 DEF Stopped
  <2>2. CASE ~(StopStaleSession(p) \/ StopOwnName(p) \/ StopSession(p) \/ HandlerStops(p))
    BY <1>5, <2>2 DEF Monitoring, MonitorStep, Query, CheckName, StartTrace, EnableProviders,
       OpenTrace, JoinConsumer
  <2>3. QED
    BY <2>1, <2>2
<1>6. ASSUME NEW p \in Process, \E ending : Ending(p, ending)
      PROVE  UNCHANGED sessions
  BY <1>6, EndingDies DEF Dies, MonitorGone
<1>7. QED
  BY <1>1, <1>2, <1>3, <1>4, <1>5, <1>6, Steps DEF Ordinary

\* A launcher whose monitor is at work is alive.
LEMMA BusyAlive ==
  ASSUME Types, NEW x \in Process, Local(x), mon[x] # "idle"
  PROVE  Alive(x)
<1>1. main[x] \notin {"none", "gone"}
  BY DEF Local, PlaceInv
<1>2. QED
  BY <1>1 DEF Local, PlaceInv, Alive, Types, ProcessTypeOK

\* An orphan that still has a session had it before.
LEMMA OrphansOld ==
  ASSUME Types, AllLocal, [Next]_vars, NEW x \in Process, SweepInv(x),
         NEW q \in orphans[x] \cap sessions'
  PROVE  q \in sessions /\ q \in Process /\ state[q] = "dead"
<1>1. q \in Process /\ state[q] = "dead"
  BY DEF SweepInv, Types, EtwTypeOK
<1>2. mon[q] # "trace"
  BY <1>1, BusyAlive DEF AllLocal, Alive
<1>3. QED
  BY <1>1, <1>2, SessionsGrow

\* A step that leaves the monitor of x alone.
LEMMA SweepSame ==
  ASSUME Types, AllLocal, [Next]_vars, NEW x \in Process, SweepInv(x),
         SameMonitor(x)
  PROVE  SweepInv(x)'
<1> USE DEF SameMonitor
<1>1. Kept
  BY KeptStep
<1>2. \A q \in orphans[x] : q \in Process /\ state[q] = "dead"
  BY DEF SweepInv, Types, EtwTypeOK
<1>3. \A q \in orphans[x] : pid'[q] = pid[q] /\ state'[q] = "dead"
  BY <1>1, <1>2 DEF Kept
<1>4. \A q \in orphans[x] : Reborn(q) => Reborn(q)'
  BY <1>1, <1>2, <1>3 DEF Kept, Reborn
<1>5. ASSUME NEW q \in (orphans'[x] \cap sessions') \ denied'[x]
      PROVE  pid'[q] \in todo'[x] \/ pid'[q] = condemned'[x] \/ Reborn(q)'
  <2>1. q \in sessions /\ q \in orphans[x] /\ q \notin denied[x]
    BY <1>5, OrphansOld
  <2>2. QED
    BY <1>3, <1>4, <2>1 DEF SweepInv
<1>6. QED
  BY <1>3, <1>5 DEF SweepInv

\* One that is over, or not begun.
LEMMA SweepNone ==
  ASSUME NEW x \in Process, orphans'[x] = {},
         mon'[x] # "sweep" => todo'[x] = {} /\ condemned'[x] = 0
  PROVE  SweepInv(x)'
  BY DEF SweepInv

\* What is found to be stale when the sessions are listed.
LEMMA QuerySweep ==
  ASSUME Types, AllLocal, [Next]_vars, NEW x \in Process, SweepInv(x), Query(x)
  PROVE  SweepInv(x)'
<1> DEFINE T == {pid[q] : q \in sessions}
           O == {q \in sessions : ~PidAlive(pid[q])}
<1>1. /\ mon[x] = "start" /\ condemned'[x] = condemned[x]
      /\ UNCHANGED <<pid, state, sessions, denied>>
      /\ \/ mon'[x] \in {"failed", "sweep"} /\ UNCHANGED <<todo, orphans>>
         \/ mon'[x] = "sweep" /\ todo'[x] = T /\ orphans'[x] = O
  BY DEF Query, GoTo, Types, EtwTypeOK, processVars
<1>2. CASE mon'[x] \in {"failed", "sweep"} /\ UNCHANGED <<todo, orphans>>
  BY <1>1, <1>2, SweepNone DEF SweepInv
<1>3. CASE mon'[x] = "sweep" /\ todo'[x] = T /\ orphans'[x] = O
  <2>1. ASSUME NEW q \in O
        PROVE  state[q] = "dead"
    <3>1. q \in sessions /\ q \in Process /\ ~Alive(q)
      BY DEF PidAlive, Types, EtwTypeOK
    <3>2. mon[q] = "idle"
      BY <3>1, BusyAlive DEF AllLocal
    <3>3. QED
      BY <3>1, <3>2 DEF AllLocal, Local, SessionInv, Tracing, Alive, Types, ProcessTypeOK
  <2>2. \A q \in O : pid[q] \in T
    OBVIOUS
  <2> HIDE DEF T, O
  <2>3. QED
    BY <1>1, <1>3, <2>1, <2>2 DEF SweepInv
<1>4. QED
  BY <1>1, <1>2, <1>3

\* The sweep looks at a name.
LEMMA CheckSweep ==
  ASSUME Types, AllLocal, AllLife, [Next]_vars, NEW x \in Process, SweepInv(x), CheckName(x)
  PROVE  SweepInv(x)'
<1>1. PICK n \in todo[x] :
        /\ mon[x] = "sweep" /\ condemned[x] = 0
        /\ UNCHANGED <<pid, state, mon, sessions, orphans, denied>>
        /\ todo'[x] = todo[x] \ {n}
        /\ condemned'[x] = IF n = pid[x] \/ PidAlive(n) THEN 0 ELSE n
  BY DEF CheckName, Types, EtwTypeOK, processVars
<1>2. Alive(x)
  BY <1>1, BusyAlive DEF AllLocal
<1>3. ASSUME NEW q \in (orphans[x] \cap sessions) \ denied[x]
      PROVE  pid[q] \in todo'[x] \/ pid[q] = condemned'[x] \/ Reborn(q)
  <2>1. q \in Process /\ state[q] = "dead"
    BY DEF SweepInv, Types, EtwTypeOK
  <2>2. CASE pid[q] = n
    <3>1. CASE n = pid[x]
      BY <1>2, <2>1, <2>2, <3>1 DEF Reborn, Alive
    <3>2. CASE PidAlive(n)
      BY <2>1, <2>2, <3>2 DEF Reborn, PidAlive, Alive
    <3>3. QED
      BY <1>1, <2>2, <3>1, <3>2
  <2>3. CASE pid[q] # n /\ pid[q] \in todo[x]
    BY <1>1, <2>3
  <2>4. pid[q] # condemned[x]
    BY <1>1, <2>1, ProcessAssumption DEF AllLife, LifeInv
  <2>5. CASE Reborn(q)
    BY <2>5
  <2>6. QED
    BY <1>1, <2>2, <2>3, <2>4, <2>5 DEF SweepInv
<1>4. QED
  BY <1>1, <1>3 DEF SweepInv, Reborn

\* It stops one.
LEMMA StopStaleSweep ==
  ASSUME Types, AllLocal, [Next]_vars, NEW x \in Process, SweepInv(x), StopStaleSession(x)
  PROVE  SweepInv(x)'
<1>1. /\ mon[x] = "sweep" /\ condemned'[x] = 0
      /\ UNCHANGED <<pid, state, mon, todo, orphans>>
      /\ Stopped(x, NamedSessions(condemned[x]))
  BY StopByNameIs DEF StopStaleSession, Types, EtwTypeOK, processVars
<1>2. \A q \in sessions' \ denied'[x] :
        q \in sessions \ denied[x] /\ pid[q] # condemned[x]
  BY <1>1 DEF Stopped, NamedSessions
<1>3. QED
  BY <1>1, <1>2 DEF SweepInv, Reborn

\* It has looked at all names.
LEMMA StopOwnSweep ==
  ASSUME Types, AllLocal, AllLife, [Next]_vars, NEW x \in Process, SweepInv(x), StopOwnName(x)
  PROVE  SweepInv(x)'
<1>1. /\ mon[x] = "sweep" /\ todo[x] = {} /\ condemned[x] = 0 /\ mon'[x] = "trace"
      /\ UNCHANGED <<pid, state, todo, condemned, orphans>>
      /\ sessions' \subseteq sessions /\ denied[x] \subseteq denied'[x]
  BY StopByNameIs DEF StopOwnName, GoTo, Types, EtwTypeOK, processVars, Stopped
<1>2. \A q \in orphans[x] : pid[q] # 0
  BY ProcessAssumption DEF SweepInv, AllLife, LifeInv, Types, EtwTypeOK
<1>3. QED
  BY <1>1, <1>2 DEF SweepInv, Reborn

\* Every step keeps what is said of each sweep.
LEMMA SweepStep ==
  Types /\ AllLocal /\ AllLife /\ AllSweeps /\ [Next]_vars => AllSweeps'
<1> SUFFICES ASSUME Types, AllLocal, AllLife, AllSweeps, [Next]_vars, NEW x \in Process
             PROVE  SweepInv(x)'
  BY DEF AllSweeps
<1>1. SweepInv(x)
  BY DEF AllSweeps
<1>2. CASE SameMonitor(x)
  BY <1>1, <1>2, SweepSame
<1>3. CASE MonitorStep(x)
  <2> USE DEF GoTo, Types, EtwTypeOK
  <2>1. CASE StartTrace(x)
    <3>1. /\ mon[x] = "trace" /\ mon'[x] \in {"enable", "failed"}
          /\ orphans'[x] = {} /\ UNCHANGED <<todo, condemned>>
      BY <2>1 DEF StartTrace
    <3>2. QED
      BY <1>1, <3>1, SweepNone DEF SweepInv
  <2>2. CASE EnableProviders(x) \/ OpenTrace(x) \/ StopSession(x) \/ JoinConsumer(x)
    <3>1. /\ mon[x] \in {"enable", "open", "stop", "join"}
          /\ mon'[x] \in {"open", "running", "stop", "join", "stopped"}
          /\ UNCHANGED <<todo, condemned, orphans>>
      BY <2>2 DEF EnableProviders, OpenTrace, StopSession, JoinConsumer
    <3>2. QED
      BY <1>1, <3>1, SweepNone DEF SweepInv
  <2>3. QED
    BY <1>1, <1>3, <2>1, <2>2, QuerySweep, CheckSweep, StopStaleSweep, StopOwnSweep
    DEF MonitorStep
<1>4. CASE MonitorGone(x)
  BY <1>4 DEF MonitorGone, GoTo, SweepInv, Types, EtwTypeOK
<1>5. CASE CallStart(x) \/ CallStop(x)
  <2>1. /\ mon'[x] = mon[x] \/ (main[x] = "etw" /\ mon'[x] = "start")
           \/ (mon[x] = "running" /\ mon'[x] = "stop")
        /\ UNCHANGED <<todo, condemned, orphans, denied>>
    BY <1>5 DEF CallStart, CallStop, Moves, GoTo, At, Types, EtwTypeOK
  <2>2. main[x] = "etw" => mon[x] = "idle"
    BY DEF AllLocal, Local, PlaceInv, Before
  <2>3. CASE mon'[x] = mon[x]
    BY <1>1, <2>1, <2>3, SweepSame DEF SameMonitor
  <2>4. CASE mon[x] \in {"idle", "running"} /\ mon'[x] \in {"start", "stop"}
    BY <1>1, <2>1, <2>4, SweepNone DEF SweepInv
  <2>5. QED
    BY <2>1, <2>2, <2>3, <2>4
<1>6. QED
  BY <1>2, <1>3, <1>4, <1>5, MonitorOf

\* What is noted stays noted.
LEMMA RecycledGrows ==
  ASSUME [Next]_vars
  PROVE  recycled \subseteq recycled'
  BY StepIs DEF vars, Recycle, Handover, Monitoring, Goes, ChooseParent, CreateTarget,
     Injected, CallStart, StartReturns, RegisterHandler, TargetEnds, CallStop, StopReturns,
     Moves, Ending, Killed, BeginFails, WaitReturns, StartFails, Return, DefaultHandler,
     HandlerReturns, Dies, CtrlEvent, WaitCtrlHandler, EtwCtrlHandler, HandlerStops, Handling,
     UserStarts, UacStarts

\* A name is condemned when nobody alive has the pid, and if it is given out
\* since then, that is noted.
LEMMA CondemnedStep ==
  Types /\ AllLocal /\ CondemnedInv /\ [Next]_vars => CondemnedInv'
<1> SUFFICES ASSUME Types, AllLocal, CondemnedInv, [Next]_vars, "sweep" \notin recycled',
                    NEW x \in Process, NEW r \in Process,
                    condemned'[x] # 0, pid'[r] = condemned'[x], Alive(r)'
             PROVE  FALSE
  BY DEF CondemnedInv, Alive
<1>1. recycled \subseteq recycled'
  BY RecycledGrows
<1>2. CASE condemned'[x] = condemned[x]
  <2>1. ~Alive(r) \/ pid[r] # pid'[r]
    BY <1>1, <1>2 DEF CondemnedInv
  <2>2. CASE UNCHANGED vars
    BY <2>1, <2>2 DEF vars, processVars, Alive
  <2>3. ASSUME NEW p \in Process, Ordinary(p)
        PROVE  FALSE
    BY <2>1, <2>3, OrdinaryLife DEF Alive
  <2>4. ASSUME NEW p \in Process, NEW n \in Pid, Birth(p, n)
        PROVE  FALSE
    <3>1. /\ pid'[p] = n
          /\ \A y \in Process \ {p} : state'[y] = state[y] /\ pid'[y] = pid[y]
      BY <2>4, BirthLife
    <3>2. r = p
      BY <2>1, <3>1 DEF Alive
    <3>3. condemned[x] = n
      BY <1>2, <3>1, <3>2
    <3>4. recycled' = recycled \cup ReliedOn(n)
      BY <2>4 DEF Birth, UserStarts, UacStarts, Recycle
    <3>5. QED
      BY <3>3, <3>4 DEF ReliedOn
  <2>5. QED
    BY <2>2, <2>3, <2>4, Steps
<1>3. CASE condemned'[x] # condemned[x]
  <2>1. CheckName(x)
    BY <1>3, MonitorOf DEF SameMonitor, MonitorStep, MonitorGone, CallStart, CallStop, Moves,
       Query, StopStaleSession, StopOwnName, StartTrace, EnableProviders, OpenTrace,
       StopSession, JoinConsumer, Types, EtwTypeOK
  <2>2. UNCHANGED <<state, pid>> /\ ~PidAlive(condemned'[x])
    BY <2>1 DEF CheckName, processVars, Types, EtwTypeOK
  <2>3. QED
    BY <2>2 DEF PidAlive, Alive
<1>4. QED
  BY <1>2, <1>3

\* Who can stop the session of a live launcher.
LEMMA KeepStep ==
  ASSUME Types, AllLocal, AllLife, OwnPids, CondemnedInv, [Next]_vars,
         NEW q \in sessions \ sessions', Alive(q), "sweep" \notin recycled
  PROVE  mon'[q] # mon[q] \/ ctrl'[q] # ctrl[q]
<1>1. q \in Process
  BY DEF Types, EtwTypeOK
<1>2. ASSUME NEW x \in Process, Alive(x), pid[x] = pid[q]
      PROVE  x = q
  BY <1>1, <1>2 DEF OwnPids, Exists, Alive
<1>3. CASE UNCHANGED vars
  BY <1>3 DEF vars, etwVars
<1>4. ASSUME NEW p \in Process, \E n \in Pid : Birth(p, n)
      PROVE  UNCHANGED sessions
  BY <1>4 DEF Birth, UserStarts, UacStarts, etwVars
<1>5. ASSUME NEW p \in Process,
             \/ CtrlEvent(p) \/ Handover(p) \/ Goes(p)
             \/ WaitCtrlHandler(p) \/ EtwCtrlHandler(p)
      PROVE  UNCHANGED sessions
  BY <1>5 DEF CtrlEvent, Handover, Goes, ChooseParent, CreateTarget, Injected, CallStart,
     StartReturns, RegisterHandler, TargetEnds, CallStop, StopReturns, Moves, WaitCtrlHandler,
     EtwCtrlHandler, etwVars
<1>6. ASSUME NEW p \in Process, \E ending : Ending(p, ending)
      PROVE  UNCHANGED sessions
  BY <1>6, EndingDies DEF Dies, MonitorGone
<1>7. ASSUME NEW p \in Process, HandlerStops(p)
      PROVE  ctrl'[q] # ctrl[q]
  <2>1. pid[q] = pid[p] /\ ctrl[p] = "stop" /\ ctrl' = [ctrl EXCEPT ![p] = "exit"]
    BY <1>7, StopByNameIs DEF HandlerStops, Handling, EmergencyStop, Types, Stopped, NamedSessions
  <2>2. Alive(p)
    BY <2>1 DEF AllLocal, Local, CtrlInv
  <2>3. QED
    BY <1>2, <2>1, <2>2 DEF Types, MainTypeOK
<1>8. ASSUME NEW p \in Process, Monitoring(p)
      PROVE  mon'[q] # mon[q]
  <2>1. CASE StopStaleSession(p)
    <3>1. condemned[p] # 0 /\ pid[q] = condemned[p]
      BY <2>1, StopByNameIs DEF StopStaleSession, Types, Stopped, NamedSessions
    <3>2. QED
      BY <1>1, <3>1 DEF CondemnedInv
  <2>2. CASE StopOwnName(p)
    <3>1. pid[q] = pid[p] /\ mon[p] = "sweep" /\ mon'[p] = "trace"
      BY <2>2, StopByNameIs DEF StopOwnName, Stopped, NamedSessions, GoTo, Types, EtwTypeOK
    <3>2. Alive(p)
      BY <3>1, BusyAlive DEF AllLocal
    <3>3. QED
      BY <1>2, <3>1, <3>2
  <2>3. CASE StopSession(p)
    <3>1. q = p /\ mon[p] = "stop" /\ mon'[p] = "join"
      BY <2>3, StopSessionIs DEF StopSession, Stopped, OwnSession, GoTo, Types, EtwTypeOK
    <3>2. QED
      BY <3>1
  <2>4. CASE StartTrace(p)
    BY <2>4 DEF StartTrace
  <2>5. QED
    BY <1>8, <2>1, <2>2, <2>3, <2>4 DEF Monitoring, MonitorStep, Query, CheckName,
       EnableProviders, OpenTrace, JoinConsumer
<1>9. QED
  BY <1>3, <1>4, <1>5, <1>6, <1>7, <1>8, Steps DEF Ordinary

-----------------------------------------------------------------------------
(* The specification *)

SessionsInv ==
  Types /\ AllLocal /\ AllLife /\ OwnPids /\ AllSweeps /\ CondemnedInv

\* The invariant of all of this holds at the start ...
LEMMA SessionsInit == Init => SessionsInv
<1> SUFFICES ASSUME Init PROVE SessionsInv
  OBVIOUS
<1> USE DEF Init, ProcessInit, EtwInit, ElevationInit
<1>1. Types
  <2>1. ProcessTypeOK /\ EtwTypeOK
    BY DEF ProcessTypeOK, EtwTypeOK, Monitors
  <2>2. ElevationTypeOK
    BY DEF ElevationTypeOK, Mains
  <2>3. MainTypeOK
    BY LauncherAssumption DEF MainTypeOK
  <2>4. QED
    BY <2>1, <2>2, <2>3 DEF Types
<1>2. AllLocal
  BY DEF AllLocal, Local, PlaceInv, SessionInv, CtrlInv, Before, Tracing, Alive
<1>3. AllLife /\ OwnPids
  BY DEF AllLife, LifeInv, OwnPids, Exists, Alive
<1>4. AllSweeps /\ CondemnedInv
  BY DEF AllSweeps, SweepInv, CondemnedInv
<1>5. QED
  BY <1>1, <1>2, <1>3, <1>4 DEF SessionsInv

\* ... is kept by every step ...
LEMMA SessionsStep == SessionsInv /\ [Next]_vars => SessionsInv'
  BY TypesStep, LocalStep, LifeStep, SweepStep, CondemnedStep DEF SessionsInv

\* ... and so always holds.
LEMMA SessionsHold == Spec => []SessionsInv
  BY SessionsInit, SessionsStep, PTL DEF Spec

\* Every variable keeps its type, and no two processes that exist have one pid.
THEOREM TypeCorrect == Spec => []TypeOK
<1>1. SessionsInv => TypeOK
  BY DEF SessionsInv, Types, MainTypeOK, OwnPids, TypeOK
<1>2. QED
  BY <1>1, SessionsHold, PTL

\* A launcher that ends, other than by being killed or by Ctrl+C before its
\* handler is registered, leaves no session behind that it was allowed to stop.
THEOREM NoSessionIsLeft == Spec => []NoSessionLeft
<1>1. SessionsInv => NoSessionLeft
  <2> SUFFICES ASSUME SessionsInv, NEW p \in sessions
               PROVE  Alive(p) \/ how[p] \in {"killed", "early"} \/ p \in denied[p]
    BY DEF NoSessionLeft
  <2>1. p \in Process /\ Types /\ Local(p)
    BY DEF SessionsInv, Types, EtwTypeOK, AllLocal
  <2>2. mon[p] = "idle" \/ Alive(p)
    BY <2>1, BusyAlive
  <2>3. QED
    BY <2>1, <2>2 DEF Local, SessionInv, Tracing
<1>2. QED
  BY <1>1, SessionsHold, PTL

\* Whatever dead launchers had left when a launcher listed the sessions is
\* gone when it comes to start its own, unless it was not allowed to stop it or
\* a process was born with the pid.
THEOREM StaleIsSwept == Spec => []StaleSwept
<1>1. SessionsInv => StaleSwept
  <2> SUFFICES ASSUME SessionsInv, NEW p \in Process,
                      mon[p] = "trace", NEW q \in (orphans[p] \cap sessions) \ denied[p]
               PROVE  Reborn(q)
    BY DEF StaleSwept, Reborn
  <2>1. SweepInv(p) /\ LifeInv(q) /\ state[q] = "dead"
    BY DEF SessionsInv, AllSweeps, AllLife, SweepInv, Types, EtwTypeOK
  <2>2. pid[q] # 0
    BY <2>1, ProcessAssumption DEF LifeInv
  <2>3. QED
    BY <2>1, <2>2 DEF SweepInv
<1>2. QED
  BY <1>1, SessionsHold, PTL

\* The session of a live launcher is stopped by that launcher only, unless a
\* pid is given out between the look at it and the stop.
THEOREM LiveSessionsAreKept == Spec => LiveSessionsKept
<1>1. SessionsInv /\ [Next]_vars =>
        [\A p \in sessions \ sessions' :
           Alive(p) /\ "sweep" \notin recycled => mon'[p] # mon[p] \/ ctrl'[p] # ctrl[p]]_vars
  BY KeepStep DEF SessionsInv
<1>2. QED
  BY <1>1, SessionsHold, PTL DEF Spec, LiveSessionsKept

-----------------------------------------------------------------------------
(* The handover *)

Mapped(m) == \E q \in Process : hdr[q] = m

\* Where an elevated instance never is, and where it relies on a pid.
Originals == {"none", "decide", "uac", "shell", "wait"}

Looking == {"open", "map", "attach"}

\* Who started a launcher, and what it has of another one.
OriginInv(x) ==
  /\ state[x] = "unborn" =>
       by[x] = 0 /\ hdr[x] = Nobody /\ orig[x] = Nobody /\ parent[x] = Nobody /\ token[x] = "none"
  /\ hdr[x] # Nobody => state[hdr[x]] # "unborn"
  /\ main[x] = "uac" => /\ ~admin[x]
                        /\ \A m \in Process : Mapped(m) /\ pid[m] = pid[x] => m = x
  /\ by[x] # 0 => /\ starter[x] \in Process /\ state[starter[x]] # "unborn"
                  /\ pid[starter[x]] = by[x] /\ ~admin[starter[x]]
                  /\ main[x] \notin Originals

\* While an elevated instance looks it up, the pid leads to its original.
LookupInv(x) ==
  main[x] \in Looking /\ "begin" \notin recycled =>
    \A m \in Process : pid[m] = by[x] /\ (Alive(m) \/ Mapped(m)) => m = starter[x]

\* Until CreateTarget there is no target.
TokenInv(x) == main[x] \in Originals \cup Looking \cup {"publish", "parent"} => token[x] = "none"

\* So what it has found belongs to its original, and its target gets that.
TargetInv(x) ==
  by[x] # 0 /\ "begin" \notin recycled =>
    /\ orig[x] \in {Nobody, starter[x]} /\ hdr[x] \in {Nobody, starter[x]}
    /\ parent[x] \in {Nobody, "shell", starter[x]}
    /\ token[x] # "none" => /\ token[x] = "user" \/ parent[x] = Nobody
                            /\ env[x] \in {x, starter[x]}

HandoverInv(x) == OriginInv(x) /\ LookupInv(x) /\ TokenInv(x) /\ TargetInv(x)

AllHandovers == \A x \in Process : HandoverInv(x)

\* What the other steps do to what a launcher has of another one.
SameRow(x) ==
  /\ main'[x] = main[x] /\ admin'[x] = admin[x] /\ by'[x] = by[x] /\ starter'[x] = starter[x]
  /\ orig'[x] = orig[x] /\ hdr'[x] = hdr[x]
  /\ parent'[x] = parent[x] /\ token'[x] = token[x] /\ env'[x] = env[x]

\* What a step does to what x has.
LEMMA RowOf ==
  ASSUME Types, [Next]_vars, NEW x \in Process
  PROVE  \/ SameRow(x)
         \/ ElevationStep(x) /\ UNCHANGED <<mainVars, state, pid>>
         \/ Goes(x)
         \/ \E ending : Ending(x, ending)
         \/ \E n \in Pid : UserStarts(x, n)
         \/ \E o \in Process, n \in Pid : UacStarts(o, x, n)
         \/ \E e \in Process, n \in Pid : UacStarts(x, e, n)
<1>1. ASSUME LeavesAlone(x)
      PROVE  SameRow(x)
  BY <1>1 DEF LeavesAlone, SameRow
<1>2. ASSUME UNCHANGED <<elevationVars, mainVars>>
      PROVE  SameRow(x)
  BY <1>2 DEF elevationVars, mainVars, SameRow
<1>3. CASE UNCHANGED vars
  BY <1>2, <1>3 DEF vars
<1>4. ASSUME NEW p \in Process, CtrlEvent(p) \/ WaitCtrlHandler(p) \/ EtwCtrlHandler(p)
                                \/ HandlerStops(p) \/ Monitoring(p)
      PROVE  UNCHANGED <<elevationVars, mainVars>>
  BY <1>4 DEF CtrlEvent, WaitCtrlHandler, EtwCtrlHandler, HandlerStops, Handling, Monitoring
<1>5. ASSUME NEW p \in Process, Handover(p)
      PROVE  SameRow(x) \/ (ElevationStep(x) /\ UNCHANGED <<mainVars, state, pid>>)
  <2>1. CASE p # x
    BY <1>1, <1>5, <2>1, OthersHandover
  <2>2. CASE p = x
    BY <1>5, <2>2 DEF Handover, ElevationStep, Decide, Declined, NoHandle, BeginWait, OpenOriginal,
       OpenHandoff, SwitchConsole, PublishConsole, processVars
  <2>3. QED
    BY <2>1, <2>2
<1>6. ASSUME NEW p \in Process, \E ending : Ending(p, ending)
      PROVE  SameRow(x) \/ \E ending : Ending(x, ending)
  BY <1>1, <1>6, EndingDies, OthersDies
<1>7. ASSUME NEW p \in Process, Goes(p)
      PROVE  SameRow(x) \/ Goes(x)
  BY <1>1, <1>7, OthersGoes
<1>8. ASSUME NEW p \in Process, NEW n \in Pid, Birth(p, n)
      PROVE  \/ SameRow(x) \/ UserStarts(x, n)
             \/ \E o \in Process : UacStarts(o, x, n)
             \/ \E e \in Process : UacStarts(x, e, n)
  BY <1>1, <1>8, OthersStarts DEF Birth
<1>9. QED
  BY <1>2, <1>3, <1>4, <1>5, <1>6, <1>7, <1>8, Steps DEF Ordinary

\* A mapping is opened by name or created by a launcher for itself.
LEMMA HdrSteps ==
  ASSUME Types, [Next]_vars, NEW x \in Process
  PROVE  \/ hdr'[x] = hdr[x] \/ hdr'[x] = Nobody
         \/ main[x] = "decide" /\ hdr'[x] = x
         \/ main[x] = "map" /\ hdr'[x] \in Mappings(by[x])
<1> USE DEF Types, ElevationTypeOK
<1>1. CASE SameRow(x)
  BY <1>1 DEF SameRow
<1>2. CASE ElevationStep(x)
  BY <1>2 DEF ElevationStep, Decide, Declined, NoHandle, GoOnAlone, BeginWait, OpenOriginal,
     OpenHandoff, SwitchConsole, PublishConsole, At
<1>3. CASE Goes(x)
  BY <1>3 DEF Goes, ChooseParent, CreateTarget, Injected, CallStart, StartReturns,
     RegisterHandler, TargetEnds, CallStop, StopReturns, Moves
<1>4. CASE \E ending : Ending(x, ending)
  BY <1>4, EndingDies DEF Dies, LauncherGone
<1>5. ASSUME NEW p \in Process, NEW n \in Pid, UserStarts(p, n) \/ \E o \in Process : UacStarts(o, p, n)
      PROVE  hdr' = hdr
  BY <1>5 DEF UserStarts, UacStarts, Accepted
<1>6. QED
  BY <1>1, <1>2, <1>3, <1>4, <1>5, RowOf

\* Mappings belong to the born, and a new one to a live launcher.
LEMMA MappedBefore ==
  ASSUME Types, AllLocal, AllHandovers, [Next]_vars, NEW m \in Process, Mapped(m)'
  PROVE  state[m] # "unborn" /\ (Mapped(m) \/ Alive(m))
<1>1. Mapped(m) => state[m] # "unborn"
  BY ProcessAssumption DEF Mapped, AllHandovers, HandoverInv, OriginInv
<1>2. PICK q \in Process : hdr'[q] = m
  BY DEF Mapped
<1>3. CASE hdr[q] = m
  BY <1>1, <1>3 DEF Mapped
<1>4. CASE main[q] = "decide" /\ m = q
  BY <1>4 DEF AllLocal, Local, PlaceInv, Alive, Types, ProcessTypeOK
<1>5. CASE m \in Mappings(by[q])
  BY <1>1, <1>5 DEF Mappings, Mapped
<1>6. QED
  BY <1>2, <1>3, <1>4, <1>5, HdrSteps, ProcessAssumption

\* Who comes to life is born with a pid that nobody relies on, or this is noted.
LEMMA NewlyAlive ==
  ASSUME Types, AllLocal, [Next]_vars, NEW m \in Process, Alive(m)', ~Alive(m)
  PROVE  \E n \in Pid : Birth(m, n) /\ pid'[m] = n /\ recycled' = recycled \cup ReliedOn(n)
<1>1. CASE UNCHANGED vars
  BY <1>1 DEF vars, processVars, Alive
<1>2. ASSUME NEW p \in Process, Ordinary(p)
      PROVE  FALSE
  BY <1>2, OrdinaryLife DEF Alive
<1>3. ASSUME NEW p \in Process, NEW n \in Pid, Birth(p, n)
      PROVE  Birth(m, n) /\ pid'[m] = n /\ recycled' = recycled \cup ReliedOn(n)
  <2>1. p = m /\ pid'[m] = n
    BY <1>3, BirthLife DEF Alive
  <2>2. QED
    BY <1>3, <2>1 DEF Birth, UserStarts, UacStarts, Recycle
<1>4. QED
  BY <1>1, <1>2, <1>3, Steps

\* Elevation is a property of a process.
LEMMA BornRow ==
  ASSUME Types, AllLocal, [Next]_vars, NEW y \in Process, state[y] # "unborn"
  PROVE  admin'[y] = admin[y] /\ by'[y] = by[y] /\ starter'[y] = starter[y]
<1> USE DEF Types, ElevationTypeOK
<1>1. CASE SameRow(y)
  BY <1>1 DEF SameRow
<1>2. CASE ElevationStep(y)
  BY <1>2 DEF ElevationStep, Decide, Declined, NoHandle, GoOnAlone, BeginWait, OpenOriginal,
     OpenHandoff, SwitchConsole, PublishConsole
<1>3. CASE Goes(y)
  BY <1>3 DEF Goes, ChooseParent, CreateTarget, Injected, CallStart, StartReturns,
     RegisterHandler, TargetEnds, CallStop, StopReturns, Moves
<1>4. CASE \E ending : Ending(y, ending)
  BY <1>4, EndingDies DEF Dies, LauncherGone
<1>5. ASSUME NEW n \in Pid, UserStarts(y, n) \/ \E o \in Process : UacStarts(o, y, n)
      PROVE  FALSE
  BY <1>5, BirthLife DEF Birth
<1>6. ASSUME NEW e \in Process, NEW n \in Pid, UacStarts(y, e, n)
      PROVE  admin'[y] = admin[y] /\ by'[y] = by[y] /\ starter'[y] = starter[y]
  <2>1. e # y
    BY <1>6, BirthLife DEF Birth
  <2>2. QED
    BY <1>6, <2>1 DEF UacStarts, Accepted
<1>7. QED
  BY <1>1, <1>2, <1>3, <1>4, <1>5, <1>6, RowOf

\* A launcher that goes on as who it is.
LEMMA GoesOn ==
  ASSUME Types, AllLocal, AllLife, OwnPids, AllHandovers, [Next]_vars, NEW x \in Process,
         state[x] # "unborn",
         hdr'[x] # Nobody => hdr'[x] \in Process /\ state[hdr'[x]] # "unborn",
         main'[x] = "uac" => main[x] = "uac",
         main'[x] \in Looking => main[x] \in Looking,
         by[x] # 0 => main'[x] \notin Originals
  PROVE  OriginInv(x)' /\ LookupInv(x)'
<1>1. Kept
  BY KeptStep
<1>2. admin'[x] = admin[x] /\ by'[x] = by[x] /\ starter'[x] = starter[x]
      /\ pid'[x] = pid[x] /\ state'[x] # "unborn"
  BY <1>1, BornRow DEF Kept
<1>3. \A m \in Process : Mapped(m)' =>
        state[m] # "unborn" /\ pid'[m] = pid[m] /\ (Mapped(m) \/ Alive(m))
  BY <1>1, MappedBefore DEF Kept
<1>4. OriginInv(x)'
  <2>1. hdr'[x] # Nobody => state'[hdr'[x]] # "unborn"
    BY <1>1 DEF Kept
  <2>2. ASSUME main'[x] = "uac"
        PROVE  /\ ~admin'[x]
               /\ \A m \in Process : Mapped(m)' /\ pid'[m] = pid'[x] => m = x
    <3>1. ~admin[x] /\ \A m \in Process : Mapped(m) /\ pid[m] = pid[x] => m = x
      BY <2>2 DEF AllHandovers, HandoverInv, OriginInv
    <3>2. main[x] = "uac"
      BY <2>2
    <3>3. Alive(x)
      BY <3>2 DEF AllLocal, Local, PlaceInv, Alive, Types, ProcessTypeOK
    <3>4. \A m \in Process : Alive(m) /\ pid[m] = pid[x] => m = x
      BY <3>3 DEF OwnPids, Exists, Alive
    <3>5. QED
      BY <1>2, <1>3, <3>1, <3>4
  <2>3. ASSUME by'[x] # 0
        PROVE  /\ starter'[x] \in Process /\ state'[starter'[x]] # "unborn"
               /\ pid'[starter'[x]] = by'[x] /\ ~admin'[starter'[x]]
               /\ main'[x] \notin Originals
    <3>1. /\ starter[x] \in Process /\ state[starter[x]] # "unborn"
          /\ pid[starter[x]] = by[x] /\ ~admin[starter[x]]
      BY <1>2, <2>3 DEF AllHandovers, HandoverInv, OriginInv
    <3>2. admin'[starter[x]] = admin[starter[x]]
      BY <3>1, BornRow
    <3>3. QED
      BY <1>1, <1>2, <2>3, <3>1, <3>2 DEF Kept
  <2>4. QED
    BY <1>2, <2>1, <2>2, <2>3 DEF OriginInv, Mapped
<1>5. LookupInv(x)'
  <2> SUFFICES ASSUME main'[x] \in Looking, "begin" \notin recycled', NEW m \in Process,
                      pid'[m] = by[x], Alive(m)' \/ Mapped(m)'
               PROVE  m = starter[x]
    BY <1>2 DEF LookupInv, Mapped, Alive
  <2>1. \A y \in Process : pid[y] = by[x] /\ (Alive(y) \/ Mapped(y)) => y = starter[x]
    BY RecycledGrows DEF AllHandovers, HandoverInv, LookupInv
  <2>2. CASE Mapped(m)' \/ Alive(m)
    <3>1. Alive(m) => pid'[m] = pid[m]
      BY <1>1 DEF Kept, Alive
    <3>2. QED
      BY <1>3, <2>1, <2>2, <3>1
  <2>3. CASE Alive(m)' /\ ~Alive(m)
    <3>1. PICK n \in Pid : pid'[m] = n /\ recycled' = recycled \cup ReliedOn(n)
      BY <2>3, NewlyAlive
    <3>2. by[x] = n /\ main[x] \in {"open", "map", "attach"}
      BY <3>1 DEF Looking
    <3>3. QED
      BY <3>1, <3>2 DEF ReliedOn
  <2>4. QED
    BY <2>2, <2>3
<1>6. QED
  BY <1>4, <1>5

\* The others.
LEMMA RowHandover ==
  ASSUME Types, AllLocal, AllLife, OwnPids, AllHandovers, [Next]_vars, NEW x \in Process,
         SameRow(x), state'[x] = state[x] \/ state[x] # "unborn"
  PROVE  HandoverInv(x)'
<1>1. OriginInv(x) /\ LookupInv(x) /\ TokenInv(x) /\ TargetInv(x)
  BY DEF AllHandovers, HandoverInv
<1>2. TokenInv(x)' /\ TargetInv(x)'
  BY <1>1, RecycledGrows DEF SameRow, TokenInv, TargetInv
<1>3. CASE state[x] = "unborn"
  <2>1. main[x] = "none"
    BY <1>3 DEF AllLocal, Local, PlaceInv
  <2>2. QED
    BY <1>1, <1>2, <1>3, <2>1 DEF SameRow, HandoverInv, OriginInv, LookupInv, Looking
<1>4. CASE state[x] # "unborn"
  <2>1. hdr[x] # Nobody => hdr[x] \in Process /\ state[hdr[x]] # "unborn"
    BY <1>1 DEF OriginInv, Types, ElevationTypeOK
  <2>2. OriginInv(x)' /\ LookupInv(x)'
    BY <1>1, <1>4, <2>1, GoesOn DEF SameRow, OriginInv
  <2>3. QED
    BY <1>2, <2>2 DEF HandoverInv
<1>5. QED
  BY <1>3, <1>4

\* The steps of Elevation.
LEMMA ElevationHandover ==
  ASSUME Types, AllLocal, AllLife, OwnPids, AllHandovers, [Next]_vars, NEW x \in Process,
         ElevationStep(x), UNCHANGED <<mainVars, state, pid>>
  PROVE  HandoverInv(x)'
<1> USE DEF Types, ElevationTypeOK, MoveTo, At
<1>1. OriginInv(x) /\ LookupInv(x) /\ TokenInv(x) /\ TargetInv(x)
  BY DEF AllHandovers, HandoverInv
<1>2. main[x] \in {"decide", "uac", "shell", "open", "map", "attach", "publish"}
  BY DEF ElevationStep, Decide, Declined, NoHandle, BeginWait, OpenOriginal, OpenHandoff, SwitchConsole,
     PublishConsole
<1>3. state[x] # "unborn" /\ Alive(x)
  BY <1>2 DEF AllLocal, Local, PlaceInv, Alive, ProcessTypeOK
<1>4. admin'[x] = admin[x] /\ by'[x] = by[x] /\ starter'[x] = starter[x]
      /\ parent'[x] = parent[x] /\ token'[x] = token[x] /\ env'[x] = env[x]
  BY <1>3, BornRow DEF mainVars
<1>5. TokenInv(x)'
  BY <1>1, <1>2, <1>4 DEF TokenInv, Originals, Looking
<1>6. recycled \subseteq recycled'
  BY RecycledGrows
<1>7. hdr[x] # Nobody => hdr[x] \in Process /\ state[hdr[x]] # "unborn"
  BY <1>1 DEF OriginInv
<1>8. CASE Decide(x)
  <2>1. by[x] = 0 /\ main[x] = "decide"
    BY <1>1, <1>8 DEF OriginInv, Originals, Decide
  <2>2. TargetInv(x)'
    BY <1>4, <2>1 DEF TargetInv
  <2>3. CASE main'[x] = "parent" /\ UNCHANGED hdr
    BY <1>3, <1>5, <1>7, <2>1, <2>2, <2>3, GoesOn DEF HandoverInv, Looking
  <2>4. CASE main'[x] = "uac" /\ ~admin[x] /\ Mappings(pid[x]) = {} /\ hdr' = [hdr EXCEPT ![x] = x]
    <3>1. \A m \in Process : Mapped(m)' => Mapped(m) \/ m = x
      BY <2>4 DEF Mapped
    <3>2. \A m \in Process : Mapped(m) => pid[m] # pid[x]
      BY <2>4 DEF Mappings, Mapped
    <3>3. OriginInv(x)' /\ LookupInv(x)'
      BY <1>3, <1>4, <2>1, <2>4, <3>1, <3>2, Zenon DEF OriginInv, LookupInv, Looking
    <3>4. QED
      BY <1>5, <2>2, <3>3 DEF HandoverInv
  <2>5. QED
    BY <1>8, <2>3, <2>4 DEF Decide
<1>9. CASE Declined(x) \/ NoHandle(x) \/ BeginWait(x)
  <2>1. by[x] = 0
    BY <1>1, <1>9 DEF OriginInv, Originals, Declined, NoHandle, BeginWait
  <2>2. main'[x] \in {"parent", "wait"} /\ (hdr'[x] = hdr[x] \/ hdr'[x] = Nobody)
    BY <1>9 DEF Declined, NoHandle, GoOnAlone, BeginWait
  <2>3. TargetInv(x)'
    BY <1>4, <2>1 DEF TargetInv
  <2>4. OriginInv(x)' /\ LookupInv(x)'
    BY <1>3, <1>7, <2>1, <2>2, GoesOn DEF Looking
  <2>5. QED
    BY <1>5, <2>3, <2>4 DEF HandoverInv
<1>10. CASE OpenOriginal(x)
  <2>1. /\ main[x] = "open" /\ main'[x] = "map" /\ hdr' = hdr
        /\ orig'[x] = orig[x] \/ (Alive(Original(x)) /\ orig'[x] = Original(x))
        /\ Original(x) # Nobody
    BY <1>10 DEF OpenOriginal
  <2>2. Original(x) \in Process /\ pid[Original(x)] = by[x]
    BY <2>1, NamedIs DEF Original
  <2>3. "begin" \notin recycled /\ Alive(Original(x)) => Original(x) = starter[x]
    BY <1>1, <2>1, <2>2 DEF LookupInv, Looking
  <2>4. TargetInv(x)'
    BY <1>1, <1>4, <1>6, <2>1, <2>3 DEF TargetInv
  <2>5. OriginInv(x)' /\ LookupInv(x)'
    BY <1>3, <1>7, <2>1, GoesOn DEF Looking, Originals
  <2>6. QED
    BY <1>5, <2>4, <2>5 DEF HandoverInv
<1>11. CASE OpenHandoff(x)
  <2>1. /\ main[x] = "map" /\ main'[x] = "attach" /\ orig' = orig
        /\ hdr'[x] = hdr[x] \/ hdr'[x] \in Mappings(by[x])
    BY <1>11 DEF OpenHandoff
  <2>2. \A m \in Mappings(by[x]) : m \in Process /\ pid[m] = by[x] /\ Mapped(m)
    BY DEF Mappings, Mapped
  <2>3. "begin" \notin recycled => \A m \in Mappings(by[x]) : m = starter[x]
    BY <1>1, <2>1, <2>2 DEF LookupInv, Looking
  <2>4. TargetInv(x)'
    BY <1>1, <1>4, <1>6, <2>1, <2>3 DEF TargetInv
  <2>5. \A m \in Mappings(by[x]) : state[m] # "unborn"
    BY <2>2, ProcessAssumption DEF Mapped, AllHandovers, HandoverInv, OriginInv
  <2>6. OriginInv(x)' /\ LookupInv(x)'
    BY <1>3, <1>7, <2>1, <2>2, <2>5, GoesOn DEF Looking, Originals
  <2>7. QED
    BY <1>5, <2>4, <2>6 DEF HandoverInv
<1>12. CASE SwitchConsole(x) \/ PublishConsole(x)
  <2>1. /\ main[x] \in {"attach", "publish"} /\ main'[x] \in {"publish", "parent"}
        /\ UNCHANGED <<orig, hdr>>
    BY <1>12 DEF SwitchConsole, PublishConsole
  <2>2. TargetInv(x)'
    BY <1>1, <1>4, <1>6, <2>1 DEF TargetInv
  <2>3. OriginInv(x)' /\ LookupInv(x)'
    BY <1>3, <1>7, <2>1, GoesOn DEF Looking, Originals
  <2>4. QED
    BY <1>5, <2>2, <2>3 DEF HandoverInv
<1>13. QED
  BY <1>8, <1>9, <1>10, <1>11, <1>12 DEF ElevationStep

\* wmain from the choice of a parent on.
LEMMA GoesHandover ==
  ASSUME Types, AllLocal, AllLife, OwnPids, AllHandovers, [Next]_vars, NEW x \in Process,
         Goes(x)
  PROVE  HandoverInv(x)'
<1> USE DEF Types, ElevationTypeOK, MainTypeOK, MoveTo, At
<1>1. OriginInv(x) /\ LookupInv(x) /\ TokenInv(x) /\ TargetInv(x)
  BY DEF AllHandovers, HandoverInv
<1>2. /\ main[x] \in {"parent", "create", "inject", "etw", "starting", "handler", "run", "exited",
                      "stopping"}
      /\ main'[x] \in {"create", "inject", "etw", "starting", "handler", "run", "exited",
                       "stopping", "finish"}
      /\ UNCHANGED <<orig, hdr, by, starter, admin, recycled>>
  BY DEF Goes, ChooseParent, CreateTarget, Injected, CallStart, StartReturns, RegisterHandler,
     TargetEnds, CallStop, StopReturns, Moves
<1>3. state[x] # "unborn"
  BY <1>2 DEF AllLocal, Local, PlaceInv
<1>4. OriginInv(x)' /\ LookupInv(x)' /\ TokenInv(x)'
  <2>1. hdr[x] # Nobody => hdr[x] \in Process /\ state[hdr[x]] # "unborn"
    BY <1>1 DEF OriginInv
  <2>2. QED
    BY <1>2, <1>3, <2>1, GoesOn DEF Looking, Originals, TokenInv
<1>5. CASE ChooseParent(x)
  <2>1. token[x] = "none"
    BY <1>1, <1>5 DEF TokenInv, ChooseParent
  <2>2. /\ UNCHANGED <<token, env>>
        /\ by[x] # 0 => parent'[x] \in {Nobody, "shell"} \/ (orig[x] # Nobody /\ parent'[x] = orig[x])
    BY <1>5 DEF ChooseParent, Parents
  <2>3. TargetInv(x)'
    BY <1>1, <1>2, <2>1, <2>2 DEF TargetInv
  <2>4. QED
    BY <1>4, <2>3 DEF HandoverInv
<1>6. CASE CreateTarget(x)
  <2>1. UNCHANGED parent /\ token'[x] = TokenOf(x) /\ env'[x] = EnvOf(x)
    BY <1>6 DEF CreateTarget
  <2>2. by[x] # 0 => starter[x] \in Process /\ ~admin[starter[x]]
    BY <1>1 DEF OriginInv
  <2>3. TargetInv(x)'
    BY <1>1, <1>2, <2>1, <2>2 DEF TargetInv, TokenOf, EnvOf
  <2>4. QED
    BY <1>4, <2>3 DEF HandoverInv
<1>7. CASE UNCHANGED mainVars
  BY <1>1, <1>2, <1>4, <1>7 DEF mainVars, TargetInv, HandoverInv
<1>8. QED
  BY <1>5, <1>6, <1>7 DEF Goes, Injected, CallStart, StartReturns, RegisterHandler,
     TargetEnds, CallStop, StopReturns, Moves

\* The end of the launcher.
LEMMA EndingHandover ==
  ASSUME Types, AllLocal, AllLife, OwnPids, AllHandovers, [Next]_vars, NEW x \in Process,
         NEW ending, Ending(x, ending)
  PROVE  HandoverInv(x)'
<1>1. Dies(x, ending) /\ Alive(x)
  BY EndingDies, EndingAlive DEF AllLocal
<1>2. /\ main'[x] = "gone" /\ orig'[x] = Nobody /\ hdr'[x] = Nobody /\ parent'[x] = Nobody
      /\ token'[x] = "none" /\ state[x] # "unborn"
  BY <1>1 DEF Dies, LauncherGone, MoveTo, Types, ElevationTypeOK, MainTypeOK, Alive
<1>3. OriginInv(x)' /\ LookupInv(x)'
  BY <1>2, GoesOn DEF Looking, Originals
<1>4. TokenInv(x)' /\ TargetInv(x)'
  BY <1>2 DEF TokenInv, TargetInv
<1>5. QED
  BY <1>3, <1>4 DEF HandoverInv

\* A launcher that a user has started.
LEMMA UserHandover ==
  ASSUME Types, AllLocal, AllHandovers, NEW x \in Process, NEW n \in Pid, UserStarts(x, n)
  PROVE  HandoverInv(x)'
<1>1. state[x] = "unborn" /\ state'[x] = "alive"
  BY BirthLife DEF Birth
<1>2. /\ by[x] = 0 /\ hdr[x] = Nobody /\ token[x] = "none"
  BY <1>1 DEF AllHandovers, HandoverInv, OriginInv
<1>3. /\ main'[x] = "decide" /\ by'[x] = by[x] /\ hdr'[x] = hdr[x] /\ token'[x] = token[x]
  BY DEF UserStarts, MoveTo, mainVars, Types, ElevationTypeOK
<1>4. QED
  BY <1>1, <1>2, <1>3 DEF HandoverInv, OriginInv, LookupInv, TokenInv, TargetInv, Looking

\* One that another has started through UAC: the pid it is given is that of
\* the other, which lives and has the only mapping of that name.
LEMMA UacHandover ==
  ASSUME Types, AllLocal, AllLife, OwnPids, AllHandovers, [Next]_vars,
         NEW o \in Process, NEW x \in Process, NEW n \in Pid, UacStarts(o, x, n)
  PROVE  HandoverInv(x)' /\ HandoverInv(o)'
<1>1. /\ state[x] = "unborn" /\ state'[x] = "alive" /\ pid'[x] = n
      /\ ~\E y \in Process : Exists(y) /\ pid[y] = n
      /\ \A y \in Process \ {x} : state'[y] = state[y] /\ pid'[y] = pid[y]
  BY BirthLife DEF Birth
<1>2. main[o] = "uac" /\ UNCHANGED <<orig, hdr, parent, token, env>>
  BY DEF UacStarts, Accepted, At, mainVars
<1>3. Alive(o) /\ o # x
  BY <1>1, <1>2 DEF AllLocal, Local, PlaceInv, Alive, Types, ProcessTypeOK
<1>4. /\ main'[x] = "open" /\ main'[o] = "shell" /\ by'[x] = pid[o] /\ starter'[x] = o
      /\ admin'[o] = admin[o] /\ by'[o] = by[o]
  BY <1>3 DEF UacStarts, Accepted, Types, ElevationTypeOK
<1>5. ~admin[o] /\ by[o] = 0 /\ \A m \in Process : Mapped(m) /\ pid[m] = pid[o] => m = o
  BY <1>2 DEF AllHandovers, HandoverInv, OriginInv, Originals
<1>6. /\ hdr[x] = Nobody /\ orig[x] = Nobody /\ parent[x] = Nobody /\ token[x] = "none"
  BY <1>1 DEF AllHandovers, HandoverInv, OriginInv
<1>7. HandoverInv(x)'
  <2>1. OriginInv(x)'
    BY <1>1, <1>2, <1>3, <1>4, <1>5, <1>6 DEF OriginInv, Originals, Alive
  <2>2. ASSUME NEW m \in Process, pid'[m] = pid[o], Alive(m)' \/ Mapped(m)'
        PROVE  m = o
    <3>1. m # x
      BY <1>1, <1>3, <2>2 DEF Exists, Alive
    <3>2. pid[m] = pid[o] /\ (Alive(m) \/ Mapped(m))
      BY <1>1, <1>2, <2>2, <3>1 DEF Alive, Mapped
    <3>3. QED
      BY <1>3, <1>5, <3>2 DEF OwnPids, Exists, Alive
  <2>3. LookupInv(x)'
    BY <1>4, <2>2 DEF LookupInv, Alive, Mapped
  <2>4. TokenInv(x)' /\ TargetInv(x)'
    BY <1>2, <1>6 DEF TokenInv, TargetInv
  <2>5. QED
    BY <2>1, <2>3, <2>4 DEF HandoverInv
<1>8. HandoverInv(o)'
  <2>1. hdr[o] # Nobody => hdr[o] \in Process /\ state[hdr[o]] # "unborn"
    BY DEF AllHandovers, HandoverInv, OriginInv, Types, ElevationTypeOK
  <2>2. OriginInv(o)' /\ LookupInv(o)'
    BY <1>2, <1>3, <1>4, <1>5, <2>1, GoesOn DEF Looking, Alive
  <2>3. token[o] = "none"
    BY <1>2 DEF AllHandovers, HandoverInv, TokenInv, Originals
  <2>4. TokenInv(o)' /\ TargetInv(o)'
    BY <1>2, <1>4, <1>5, <2>3 DEF TokenInv, TargetInv
  <2>5. QED
    BY <2>2, <2>4 DEF HandoverInv
<1>9. QED
  BY <1>7, <1>8

\* Every step keeps what is said of each handover.
LEMMA HandoversStep ==
  Types /\ AllLocal /\ AllLife /\ OwnPids /\ AllHandovers /\ [Next]_vars => AllHandovers'
<1> SUFFICES ASSUME Types, AllLocal, AllLife, OwnPids, AllHandovers, [Next]_vars,
                    NEW x \in Process
             PROVE  HandoverInv(x)'
  BY DEF AllHandovers
<1>1. CASE SameRow(x)
  <2>1. CASE state[x] = "unborn" /\ state'[x] # "unborn"
    <3>1. Alive(x)'
      BY <2>1, OrdinaryLife, BirthLife, Steps DEF vars, processVars, Alive
    <3>2. PICK n \in Pid : Birth(x, n)
      BY <2>1, <3>1, NewlyAlive DEF Alive
    <3>3. QED
      BY <3>2, UserHandover, UacHandover DEF Birth
  <2>2. QED
    BY <1>1, <2>1, RowHandover
<1>2. QED
  BY <1>1, RowOf, ElevationHandover, GoesHandover, EndingHandover, UserHandover, UacHandover

\* The target of an elevated instance has the user's token and the environment
\* of the launcher that asked for elevation, or of the instance, whatever has
\* ended in the meantime, unless no parent could be opened or the pid was given
\* to another process before Begin had looked it up.
THEOREM TargetBelongsToUser == Spec => []TargetIsUsers
<1>1. Init => AllHandovers
  BY DEF Init, ProcessInit, EtwInit, ElevationInit, AllHandovers, HandoverInv, OriginInv,
     LookupInv, TokenInv, TargetInv, Looking
<1>2. SessionsInv /\ AllHandovers /\ [Next]_vars => AllHandovers'
  BY HandoversStep DEF SessionsInv
<1>3. SessionsInv /\ AllHandovers => TargetIsUsers
  <2> SUFFICES ASSUME AllHandovers, NEW e \in Process, by[e] # 0, token[e] # "none",
                      "begin" \notin recycled
               PROVE  /\ token[e] = "user" \/ parent[e] = Nobody
                      /\ env[e] \in {e, starter[e]}
    BY DEF TargetIsUsers
  <2>1. QED
    BY DEF AllHandovers, HandoverInv, TargetInv
<1>4. QED
  BY <1>1, <1>2, <1>3, SessionsHold, PTL DEF Spec
=============================================================================
