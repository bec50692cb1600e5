---------------------------- MODULE LaunchProofs ----------------------------
(***************************************************************************)
(* Theorems about Launch, for any Capacity, startup and bounds: types, the *)
(* start of the target, the reader, and, for any number of events, records *)
(* and lines, what reaches the sidecar: order and completeness.            *)
(***************************************************************************)
EXTENDS Launch, SequenceTheorems, TLAPS

-----------------------------------------------------------------------------
(* The inductive invariant *)

\* PipeServer::Stop has begun.
Stopping == {"cancel", "join", "stopEtw", "joinEtw", "finish", "done"}

\* Until InjectDll returns, the target does not run and OnAttach is all that
\* sends; a thread of OnAttach keeps the launcher in InjectDll.
StartupInv ==
  /\ main = "create" => inject = "none" /\ target = "none"
  /\ inject \in {"connect", "attach"} => main = "inject"
  /\ inject \in {"none", "connect"} => client = "none"
  /\ main \in {"create", "inject"} =>
       target \in {"none", "suspended", "gone"} /\ sent + todo <= startup

\* The reader is started once, after all that; it ends, in a launcher that gives
\* it time, only when it has read all that a client which is gone has sent.
ReaderInv ==
  /\ main \in {"create", "inject", "enable", "start", "resume", "connect", "failed"} =>
       reader = "none"
  /\ reader = "none" => got = 0
  /\ stop_ => main \in Stopping
  /\ main \in {"stopEtw", "joinEtw", "finish", "done"} => reader \in {"none", "ended"}
  /\ prompt /\ main \in {"stop"} \cup Stopping => reader \in {"none", "ended"}
  /\ prompt /\ reader = "ended" => buffered = 0 /\ client = "closed"

ControlInv == ControlTypeOK /\ StartupInv /\ ReaderInv

-----------------------------------------------------------------------------
(* Types of the sidecar *)

\* The lines that an event, a record or a tick gives.
PlainLines == {<<>>, <<"record">>, <<"counters">>}

LEMMA LineTypes ==
  /\ PlainLines \subseteq Seq(Line)
  /\ \A k \in {"record", "counters"} : MayGive(k) \subseteq PlainLines
  /\ \A b \in BOOLEAN : ExitLines(b) \in Seq(Line)
<1>1. /\ <<>> \in Seq(Line) /\ <<"record">> \in Seq(Line)
      /\ <<"counters">> \in Seq(Line) /\ <<"target_exiting">> \in Seq(Line)
  BY DEF Line
<1>2. QED
  BY <1>1 DEF PlainLines, MayGive, ExitLines

\* SideLine keeps the types.
LEMMA SideLineType ==
  ASSUME SidecarTypeOK, NEW ls \in Seq(Line), SideLine(ls)
  PROVE  {side_prebuf_', file', given'} \subseteq Seq(Line)
<1>1. /\ given \o ls \in Seq(Line) /\ file \o ls \in Seq(Line)
      /\ side_prebuf_ \o ls \in Seq(Line)
  BY ConcatProperties DEF SidecarTypeOK
<1>2. QED
  BY <1>1 DEF SidecarTypeOK, SideLine

\* An operation of the sidecar, and when it is done.
SidecarDoes(ls, exits) ==
  \/ EnableEtw /\ main = "enable"
  \/ DisableEtw /\ main = "start"
  \/ OnHello /\ reader \in {"read", "reading"} /\ got = 0
  \/ OnObjectEvent(ls) /\ reader \in {"read", "reading"}
  \/ OnEtwRecord(exits, ls) /\ consumer = "running"
  \/ PollChild(exits) /\ main = "poll"
  \/ EtwTick(ls) /\ main = "tick"
  \/ FinishEtw /\ main = "finish"
  \/ UNCHANGED sidecarVars

\* Each of them keeps the types.
LEMMA SidecarTypes ==
  ASSUME SidecarTypeOK, NEW ls \in PlainLines, NEW exits \in BOOLEAN,
         SidecarDoes(ls, exits)
  PROVE  SidecarTypeOK'
<1>0. ls \in Seq(Line)
  BY LineTypes
<1>1. <<>> \in Seq(Line) /\ <<"etw_hello">> \in Seq(Line) /\ <<"etw_stats">> \in Seq(Line)
  BY DEF Line
<1>2. ExitLines(exits) \in Seq(Line) /\ ExitLines(exits) \o ls \in Seq(Line)
  BY <1>0, LineTypes, ConcatProperties
<1>3. CASE EnableEtw
  BY <1>3 DEF SidecarTypeOK, EnableEtw
<1>4. CASE DisableEtw
  BY <1>1, <1>4 DEF SidecarTypeOK, DisableEtw
<1>5. CASE OnHello
  <2>1. (file \o <<"etw_hello">>) \o side_prebuf_ \in Seq(Line)
    BY <1>1, ConcatProperties DEF SidecarTypeOK
  <2>2. QED
    BY <1>1, <1>5, <2>1 DEF SidecarTypeOK, OnHello
<1>6. CASE OnObjectEvent(ls)
  <2>1. SideLine(ls) \/ SideLine(<<>>)
    BY <1>6 DEF OnObjectEvent
  <2>2. {side_prebuf_', file', given'} \subseteq Seq(Line)
    BY <1>0, <1>1, <2>1, SideLineType
  <2>3. QED
    BY <1>6, <2>2 DEF SidecarTypeOK, OnObjectEvent
<1>7. CASE OnEtwRecord(exits, ls)
  <2>1. {side_prebuf_', file', given'} \subseteq Seq(Line)
    BY <1>2, <1>7, SideLineType DEF OnEtwRecord
  <2>2. QED
    BY <1>7, <2>1 DEF SidecarTypeOK, OnEtwRecord
<1>8. CASE PollChild(exits)
  <2>1. {side_prebuf_', file', given'} \subseteq Seq(Line)
    BY <1>2, <1>8, SideLineType DEF PollChild
  <2>2. QED
    BY <1>8, <2>1 DEF SidecarTypeOK, PollChild
<1>9. CASE EtwTick(ls)
  <2>1. SideLine(ls) \/ SideLine(<<>>)
    BY <1>9 DEF EtwTick
  <2>2. {side_prebuf_', file', given'} \subseteq Seq(Line)
    BY <1>0, <1>1, <2>1, SideLineType
  <2>3. QED
    BY <1>9, <2>2 DEF SidecarTypeOK, EtwTick
<1>10. CASE FinishEtw
  <2>1. /\ (file \o side_prebuf_) \o <<"etw_stats">> \in Seq(Line)
        /\ given \o <<"etw_stats">> \in Seq(Line)
    BY <1>1, ConcatProperties DEF SidecarTypeOK
  <2>2. QED
    BY <1>1, <1>10, <2>1 DEF SidecarTypeOK, FinishEtw
<1>11. CASE UNCHANGED sidecarVars
  BY <1>11 DEF SidecarTypeOK, sidecarVars
<1>12. QED
  BY <1>3, <1>4, <1>5, <1>6, <1>7, <1>8, <1>9, <1>10, <1>11 DEF SidecarDoes

-----------------------------------------------------------------------------
(* The control of the launcher *)

\* The buffer takes one event more, or there is no pipe.
LEMMA SendStep ==
  ASSUME ControlTypeOK, Send
  PROVE  /\ buffered' \in 0..Capacity /\ sent' \in Nat
         /\ sent' - sent = buffered' - buffered
         /\ sent' \in {sent, sent + 1}
         /\ client # "open" => sent' = sent
BY ConstantsAssumption DEF ControlTypeOK, Send, Full

LEMMA ControlInit == Init => ControlInv
<1>1. Init => ControlTypeOK
  <2> SUFFICES ASSUME Init
               PROVE  ControlTypeOK
    OBVIOUS
  <2>1. {taken, prompt, stop_, child_done, etw_running, session} \subseteq BOOLEAN
    BY DEF Init
  <2>2. Capacity \in Nat /\ MaxStartup \in Nat
    BY ConstantsAssumption
  <2>3. startup \in Nat /\ todo \in 0..startup /\ buffered \in 0..Capacity
    BY <2>2 DEF Init
  <2>4. QED
    BY <2>1, <2>3 DEF Init, ControlTypeOK
<1>2. Init => StartupInv /\ ReaderInv
  BY ConstantsAssumption DEF Init, StartupInv, ReaderInv, Stopping
<1>3. QED
  BY <1>1, <1>2 DEF ControlInv

\* The remote thread keeps it.
LEMMA RemoteThreadControl == ControlInv /\ RemoteThread => ControlInv'
<1> SUFFICES ASSUME ControlInv, RemoteThread
             PROVE  ControlInv'
  OBVIOUS
<1> USE DEF ControlInv, StartupInv, ReaderInv, Stopping,
        ControlTypeOK, world, etwVars, monitorVars, pipe
<1>1. CASE DllConnect
  BY <1>1 DEF DllConnect
<1>2. CASE DllAttach
  BY <1>2, SendStep DEF DllAttach
<1>3. CASE DllAttached
  BY <1>3 DEF DllAttached
<1> HIDE DEF ControlInv, StartupInv, ReaderInv, Stopping,
        ControlTypeOK, world, etwVars, monitorVars, pipe
<1>4. QED
  BY <1>1, <1>2, <1>3 DEF RemoteThread

\* So do the target, and the wait of InjectDll.
LEMMA TargetControl == ControlInv /\ (Target \/ InjectTimesOut) => ControlInv'
<1> SUFFICES ASSUME ControlInv, Target \/ InjectTimesOut
             PROVE  ControlInv'
  OBVIOUS
<1> USE DEF ControlInv, StartupInv, ReaderInv, Stopping,
        ControlTypeOK, world, etwVars, monitorVars, pipe
<1>1. CASE TargetEvent
  BY <1>1, SendStep DEF TargetEvent
<1>2. CASE TargetExits
  BY <1>2, SendStep DEF TargetExits
<1>3. CASE TargetGone
  BY <1>3 DEF TargetGone, CloseClient
<1>4. CASE TargetKilled
  BY <1>4 DEF TargetKilled, CloseClient
<1>5. CASE InjectTimesOut
  BY <1>5, ConstantsAssumption DEF InjectTimesOut, Abandon, CloseClient
<1> HIDE DEF ControlInv, StartupInv, ReaderInv, Stopping,
        ControlTypeOK, world, etwVars, monitorVars, pipe
<1>6. QED
  BY <1>1, <1>2, <1>3, <1>4, <1>5 DEF Target

\* So does the launcher's main thread.
LEMMA LauncherControl == ControlInv /\ Launcher => ControlInv'
<1> SUFFICES ASSUME ControlInv, Launcher
             PROVE  ControlInv'
  OBVIOUS
<1> USE DEF ControlInv, StartupInv, ReaderInv, Stopping,
        ControlTypeOK, world, etwVars, monitorVars, pipe
<1>1. CASE Create
  BY <1>1 DEF Create
<1>2. CASE InjectDll
  BY <1>2 DEF InjectDll, Abandon, CloseClient
<1>3. CASE Injected
  BY <1>3 DEF Injected, Abandon, CloseClient
<1>4. CASE EnableSidecar
  BY <1>4 DEF EnableSidecar
<1>5. CASE StartMonitor
  BY <1>5 DEF StartMonitor
<1>6. CASE Resume
  BY <1>6 DEF Resume
<1>7. CASE ConnectAndStart
  BY <1>7 DEF ConnectAndStart
<1>8. CASE Wait
  BY <1>8 DEF Wait
<1>9. CASE Poll
  BY <1>9 DEF Poll
<1>10. CASE Tick
  BY <1>10 DEF Tick
<1>11. CASE Sleep
  BY <1>11 DEF Sleep
<1>12. CASE Stop
  BY <1>12 DEF Stop
<1>13. CASE CancelIo
  BY <1>13 DEF CancelIo
<1>14. CASE Join
  BY <1>14 DEF Join
<1>15. CASE StopSession
  <2>1. session' = FALSE \/ session' = session
    BY <1>15 DEF StopSession
  <2>2. QED
    BY <1>15, <2>1 DEF StopSession
<1>16. CASE JoinConsumer
  BY <1>16 DEF JoinConsumer
<1>17. CASE Finish
  BY <1>17 DEF Finish
<1> HIDE DEF ControlInv, StartupInv, ReaderInv, Stopping,
        ControlTypeOK, world, etwVars, monitorVars, pipe
<1>18. QED
  BY <1>1, <1>2, <1>3, <1>4, <1>5, <1>6, <1>7, <1>8, <1>9, <1>10, <1>11, <1>12,
     <1>13, <1>14, <1>15, <1>16, <1>17 DEF Launcher

\* So do the reader, the consumer and the providers.
LEMMA ReaderControl ==
  ControlInv /\ (Reader \/ Consumer \/ Log \/ SessionStops) => ControlInv'
<1> SUFFICES ASSUME ControlInv, Reader \/ Consumer \/ Log \/ SessionStops
             PROVE  ControlInv'
  OBVIOUS
<1> USE DEF ControlInv, StartupInv, ReaderInv, Stopping,
        ControlTypeOK, world, etwVars, monitorVars, pipe
<1>1. CASE ReaderCheck
  BY <1>1 DEF ReaderCheck
<1>2. CASE ReadEvent
  BY <1>2, ConstantsAssumption DEF ReadEvent
<1>3. CASE ReadPends
  BY <1>3 DEF ReadPends
<1>4. CASE ReadFails
  BY <1>4 DEF ReadFails
<1>5. CASE Consume
  BY <1>5 DEF Consume
<1>6. CASE ProcessTraceReturns
  BY <1>6 DEF ProcessTraceReturns
<1>7. CASE Log
  BY <1>7 DEF Log
<1>8. CASE SessionStops
  <2>1. /\ UNCHANGED <<startup, taken, prompt, child_done, etw_running, records, logged, consumer,
                      main, inject, target, client, buffered, sent, todo, reader, stop_, got>>
        /\ session' = FALSE
    BY <1>8 DEF SessionStops
  <2>2. ControlTypeOK'
    <3>1. {taken', prompt', stop_', child_done', etw_running', session'} \subseteq BOOLEAN
      BY <2>1
    <3>2. QED
      BY <2>1, <3>1
  <2>3. StartupInv'
    BY <2>1
  <2>4. ReaderInv'
    BY <2>1
  <2>5. QED
    BY <2>2, <2>3, <2>4
<1> HIDE DEF ControlInv, StartupInv, ReaderInv, Stopping,
        ControlTypeOK, world, etwVars, monitorVars, pipe
<1>9. QED
  BY <1>1, <1>2, <1>3, <1>4, <1>5, <1>6, <1>7, <1>8 DEF Reader, Consumer

LEMMA ControlNext == ControlInv /\ [Next]_vars => ControlInv'
<1>1. ControlInv /\ UNCHANGED vars => ControlInv'
  BY DEF ControlInv, StartupInv, ReaderInv, Stopping, ControlTypeOK,
         vars, world, etwVars, monitorVars
<1>2. [Next]_vars => \/ UNCHANGED vars
                     \/ RemoteThread \/ Launcher \/ Target \/ InjectTimesOut
                     \/ Reader \/ Consumer \/ Log \/ SessionStops
  BY DEF Next
<1>3. QED
  BY <1>1, <1>2, RemoteThreadControl, TargetControl, LauncherControl, ReaderControl

-----------------------------------------------------------------------------
(* The lines of the sidecar keep their types in every step *)

\* A step of the launcher is one operation of the sidecar, or none.
LEMMA SidecarStep ==
  ASSUME [Next]_vars
  PROVE  \E ls \in PlainLines, exits \in BOOLEAN : SidecarDoes(ls, exits)
<1>1. <<>> \in PlainLines /\ FALSE \in BOOLEAN
  BY DEF PlainLines
<1>2. UNCHANGED sidecarVars => SidecarDoes(<<>>, FALSE)
  BY DEF SidecarDoes
<1>3. CASE EnableSidecar \/ StartMonitor \/ Finish
  <2>1. \/ EnableEtw /\ main = "enable"
        \/ DisableEtw /\ main = "start"
        \/ FinishEtw /\ main = "finish"
        \/ UNCHANGED sidecarVars
    BY <1>3 DEF EnableSidecar, StartMonitor, Finish
  <2>2. SidecarDoes(<<>>, FALSE)
    BY <2>1 DEF SidecarDoes
  <2>3. QED
    BY <1>1, <2>2
<1>4. CASE Poll
  <2>1. PICK exits \in BOOLEAN : PollChild(exits) \/ UNCHANGED sidecarVars
    BY <1>4 DEF Poll, ExitSeen
  <2>2. SidecarDoes(<<>>, exits)
    BY <1>4, <2>1 DEF Poll, SidecarDoes
  <2>3. QED
    BY <1>1, <2>2
<1>5. CASE Tick
  <2>1. UNCHANGED sidecarVars \/ \E ls \in MayGive("counters") : EtwTick(ls)
    BY <1>5 DEF Tick
  <2>2. PICK ls \in PlainLines : EtwTick(ls) \/ UNCHANGED sidecarVars
    BY <1>1, <2>1, LineTypes
  <2>3. SidecarDoes(ls, FALSE)
    BY <1>5, <2>2 DEF Tick, SidecarDoes
  <2>4. QED
    BY <1>1, <2>3
<1>6. CASE Consume \/ ProcessTraceReturns
  <2>1. PICK exits \in BOOLEAN, ls \in {<<>>, <<"record">>} : OnEtwRecord(exits, ls)
    BY <1>6 DEF Consume, ProcessTraceReturns, ExitSeen
  <2>2. ls \in PlainLines
    BY DEF PlainLines
  <2>3. SidecarDoes(ls, exits)
    BY <1>6, <2>1 DEF Consume, ProcessTraceReturns, SidecarDoes
  <2>4. QED
    BY <2>2, <2>3
<1>7. CASE ReadEvent
  <2>1. (got = 0 /\ OnHello) \/ \E ls \in MayGive("record") : OnObjectEvent(ls)
    BY <1>7 DEF ReadEvent, OnEvent
  <2>2. PICK ls \in PlainLines : (got = 0 /\ OnHello) \/ OnObjectEvent(ls)
    BY <1>1, <2>1, LineTypes
  <2>3. SidecarDoes(ls, FALSE)
    BY <1>7, <2>2 DEF ReadEvent, SidecarDoes
  <2>4. QED
    BY <1>1, <2>3
<1>8. CASE \/ RemoteThread \/ Target \/ InjectTimesOut \/ Log \/ SessionStops
           \/ ReaderCheck \/ ReadPends \/ ReadFails \/ UNCHANGED vars
  <2>1. UNCHANGED sidecarVars
    BY <1>8 DEF RemoteThread, DllConnect, DllAttach, DllAttached, Target, TargetEvent,
       TargetExits, TargetGone, TargetKilled, InjectTimesOut, Log, SessionStops, ReaderCheck,
       ReadPends, ReadFails, vars, etwVars
  <2>2. QED
    BY <1>1, <1>2, <2>1
<1>9. CASE \/ Create \/ InjectDll \/ Injected \/ Resume \/ ConnectAndStart \/ Wait
           \/ Sleep \/ Stop \/ CancelIo \/ Join \/ StopSession \/ JoinConsumer
  <2>1. UNCHANGED sidecarVars
    BY <1>9 DEF Create, InjectDll, Injected, Resume, ConnectAndStart, Wait, Sleep, Stop,
       CancelIo, Join, StopSession, JoinConsumer, etwVars
  <2>2. QED
    BY <1>1, <1>2, <2>1
<1>10. QED
  BY <1>3, <1>4, <1>5, <1>6, <1>7, <1>8, <1>9 DEF Next, Launcher, Reader, Consumer

-----------------------------------------------------------------------------
(* Theorems *)

LEMMA Invariance == Spec => [](ControlInv /\ SidecarTypeOK)
<1>1. Init => ControlInv /\ SidecarTypeOK
  <2>1. Init => SidecarTypeOK
    <3>1. <<>> \in Seq(Line)
      OBVIOUS
    <3>2. QED
      BY <3>1 DEF Init, SidecarInit, SidecarTypeOK
  <2>2. QED
    BY <2>1, ControlInit
<1>2. ControlInv /\ SidecarTypeOK /\ [Next]_vars => (ControlInv /\ SidecarTypeOK)'
  <2> SUFFICES ASSUME ControlInv, SidecarTypeOK, [Next]_vars
               PROVE  ControlInv' /\ SidecarTypeOK'
    OBVIOUS
  <2>1. PICK ls \in PlainLines, exits \in BOOLEAN : SidecarDoes(ls, exits)
    BY SidecarStep
  <2>2. SidecarTypeOK'
    BY <2>1, SidecarTypes
  <2>3. QED
    BY <2>2, ControlNext
<1>3. QED
  BY <1>1, <1>2, PTL DEF Spec

\* Every variable keeps its type, and no event disappears between the DLL's end
\* of the pipe and the model, whatever the launcher and the target do.
THEOREM TypeCorrect == Spec => []TypeOK
<1>1. ControlInv /\ SidecarTypeOK => TypeOK
  BY DEF ControlInv, TypeOK
<1>2. QED
  BY <1>1, Invariance, PTL

\* A DLL whose startup events fit into the buffer of the pipe never waits for the
\* launcher that waits for it: for every buffer and every number of mapped modules.
THEOREM StartupDoesNotDeadlock == Spec => []NoStartupDeadlock
<1>1. ControlInv => NoStartupDeadlock
  BY ConstantsAssumption DEF ControlInv, ControlTypeOK, StartupInv, NoStartupDeadlock, Full
<1>2. QED
  BY <1>1, Invariance, PTL

\* Stop loses none of the target's events if the reader gets the time it needs:
\* PipeServer::Stop and CancelIoEx find the reader at its end.
THEOREM SummaryCoversAllEvents == Spec => []SummaryIsComplete
<1>1. ControlInv => SummaryIsComplete
  BY DEF ControlInv, ControlTypeOK, ReaderInv, Stopping, SummaryIsComplete
<1>2. QED
  BY <1>1, Invariance, PTL

-----------------------------------------------------------------------------
(* The sidecar: the inductive invariant *)

\* How far the main sequence has come, and what holds then of the session, its
\* consumer and the exit of the target.
MonitorInv ==
  /\ main \in {"create", "inject", "enable"} => side_ = "none" /\ ~etw_running
  /\ main = "start" => etw_enabled_ /\ side_ \in {"none", "open"} /\ ~etw_running
  /\ hello_seen_ <=> got > 0
  /\ ~etw_running => consumer = "none" /\ ~session
  /\ etw_running => etw_enabled_ /\ side_ \in {"none", "open", "closed"}
  /\ side_ = "closed" => main = "done" /\ etw_running
  /\ main \in {"joinEtw", "finish"} => etw_running
  /\ main \in {"finish", "done"} /\ etw_running => consumer \in {"ended", "failed"}
  /\ main = "done" /\ etw_running => side_ # "open"
  /\ consumer = "ended" => ~session /\ records = 0
  /\ child_done => target = "gone" /\ main # "create"
  /\ main \in {"sleep", "stop"} \cup Stopping => child_done
  /\ main \in {"tick", "sleep", "stop"} \cup Stopping /\ child_done /\ etw_running =>
       child_exiting_

\* Before hello all lines wait, except in a file that is already complete.
Ordered ==
  IF hello_seen_
  THEN file = <<"etw_hello">> \o given /\ side_prebuf_ = <<>>
  ELSE file \o side_prebuf_ = given /\ (side_ = "open" => file = <<>>)

\* What is in the file, what waits and what was given.
ContentInv ==
  /\ side_ = "none" => file = <<>> /\ side_prebuf_ = <<>> /\ given = <<>>
  /\ side_ \in {"open", "closed"} => Ordered
  /\ side_ = "open" => etw_enabled_
  /\ IF child_exiting_
     THEN \A i, j \in OfKind(given, "target_exiting") : i = j
     ELSE OfKind(given, "target_exiting") = {}
  /\ IF side_ = "closed"
     THEN OfKind(given, "etw_stats") = {Len(given)}
     ELSE OfKind(given, "etw_stats") = {}

-----------------------------------------------------------------------------
(* Kinds of lines *)

\* A line of a concatenation is a line of one of the two.
LEMMA KindsOfConcat ==
  ASSUME NEW s \in Seq(Line), NEW t \in Seq(Line), NEW k
  PROVE  \A i \in OfKind(s \o t, k) :
           \/ i \in OfKind(s, k)
           \/ /\ i - Len(s) \in OfKind(t, k)
              /\ i \in Int
<1> SUFFICES ASSUME NEW i \in OfKind(s \o t, k)
             PROVE  \/ i \in OfKind(s, k)
                    \/ i - Len(s) \in OfKind(t, k) /\ i \in Int
  OBVIOUS
<1>1. /\ Len(s) \in Nat /\ Len(t) \in Nat
      /\ i \in 1..(Len(s) + Len(t)) /\ (s \o t)[i] = k
  BY ConcatProperties, LenProperties DEF OfKind
<1>2. (s \o t)[i] = IF i <= Len(s) THEN s[i] ELSE t[i - Len(s)]
  BY <1>1, ConcatProperties
<1>3. CASE i <= Len(s)
  BY <1>1, <1>2, <1>3 DEF OfKind
<1>4. CASE ~(i <= Len(s))
  BY <1>1, <1>2, <1>4 DEF OfKind
<1>5. QED
  BY <1>3, <1>4

\* Lines without the kind leave it where it was.
LEMMA KindsOfOther ==
  ASSUME NEW s \in Seq(Line), NEW t \in Seq(Line), NEW k, OfKind(t, k) = {}
  PROVE  OfKind(s \o t, k) = OfKind(s, k)
<1>1. OfKind(s \o t, k) \subseteq OfKind(s, k)
  BY KindsOfConcat
<1>2. ASSUME NEW i \in OfKind(s, k)
      PROVE  i \in OfKind(s \o t, k)
  <2>1. Len(s) \in Nat /\ Len(t) \in Nat /\ i \in 1..Len(s) /\ s[i] = k
    BY <1>2, LenProperties DEF OfKind
  <2>2. (s \o t)[i] = s[i] /\ i \in 1..Len(s \o t)
    BY <2>1, ConcatProperties
  <2>3. QED
    BY <2>1, <2>2 DEF OfKind
<1>3. QED
  BY <1>1, <1>2

\* Events, records and ticks bring neither the exit nor the statistics, and the
\* line of PollChildLocked is no statistics.
LEMMA PlainKinds ==
  /\ \A ls \in PlainLines :
       OfKind(ls, "target_exiting") = {} /\ OfKind(ls, "etw_stats") = {}
  /\ \A b \in BOOLEAN : OfKind(ExitLines(b), "etw_stats") = {}
<1>1. /\ OfKind(<<>>, "target_exiting") = {} /\ OfKind(<<>>, "etw_stats") = {}
      /\ OfKind(<<"record">>, "target_exiting") = {}
      /\ OfKind(<<"record">>, "etw_stats") = {}
      /\ OfKind(<<"counters">>, "target_exiting") = {}
      /\ OfKind(<<"counters">>, "etw_stats") = {}
      /\ OfKind(<<"target_exiting">>, "etw_stats") = {}
  BY DEF OfKind
<1>2. QED
  BY <1>1 DEF PlainLines, ExitLines

LEMMA LinesAssociate ==
  \A a, b, c \in Seq(Line) : (a \o b) \o c = a \o (b \o c)
<1> SUFFICES ASSUME NEW a \in Seq(Line), NEW b \in Seq(Line), NEW c \in Seq(Line)
             PROVE  (a \o b) \o c = a \o (b \o c)
  OBVIOUS
<1>1. QED
  BY ConcatAssociative, SMTT(60)

-----------------------------------------------------------------------------
(* One operation of the sidecar *)

\* SideLine keeps the lines in order, whether they wait or not.
LEMMA SideLineOrder ==
  ASSUME SidecarTypeOK, ContentInv, side_ # "closed",
         NEW ls \in Seq(Line), SideLine(ls),
         UNCHANGED <<etw_enabled_, side_, hello_seen_>>
  PROVE  /\ side_' = "none" => file' = <<>> /\ side_prebuf_' = <<>> /\ given' = <<>>
         /\ side_' \in {"open", "closed"} => Ordered'
         /\ side_' = "open" => etw_enabled_'
<1>1. <<"etw_hello">> \in Seq(Line) /\ <<>> \in Seq(Line)
  BY DEF Line
<1>2. {side_prebuf_, file, given} \subseteq Seq(Line)
  BY DEF SidecarTypeOK
<1>3. CASE side_ # "open"
  <2>1. side_' \notin {"open", "closed"}
    BY <1>3
  <2>2. side_ = "none" => given' = <<>> /\ file' = <<>> /\ side_prebuf_' = <<>>
    BY DEF ContentInv, SideLine
  <2>3. QED
    BY <2>1, <2>2
<1>4. CASE side_ = "open" /\ hello_seen_
  <2>1. file' = (<<"etw_hello">> \o given) \o ls /\ given' = given \o ls
        /\ side_prebuf_' = <<>>
    BY <1>4 DEF ContentInv, Ordered, SideLine
  <2>2. (<<"etw_hello">> \o given) \o ls = <<"etw_hello">> \o (given \o ls)
    BY <1>1, <1>2, LinesAssociate
  <2>3. Ordered'
    BY <1>4, <2>1, <2>2 DEF Ordered
  <2>4. QED
    BY <1>4, <2>3 DEF ContentInv
<1>5. CASE side_ = "open" /\ ~hello_seen_
  <2>1. file = <<>> /\ file \o side_prebuf_ = given
    BY <1>5 DEF ContentInv, Ordered
  <2>2. side_prebuf_ = given
    BY <1>2, <2>1, ConcatEmptySeq
  <2>3. file' = <<>> /\ side_prebuf_' = given \o ls /\ given' = given \o ls
    BY <1>5, <2>1, <2>2 DEF SideLine
  <2>4. given \o ls \in Seq(Line)
    BY <1>2, ConcatProperties
  <2>5. file' \o side_prebuf_' = given'
    BY <2>3, <2>4, ConcatEmptySeq
  <2>6. Ordered'
    BY <1>5, <2>3, <2>5 DEF Ordered
  <2>7. QED
    BY <1>5, <2>6 DEF ContentInv
<1>6. QED
  BY <1>3, <1>4, <1>5

\* The exit is among the lines at most once: whoever reports it, the main loop
\* or the consumer, sets child_exiting_ in the same critical section.
LEMMA SideLineKinds ==
  ASSUME SidecarTypeOK, ContentInv, side_ # "closed",
         NEW exits \in BOOLEAN, NEW ls \in PlainLines,
         SideLine(ExitLines(exits) \o ls),
         child_exiting_' = (child_exiting_ \/ exits),
         UNCHANGED side_
  PROVE  /\ IF child_exiting_'
            THEN \A i, j \in OfKind(given', "target_exiting") : i = j
            ELSE OfKind(given', "target_exiting") = {}
         /\ OfKind(given', "etw_stats") = {}
<1> DEFINE ex == ExitLines(exits)
<1>1. given \in Seq(Line) /\ ex \in Seq(Line) /\ ls \in Seq(Line)
  BY LineTypes DEF SidecarTypeOK
<1>2. given \o ex \in Seq(Line) /\ given \o (ex \o ls) = (given \o ex) \o ls
  <2> HIDE DEF ex
  <2>1. given \o ex \in Seq(Line)
    BY <1>1, ConcatProperties
  <2>2. (given \o ex) \o ls = given \o (ex \o ls)
    BY <1>1, LinesAssociate
  <2>3. QED
    BY <2>1, <2>2
<1>3. /\ OfKind((given \o ex) \o ls, "target_exiting") = OfKind(given \o ex, "target_exiting")
      /\ OfKind((given \o ex) \o ls, "etw_stats") = OfKind(given, "etw_stats")
  <2>1. OfKind(ls, "target_exiting") = {} /\ OfKind(ls, "etw_stats") = {}
    BY PlainKinds
  <2>2. OfKind(ex, "etw_stats") = {}
    BY PlainKinds
  <2>3. OfKind(given \o ex, "etw_stats") = OfKind(given, "etw_stats")
    BY <1>1, <2>2, KindsOfOther
  <2>4. QED
    BY <1>1, <1>2, <2>1, <2>3, KindsOfOther
<1>4. IF child_exiting_'
      THEN \A i, j \in OfKind(given \o ex, "target_exiting") : i = j
      ELSE OfKind(given \o ex, "target_exiting") = {}
  <2>1. CASE ex = <<>>
    <3>1. given \o ex = given
      BY <1>1, <2>1, ConcatEmptySeq
    <3>2. OfKind(given, "target_exiting") = {} \/ child_exiting_
      BY DEF ContentInv
    <3>3. \A i, j \in OfKind(given, "target_exiting") : i = j
      BY DEF ContentInv
    <3>4. ~child_exiting_' => ~child_exiting_
      OBVIOUS
    <3>5. QED
      BY <3>1, <3>2, <3>3, <3>4
  <2>2. CASE ex # <<>>
    <3>1. exits /\ ~child_exiting_ /\ ex = <<"target_exiting">>
      BY <2>2 DEF ExitLines
    <3>2. OfKind(given, "target_exiting") = {}
      BY <3>1 DEF ContentInv
    <3>3. OfKind(ex, "target_exiting") \subseteq {1}
      <4>1. OfKind(<<"target_exiting">>, "target_exiting") \subseteq {1}
        BY DEF OfKind
      <4>2. QED
        BY <3>1, <4>1
    <3>4. Len(given) \in Nat
      BY <1>1, LenProperties
    <3>5. \A i \in OfKind(given \o ex, "target_exiting") : i \in Int /\ i - Len(given) = 1
      BY <1>1, <3>2, <3>3, KindsOfConcat
    <3>6. \A i, j \in OfKind(given \o ex, "target_exiting") : i = j
      BY <3>4, <3>5
    <3>7. QED
      BY <3>1, <3>6
  <2>3. QED
    BY <2>1, <2>2
<1>5. OfKind(given, "etw_stats") = {}
  BY DEF ContentInv
<1>6. given' \in {given, given \o (ex \o ls)} /\ (given' = given => given = <<>> \/ given' = given \o (ex \o ls))
  BY DEF SideLine, ContentInv
<1>7. CASE given' = given \o (ex \o ls)
  BY <1>2, <1>3, <1>4, <1>5, <1>7
<1>8. CASE given' = given /\ given = <<>>
  <2>1. OfKind(given', "target_exiting") = {} /\ OfKind(given', "etw_stats") = {}
    BY <1>8 DEF OfKind
  <2>2. QED
    BY <2>1
<1>9. QED
  BY <1>6, <1>7, <1>8

LEMMA Given ==
  ASSUME SidecarTypeOK, ContentInv, side_ # "closed",
         NEW exits \in BOOLEAN, NEW ls \in PlainLines,
         SideLine(ExitLines(exits) \o ls),
         child_exiting_' = (child_exiting_ \/ exits),
         UNCHANGED <<etw_enabled_, side_, hello_seen_>>
  PROVE  ContentInv'
<1>1. ExitLines(exits) \o ls \in Seq(Line)
  BY LineTypes, ConcatProperties
<1>2. /\ side_' = "none" => file' = <<>> /\ side_prebuf_' = <<>> /\ given' = <<>>
      /\ side_' \in {"open", "closed"} => Ordered'
      /\ side_' = "open" => etw_enabled_'
  BY <1>1, SideLineOrder
<1>3. /\ IF child_exiting_'
         THEN \A i, j \in OfKind(given', "target_exiting") : i = j
         ELSE OfKind(given', "target_exiting") = {}
      /\ OfKind(given', "etw_stats") = {}
  BY SideLineKinds
<1>4. side_' # "closed"
  OBVIOUS
<1>5. QED
  BY <1>2, <1>3, <1>4 DEF ContentInv

\* hello brings the lines that have waited.
LEMMA HelloContent ==
  ASSUME SidecarTypeOK, ContentInv, side_ # "closed", ~hello_seen_, OnHello
  PROVE  ContentInv'
<1>1. CASE side_ = "open"
  <2>1. {side_prebuf_, file, given} \subseteq Seq(Line) /\ <<"etw_hello">> \in Seq(Line)
    BY DEF SidecarTypeOK, Line
  <2>2. file = <<>> /\ side_prebuf_ = given
    <3>1. file = <<>> /\ file \o side_prebuf_ = given
      BY <1>1 DEF ContentInv, Ordered
    <3>2. QED
      BY <2>1, <3>1, ConcatEmptySeq
  <2>3. file' = (file \o <<"etw_hello">>) \o side_prebuf_ /\ side_prebuf_' = <<>>
    BY <1>1 DEF OnHello, ContentInv
  <2>4. file \o <<"etw_hello">> = <<"etw_hello">>
    BY <2>1, <2>2, ConcatEmptySeq
  <2>5. file' = <<"etw_hello">> \o given /\ side_prebuf_' = <<>> /\ hello_seen_'
    BY <2>2, <2>3, <2>4 DEF OnHello
  <2>6. Ordered'
    BY <2>5 DEF Ordered, OnHello
  <2>7. QED
    BY <1>1, <2>6 DEF ContentInv, OnHello
<1>2. CASE side_ # "open"
  <2>1. UNCHANGED <<etw_enabled_, side_, side_prebuf_, child_exiting_, file, given>>
    BY <1>2 DEF OnHello
  <2>2. QED
    BY <1>2, <2>1 DEF ContentInv
<1>3. QED
  BY <1>1, <1>2

\* etw_stats is behind everything that was given, also behind the lines that
\* hello never came for.
LEMMA FinishContent ==
  ASSUME SidecarTypeOK, ContentInv, side_ # "closed", FinishEtw
  PROVE  ContentInv'
<1> DEFINE st == <<"etw_stats">>
<1>1. CASE side_ = "open"
  <2>1. {side_prebuf_, file, given} \subseteq Seq(Line)
    BY DEF SidecarTypeOK
  <2>2. st \in Seq(Line) /\ <<"etw_hello">> \in Seq(Line) /\ <<>> \in Seq(Line)
    BY DEF Line
  <2>3. /\ file' = (file \o side_prebuf_) \o st /\ given' = given \o st
        /\ side_prebuf_' = <<>> /\ side_' = "closed"
        /\ UNCHANGED <<etw_enabled_, hello_seen_, child_exiting_>>
    BY <1>1 DEF FinishEtw, ContentInv
  <2>4. given' \in Seq(Line) /\ Len(given') = Len(given) + 1 /\ Len(given) \in Nat
    BY <2>1, <2>2, <2>3, ConcatProperties, LenProperties
  <2>5. Ordered'
    <3>1. CASE hello_seen_
      <4>1. file = <<"etw_hello">> \o given /\ side_prebuf_ = <<>>
        BY <1>1, <3>1 DEF ContentInv, Ordered
      <4>2. file \o side_prebuf_ = file
        BY <2>1, <4>1, ConcatEmptySeq
      <4>3. file' = (<<"etw_hello">> \o given) \o st
        BY <2>3, <4>1, <4>2
      <4>4. (<<"etw_hello">> \o given) \o st = <<"etw_hello">> \o (given \o st)
        BY <2>1, <2>2, LinesAssociate
      <4>5. QED
        BY <2>3, <3>1, <4>3, <4>4 DEF Ordered
    <3>2. CASE ~hello_seen_
      <4>1. file \o side_prebuf_ = given
        BY <1>1, <3>2 DEF ContentInv, Ordered
      <4>2. file' = given'
        BY <2>3, <4>1
      <4>3. file' \o <<>> = given'
        BY <2>4, <4>2, ConcatEmptySeq
      <4>4. QED
        BY <2>3, <3>2, <4>3 DEF Ordered
    <3>3. QED
      BY <3>1, <3>2
  <2>6. OfKind(given', "target_exiting") = OfKind(given, "target_exiting")
    <3>1. OfKind(st, "target_exiting") = {}
      BY DEF OfKind
    <3>2. QED
      BY <2>1, <2>2, <2>3, <3>1, KindsOfOther
  <2>7. OfKind(given', "etw_stats") = {Len(given')}
    <3>1. OfKind(given, "etw_stats") = {}
      BY <1>1 DEF ContentInv
    <3>2. OfKind(st, "etw_stats") \subseteq {1}
      BY DEF OfKind
    <3>3. \A i \in OfKind(given \o st, "etw_stats") : i \in Int /\ i - Len(given) = 1
      BY <2>1, <2>2, <3>1, <3>2, KindsOfConcat
    <3>4. \A i \in OfKind(given', "etw_stats") : i = Len(given')
      BY <2>3, <2>4, <3>3
    <3>5. given'[Len(given')] = "etw_stats"
      <4>1. Len(st) = 1 /\ st[1] = "etw_stats"
        OBVIOUS
      <4>2. Len(given) + 1 \in 1..(Len(given) + Len(st))
        BY <2>4, <4>1
      <4>3. given'[Len(given) + 1] = st[(Len(given) + 1) - Len(given)]
        BY <2>1, <2>2, <2>3, <2>4, <4>2, ConcatProperties
      <4>4. QED
        BY <2>4, <4>1, <4>3
    <3>6. Len(given') \in OfKind(given', "etw_stats")
      BY <2>4, <3>5 DEF OfKind
    <3>7. QED
      BY <3>4, <3>6
  <2>8. QED
    BY <2>3, <2>5, <2>6, <2>7 DEF ContentInv
<1>2. CASE side_ # "open"
  <2>1. UNCHANGED sidecarVars
    BY <1>2 DEF FinishEtw, sidecarVars
  <2>2. QED
    BY <2>1 DEF ContentInv, Ordered, sidecarVars
<1>3. QED
  BY <1>1, <1>2

-----------------------------------------------------------------------------
(* The steps of the launcher *)

\* Whoever gives a line finds the file still open, or never opened or deleted.
LEMMA ContentStep ==
  ASSUME ControlInv, SidecarTypeOK, MonitorInv, ContentInv, [Next]_vars
  PROVE  ContentInv'
<1>1. PICK ls \in PlainLines, exits \in BOOLEAN : SidecarDoes(ls, exits)
  BY SidecarStep
<1>2. <<>> \in PlainLines /\ FALSE \in BOOLEAN
  BY DEF PlainLines
<1>3. \A x \in PlainLines : ExitLines(FALSE) \o x = x
  BY LineTypes, ConcatEmptySeq DEF ExitLines
<1>4. side_ = "closed" => /\ main = "done" /\ consumer # "running"
                          /\ reader \in {"none", "ended"}
  BY DEF MonitorInv, ControlInv, ReaderInv
<1>5. CASE EnableEtw /\ main = "enable"
  <2>1. side_ = "none" /\ reader = "none"
    BY <1>5 DEF MonitorInv, ControlInv, ReaderInv
  <2>2. got = 0 /\ ~hello_seen_
    BY <2>1 DEF MonitorInv, ControlInv, ReaderInv
  <2>3. file = <<>> /\ side_prebuf_ = <<>> /\ given = <<>>
    BY <2>1 DEF ContentInv
  <2>4. UNCHANGED <<hello_seen_, side_prebuf_, child_exiting_, file, given>>
        /\ side_' \in {"none", "open"} /\ etw_enabled_'
    BY <1>5 DEF EnableEtw
  <2>5. file' \o side_prebuf_' = given'
    BY <2>3, <2>4
  <2>6. Ordered'
    BY <2>2, <2>3, <2>4, <2>5 DEF Ordered
  <2>7. QED
    BY <2>1, <2>3, <2>4, <2>6 DEF ContentInv
<1>6. CASE DisableEtw /\ main = "start"
  <2>1. side_ \in {"none", "open"}
    BY <1>6 DEF MonitorInv
  <2>2. side_' \in {"none", "deleted"} /\ (side_' = "none" => side_ = "none")
        /\ side_prebuf_' = <<>> /\ UNCHANGED <<child_exiting_, file, given>>
    BY <1>6, <2>1 DEF DisableEtw
  <2>3. QED
    BY <2>1, <2>2 DEF ContentInv
<1>7. CASE OnHello /\ reader \in {"read", "reading"} /\ got = 0
  <2>1. side_ # "closed" /\ ~hello_seen_
    BY <1>4, <1>7 DEF MonitorInv
  <2>2. QED
    BY <1>7, <2>1, HelloContent
<1>8. CASE OnObjectEvent(ls) /\ reader \in {"read", "reading"}
  <2>1. PICK x \in PlainLines : SideLine(x)
    BY <1>2, <1>8 DEF OnObjectEvent
  <2>2. SideLine(ExitLines(FALSE) \o x)
    BY <1>3, <2>1
  <2>3. UNCHANGED <<etw_enabled_, side_, hello_seen_>> /\ side_ # "closed"
        /\ child_exiting_' = (child_exiting_ \/ FALSE)
    BY <1>4, <1>8 DEF OnObjectEvent, SidecarTypeOK
  <2>4. QED
    BY <1>2, <2>2, <2>3, Given
<1>9. CASE OnEtwRecord(exits, ls) /\ consumer = "running"
  <2>1. SideLine(ExitLines(exits) \o ls) /\ UNCHANGED <<etw_enabled_, side_, hello_seen_>>
        /\ side_ # "closed" /\ child_exiting_' = (child_exiting_ \/ exits)
    BY <1>4, <1>9 DEF OnEtwRecord
  <2>2. QED
    BY <2>1, Given
<1>10. CASE PollChild(exits) /\ main = "poll"
  <2>1. ExitLines(exits) \o <<>> = ExitLines(exits)
    BY LineTypes, ConcatEmptySeq
  <2>2. SideLine(ExitLines(exits) \o <<>>) /\ UNCHANGED <<etw_enabled_, side_, hello_seen_>>
        /\ side_ # "closed" /\ child_exiting_' = (child_exiting_ \/ exits)
    BY <1>4, <1>10, <2>1 DEF PollChild
  <2>3. QED
    BY <1>2, <2>2, Given
<1>11. CASE EtwTick(ls) /\ main = "tick"
  <2>1. PICK x \in PlainLines : SideLine(x)
    BY <1>2, <1>11 DEF EtwTick
  <2>2. SideLine(ExitLines(FALSE) \o x)
    BY <1>3, <2>1
  <2>3. UNCHANGED <<etw_enabled_, side_, hello_seen_>> /\ side_ # "closed"
        /\ child_exiting_' = (child_exiting_ \/ FALSE)
    BY <1>4, <1>11 DEF EtwTick, SidecarTypeOK
  <2>4. QED
    BY <1>2, <2>2, <2>3, Given
<1>12. CASE FinishEtw /\ main = "finish"
  BY <1>4, <1>12, FinishContent
<1>13. CASE UNCHANGED sidecarVars
  BY <1>13 DEF ContentInv, Ordered, sidecarVars
<1>14. QED
  BY <1>1, <1>5, <1>6, <1>7, <1>8, <1>9, <1>10, <1>11, <1>12, <1>13 DEF SidecarDoes

\* The remote thread, the target and the reader; hello is the first event.
LEMMA OthersMonitor ==
  ASSUME ControlInv, MonitorInv,
         \/ RemoteThread \/ Target \/ InjectTimesOut \/ Reader \/ UNCHANGED vars
  PROVE  MonitorInv'
<1> USE DEF MonitorInv, Stopping, world, etwVars, monitorVars, sidecarVars, pipe
<1>1. got \in Nat
  BY DEF ControlInv, ControlTypeOK
<1>2. CASE RemoteThread
  BY <1>2 DEF RemoteThread, DllConnect, DllAttach, DllAttached
<1>3. CASE Target
  BY <1>3 DEF Target, TargetEvent, TargetExits, TargetGone, TargetKilled
<1>4. CASE InjectTimesOut
  BY <1>4 DEF InjectTimesOut, Abandon
<1>5. CASE ReadEvent
  <2>1. \/ OnHello
        \/ got # 0 /\ \E ls \in MayGive("record") : OnObjectEvent(ls)
    BY <1>5 DEF ReadEvent, OnEvent
  <2>2. UNCHANGED <<etw_enabled_, side_, child_exiting_>>
    BY <2>1 DEF OnHello, OnObjectEvent
  <2>3. hello_seen_' /\ got' > 0
    <3>1. got' = got + 1
      BY <1>5 DEF ReadEvent
    <3>2. OnHello => hello_seen_'
      BY DEF OnHello
    <3>3. got # 0 => hello_seen_
      BY <1>1
    <3>4. ASSUME NEW ls, OnObjectEvent(ls)
          PROVE  UNCHANGED hello_seen_
      BY <3>4 DEF OnObjectEvent
    <3>5. QED
      BY <1>1, <2>1, <3>1, <3>2, <3>3, <3>4
  <2>4. hello_seen_' <=> got' > 0
    BY <2>3
  <2>5. UNCHANGED <<main, target, child_done, etw_running, session, records, consumer>>
    BY <1>5 DEF ReadEvent
  <2>6. QED
    BY <2>2, <2>4, <2>5
<1>6. CASE ReaderCheck \/ ReadPends \/ ReadFails
  BY <1>6 DEF ReaderCheck, ReadPends, ReadFails
<1>7. CASE UNCHANGED vars
  BY <1>7 DEF vars
<1> HIDE DEF MonitorInv, Stopping, world, etwVars, monitorVars, sidecarVars, pipe
<1>8. QED
  BY <1>2, <1>3, <1>4, <1>5, <1>6, <1>7 DEF Reader

\* The session: the consumer ends when the session is stopped and drained, or
\* fails.
LEMMA ConsumerMonitor ==
  ASSUME ControlInv, MonitorInv, Consumer \/ Log \/ SessionStops
  PROVE  MonitorInv'
<1> USE DEF MonitorInv, Stopping, world, etwVars, monitorVars, sidecarVars, pipe
<1>1. ASSUME NEW exits \in BOOLEAN, NEW ls, OnEtwRecord(exits, ls)
      PROVE  /\ UNCHANGED <<etw_enabled_, side_, hello_seen_>>
             /\ child_exiting_ => child_exiting_'
  BY <1>1 DEF OnEtwRecord
<1>2. CASE Consume
  <2>1. UNCHANGED <<etw_enabled_, side_, hello_seen_>> /\ (child_exiting_ => child_exiting_')
    BY <1>1, <1>2 DEF Consume, ExitSeen
  <2>2. QED
    BY <1>2, <2>1 DEF Consume
<1>3. CASE ProcessTraceReturns
  <2>1. UNCHANGED <<etw_enabled_, side_, hello_seen_>> /\ (child_exiting_ => child_exiting_')
    BY <1>1, <1>3 DEF ProcessTraceReturns
  <2>2. QED
    BY <1>3, <2>1 DEF ProcessTraceReturns
<1>4. CASE Log \/ SessionStops
  BY <1>4 DEF Log, SessionStops
<1> HIDE DEF MonitorInv, Stopping, world, etwVars, monitorVars, sidecarVars, pipe
<1>5. QED
  BY <1>2, <1>3, <1>4 DEF Consumer

\* The launcher's main thread: the poll that follows the death of the target
\* reports it, the consumer is joined, and the file is closed after that.
LEMMA LauncherMonitor ==
  ASSUME ControlInv, MonitorInv, Launcher
  PROVE  MonitorInv'
<1> USE DEF MonitorInv, Stopping, world, etwVars, monitorVars, sidecarVars, pipe
<1>1. CASE Create
  BY <1>1 DEF Create
<1>2. CASE InjectDll \/ Injected
  BY <1>2 DEF InjectDll, Injected, Abandon
<1>3. CASE EnableSidecar
  BY <1>3 DEF EnableSidecar, EnableEtw
<1>4. CASE StartMonitor
  <2>1. /\ main = "start" /\ main' = "resume"
        /\ UNCHANGED <<child_done, records, target, got, hello_seen_, child_exiting_>>
    BY <1>4 DEF StartMonitor, DisableEtw
  <2>2. CASE /\ etw_running' = TRUE /\ session' = TRUE /\ consumer' = "running"
             /\ UNCHANGED sidecarVars
    BY <2>1, <2>2
  <2>3. CASE DisableEtw /\ UNCHANGED <<etw_running, session, consumer>>
    BY <2>1, <2>3 DEF DisableEtw
  <2>4. QED
    BY <1>4, <2>2, <2>3 DEF StartMonitor
<1>5. CASE Resume \/ ConnectAndStart
  BY <1>5 DEF Resume, ConnectAndStart
<1>6. CASE Wait
  BY <1>6 DEF Wait
<1>7. CASE Poll
  <2>1. CASE etw_running
    <3>1. PICK exits \in ExitSeen : PollChild(exits)
      BY <1>7, <2>1 DEF Poll
    <3>2. UNCHANGED <<etw_enabled_, side_, hello_seen_>> /\ (child_done => child_exiting_')
      BY <3>1 DEF PollChild, ExitSeen
    <3>3. QED
      BY <1>7, <3>2 DEF Poll
  <2>2. CASE ~etw_running
    BY <1>7, <2>2 DEF Poll
  <2>3. QED
    BY <2>1, <2>2
<1>8. CASE Tick
  <2>1. UNCHANGED <<etw_enabled_, side_, hello_seen_, child_exiting_>>
    BY <1>8 DEF Tick, EtwTick
  <2>2. QED
    BY <1>8, <2>1 DEF Tick
<1>9. CASE Sleep \/ Stop \/ CancelIo \/ Join
  BY <1>9 DEF Sleep, Stop, CancelIo, Join
<1>10. CASE StopSession
  <2>1. session' = FALSE \/ session' = session
    BY <1>10 DEF StopSession
  <2>2. QED
    BY <1>10, <2>1 DEF StopSession
<1>11. CASE JoinConsumer
  BY <1>11 DEF JoinConsumer
<1>12. CASE Finish
  BY <1>12 DEF Finish, FinishEtw
<1> HIDE DEF MonitorInv, Stopping, world, etwVars, monitorVars, sidecarVars, pipe
<1>13. QED
  BY <1>1, <1>2, <1>3, <1>4, <1>5, <1>6, <1>7, <1>8, <1>9, <1>10, <1>11, <1>12
  DEF Launcher

-----------------------------------------------------------------------------
(* Theorems *)

LEMMA SidecarInvariance == Spec => [](ControlInv /\ SidecarTypeOK /\ MonitorInv /\ ContentInv)
<1>1. Init => MonitorInv /\ ContentInv
  <2> SUFFICES ASSUME Init
               PROVE  MonitorInv /\ ContentInv
    OBVIOUS
  <2>1. MonitorInv
    BY DEF Init, SidecarInit, MonitorInv, Stopping
  <2>2. OfKind(given, "target_exiting") = {} /\ OfKind(given, "etw_stats") = {}
    BY DEF Init, SidecarInit, OfKind
  <2>3. side_ = "none" /\ file = <<>> /\ side_prebuf_ = <<>> /\ given = <<>>
        /\ child_exiting_ = FALSE
    BY DEF Init, SidecarInit
  <2>4. ContentInv
    BY <2>2, <2>3 DEF ContentInv
  <2>5. QED
    BY <2>1, <2>4
<1>2. ASSUME ControlInv, SidecarTypeOK, MonitorInv, ContentInv, [Next]_vars
      PROVE  MonitorInv' /\ ContentInv'
  <2>1. \/ RemoteThread \/ Target \/ InjectTimesOut \/ Reader \/ UNCHANGED vars
        \/ Consumer \/ Log \/ SessionStops \/ Launcher
    BY <1>2 DEF Next
  <2>2. MonitorInv'
    BY <1>2, <2>1, OthersMonitor, ConsumerMonitor, LauncherMonitor
  <2>3. QED
    BY <1>2, <2>2, ContentStep
<1>3. QED
  BY <1>1, <1>2, Invariance, PTL DEF Spec

\* No line of the three threads is lost, doubled or overtaken on its way to the
\* file, before and after hello, and the exit is reported once.
THEOREM SidecarKeepsOrder == Spec => []SidecarInOrder
<1>1. ContentInv => SidecarInOrder
  <2>1. ContentInv => \A i, j \in OfKind(given, "target_exiting") : i = j
    BY DEF ContentInv
  <2>2. QED
    BY <2>1 DEF ContentInv, Ordered, SidecarInOrder
<1>2. QED
  BY <1>1, SidecarInvariance, PTL

\* The statistics close the sidecar, after the last line that the consumer gave
\* and, unless ProcessTrace gave up, after the last record of the session, and the
\* exit of the target has been noticed by then.
THEOREM StatisticsCloseSidecar == Spec => []StatsAreLast
<1>1. SidecarTypeOK /\ MonitorInv /\ ContentInv => StatsAreLast
  <2> SUFFICES ASSUME SidecarTypeOK, MonitorInv, ContentInv
               PROVE  StatsAreLast
    OBVIOUS
  <2>1. \A i \in OfKind(given, "etw_stats") : i = Len(given)
    BY DEF ContentInv
  <2>2. ASSUME main = "done", etw_running
        PROVE  /\ consumer = "failed" \/ (consumer = "ended" /\ records = 0)
               /\ child_exiting_
               /\ side_ # "none" => side_ = "closed" /\ OfKind(given, "etw_stats") # {}
    <3>1. /\ consumer = "failed" \/ (consumer = "ended" /\ records = 0)
          /\ child_exiting_
      BY <2>2 DEF MonitorInv, Stopping
    <3>2. side_ \in {"none", "closed"}
      BY <2>2 DEF MonitorInv
    <3>3. side_ = "closed" => OfKind(given, "etw_stats") # {}
      BY DEF ContentInv
    <3>4. QED
      BY <3>1, <3>2, <3>3
  <2>3. QED
    BY <2>1, <2>2 DEF StatsAreLast
<1>2. QED
  BY <1>1, SidecarInvariance, PTL

=============================================================================
