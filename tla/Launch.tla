-------------------------------- MODULE Launch --------------------------------
(***************************************************************************)
(* The launcher's main sequence (Main.cpp from the creation of the pipe to *)
(* the final summary, Injector.cpp, PipeServer.cpp) beside the target it   *)
(* starts: the injected thread that runs OnAttach while the target is      *)
(* suspended, the target itself, the thread that reads the pipe and, with  *)
(* --etw, the consumer of the ETW session; all but the target write to the *)
(* sidecar of module Sidecar.                                              *)
(*                                                                         *)
(* The pipe is a bounded buffer, counted in events: a WriteFile into a     *)
(* full buffer waits.  What is in the events, and what threads of the      *)
(* target do to each other, is the subject of Tracker and Session; how a   *)
(* session is set up beside other launchers that of EtwSession.            *)
(***************************************************************************)
EXTENDS Sidecar

CONSTANTS
  Capacity,    \* events that the buffer of the pipe holds
  MaxStartup,  \* bound: events that OnAttach sends
  MaxEvents,   \* bound: events sent
  MaxRecords,  \* bound: records of the ETW session
  MaxLines     \* bound: lines from object events and counters

ASSUME ConstantsAssumption ==
  {Capacity, MaxStartup, MaxEvents, MaxRecords, MaxLines} \subseteq Nat

VARIABLES
  startup,  \* external: events OnAttach sends (hello and the mapped modules)
  taken,    \* external: another client came for the only instance of the pipe
  prompt,   \* external: the reader drains the pipe within the 200 ms of wmain
  main,     \* the launcher's main thread
  inject,   \* the remote thread in LoadLibraryW
  target,   \* the main thread of the target
  client,   \* the DLL's end of the pipe
  buffered, \* events in the buffer of the pipe
  sent,     \* events written by the DLL
  todo,     \* events OnAttach has still to send
  reader,   \* PipeServer::reader_
  stop_,    \* PipeServer::stop_
  got,      \* events handed to Model::OnEvent
  child_done,  \* of wmain
  etw_running, \* of wmain
  session,  \* external: the ETW session is there
  records,  \* external: its records that the consumer has not had
  logged,   \* external: its records
  consumer  \* Monitor::Impl::consumer

world == <<startup, taken, prompt>>
monitorVars == <<session, records, logged, consumer>>
etwVars == <<child_done, etw_running, monitorVars, sidecarVars>>
vars == <<world, etwVars, main, inject, target, client, buffered, sent, todo, reader,
          stop_, got>>

pipe == <<client, buffered, sent>>

-----------------------------------------------------------------------------
(* The DLL's end of the pipe *)

Full == buffered = Capacity

\* Mutant: every event is sent by two observers.
SendTwice ==
  IF client = "open"
  THEN buffered + 2 <= Capacity /\ buffered' = buffered + 2 /\ sent' = sent + 2
  ELSE UNCHANGED <<buffered, sent>>

\* Send: nothing without a pipe, and no return while the pipe is full.
Send ==
  IF client = "open"
  THEN ~Full /\ buffered' = buffered + 1 /\ sent' = sent + 1
  ELSE UNCHANGED <<buffered, sent>>

\* PipeClient::Connect succeeds, or gives up after its retries; while the pipe
\* is busy it never does either.
DllConnect ==
  /\ inject = "connect" /\ ~taken
  /\ client' \in {"open", "none"}
  /\ inject' = "attach"
  /\ UNCHANGED <<world, etwVars, main, target, buffered, sent, todo, reader, stop_, got>>

\* hello and the modules, while nobody reads the pipe.
DllAttach ==
  /\ inject = "attach" /\ todo > 0
  /\ Send
  /\ todo' = todo - 1
  /\ UNCHANGED <<world, etwVars, main, inject, target, client, reader, stop_, got>>

\* OnAttach and LoadLibraryW return.
DllAttached ==
  /\ inject = "attach" /\ todo = 0
  /\ inject' = "returned"
  /\ UNCHANGED <<world, etwVars, main, target, pipe, todo, reader, stop_, got>>

\* External: an event of the running target.
TargetEvent ==
  /\ target = "running"
  /\ client = "open" /\ sent < MaxEvents
  /\ Send
  /\ UNCHANGED <<world, etwVars, main, inject, target, client, todo, reader, stop_, got>>

\* The target exits: OnDetach sends goodbye.
TargetExits ==
  /\ target = "running"
  /\ Send
  /\ target' = "exiting"
  /\ UNCHANGED <<world, etwVars, main, inject, client, todo, reader, stop_, got>>

CloseClient == client' = IF client = "open" THEN "closed" ELSE client

\* OnDetach has closed the pipe and the process is gone.
TargetGone ==
  /\ target = "exiting"
  /\ target' = "gone"
  /\ CloseClient
  /\ UNCHANGED <<world, etwVars, main, inject, buffered, sent, todo, reader, stop_, got>>

\* External: the target is killed, its injected thread with it.
TargetKilled ==
  /\ target \in {"suspended", "running", "exiting"}
  /\ target' = "gone"
  /\ CloseClient
  /\ inject' = IF inject = "none" THEN "none" ELSE "returned"
  /\ UNCHANGED <<world, etwVars, main, buffered, sent, todo, reader, stop_, got>>

-----------------------------------------------------------------------------
(* The launcher's main thread *)

\* The pipe and the suspended target are created, or wmain returns 3 or 4.
Create ==
  /\ main = "create"
  /\ \/ main' = "inject" /\ target' = "suspended"
     \/ main' = "failed" /\ UNCHANGED target
  /\ UNCHANGED <<world, etwVars, inject, pipe, todo, reader, stop_, got>>

\* InjectDll fails: the target is terminated and wmain returns 5.
Abandon ==
  /\ main' = "failed"
  /\ target' = "gone"
  /\ CloseClient

\* InjectDll starts LoadLibraryW in the target, or cannot.
InjectDll ==
  /\ main = "inject" /\ inject = "none"
  /\ \/ target # "gone" /\ inject' = "connect" /\ UNCHANGED <<main, target, client>>
     \/ Abandon /\ UNCHANGED inject
  /\ UNCHANGED <<world, etwVars, buffered, sent, todo, reader, stop_, got>>

\* The remote thread has ended.  Its exit code is the low half of the module
\* handle, and 0, which may also be the low half of a handle, is a failure.
Injected ==
  /\ main = "inject" /\ inject = "returned"
  /\ \/ main' = "enable" /\ UNCHANGED <<target, client>>
     \/ Abandon
  /\ UNCHANGED <<world, etwVars, inject, buffered, sent, todo, reader, stop_, got>>

\* The wait of InjectDll times out on a thread that is blocked or only slow.
InjectTimesOut ==
  /\ main = "inject" /\ inject \in {"connect", "attach"}
  /\ Abandon
  /\ inject' = "returned"
  /\ UNCHANGED <<world, etwVars, buffered, sent, todo, reader, stop_, got>>

\* With --etw, EnableEtw while the target is suspended.
EnableSidecar ==
  /\ main = "enable"
  /\ \/ main' = "resume" /\ UNCHANGED sidecarVars
     \/ main' = "start" /\ EnableEtw
  /\ UNCHANGED <<world, child_done, etw_running, monitorVars, inject, target, pipe,
                 todo, reader, stop_, got>>

\* Monitor::Start, or DisableEtw when it fails or is not tried.
StartMonitor ==
  /\ main = "start"
  /\ main' = "resume"
  /\ \/ /\ etw_running' = TRUE /\ session' = TRUE /\ consumer' = "running"
        /\ UNCHANGED sidecarVars
     \/ DisableEtw /\ UNCHANGED <<etw_running, session, consumer>>
  /\ UNCHANGED <<world, child_done, records, logged, inject, target, pipe, todo,
                 reader, stop_, got>>

Resume ==
  /\ main = "resume"
  /\ main' = "connect"
  /\ target' = IF target = "suspended" THEN "running" ELSE target
  /\ UNCHANGED <<world, etwVars, inject, pipe, todo, reader, stop_, got>>

\* ConnectNamedPipe: the client is connected (ERROR_PIPE_CONNECTED) and the
\* reader is started, or it, or whoever else took the pipe, has come and gone
\* (ERROR_NO_DATA), which wmain reports and ignores.  Without a client the call
\* waits.
ConnectAndStart ==
  /\ main = "connect" /\ (client # "none" \/ taken)
  /\ main' = "render"
  /\ reader' = IF client = "open" THEN "check" ELSE reader
  /\ UNCHANGED <<world, etwVars, inject, target, pipe, todo, stop_, got>>

\* The render loop waits for the target for 100 ms ...
Wait ==
  /\ main = "render"
  /\ main' = "poll"
  /\ child_done' = (target = "gone")
  /\ UNCHANGED <<world, etw_running, monitorVars, sidecarVars, inject, target, pipe,
                 todo, reader, stop_, got>>

\* The exit code is set some time after OnDetach.
ExitSeen ==
  IF target = "exiting" THEN BOOLEAN ELSE {target = "gone"}

\* ... polls it ...
Poll ==
  /\ main = "poll"
  /\ main' = "tick"
  /\ IF etw_running THEN \E exits \in ExitSeen : PollChild(exits)
     ELSE UNCHANGED sidecarVars
  /\ UNCHANGED <<world, child_done, etw_running, monitorVars, inject, target, pipe,
                 todo, reader, stop_, got>>

\* The lines of kind k that a critical section may give.
MayGive(k) == IF Len(given) < MaxLines THEN {<<>>, <<k>>} ELSE {<<>>}

\* ... and, when it is done, leaves.
Tick ==
  /\ main = "tick"
  /\ main' = IF child_done THEN "sleep" ELSE "render"
  /\ IF etw_running THEN \E ls \in MayGive("counters") : EtwTick(ls)
     ELSE UNCHANGED sidecarVars
  /\ UNCHANGED <<world, child_done, etw_running, monitorVars, inject, target, pipe,
                 todo, reader, stop_, got>>

\* Mutant: no time is given to the reader.
NoSleep ==
  /\ main = "sleep"
  /\ main' = "stop"
  /\ UNCHANGED <<world, etwVars, inject, target, pipe, todo, reader, stop_, got>>

\* The 200 ms after it.
Sleep ==
  /\ main = "sleep"
  /\ prompt => reader \in {"none", "ended"}
  /\ main' = "stop"
  /\ UNCHANGED <<world, etwVars, inject, target, pipe, todo, reader, stop_, got>>

\* PipeServer::Stop sets stop_ ...
Stop ==
  /\ main = "stop"
  /\ main' = "cancel"
  /\ stop_' = TRUE
  /\ UNCHANGED <<world, etwVars, inject, target, pipe, todo, reader, got>>

\* ... cancels the read that is pending, if one is ...
CancelIo ==
  /\ main = "cancel"
  /\ main' = "join"
  /\ reader' = IF reader = "reading" THEN "ended" ELSE reader
  /\ UNCHANGED <<world, etwVars, inject, target, pipe, todo, stop_, got>>

\* ... and joins the reader.
Join ==
  /\ main = "join" /\ reader \in {"none", "ended"}
  /\ main' = "stopEtw"
  /\ UNCHANGED <<world, etwVars, inject, target, pipe, todo, reader, stop_, got>>

\* Monitor::Stop stops the session, or tries to: a failure is not noticed ...
StopSession ==
  /\ main = "stopEtw"
  /\ main' = IF etw_running THEN "joinEtw" ELSE "done"
  /\ session' \in {FALSE, session}
  /\ UNCHANGED <<world, child_done, etw_running, records, logged, consumer,
                 sidecarVars, inject, target, pipe, todo, reader, stop_, got>>

\* Mutant: the consumer is detached.
NoJoin ==
  /\ main = "joinEtw"
  /\ main' = "finish"
  /\ UNCHANGED <<world, etwVars, inject, target, pipe, todo, reader, stop_, got>>

\* ... and joins the consumer.
JoinConsumer ==
  /\ main = "joinEtw" /\ consumer \in {"ended", "failed"}
  /\ main' = "finish"
  /\ UNCHANGED <<world, etwVars, inject, target, pipe, todo, reader, stop_, got>>

\* FinishEtw; the summary follows.
Finish ==
  /\ main = "finish"
  /\ main' = "done"
  /\ FinishEtw
  /\ UNCHANGED <<world, child_done, etw_running, monitorVars, inject, target, pipe,
                 todo, reader, stop_, got>>

-----------------------------------------------------------------------------
(* The ETW session and its consumer *)

\* External: the providers log something.
Log ==
  /\ session /\ logged < MaxRecords
  /\ logged' = logged + 1 /\ records' = records + 1
  /\ UNCHANGED <<world, child_done, etw_running, session, consumer, sidecarVars, main,
                 inject, target, pipe, todo, reader, stop_, got>>

\* One record through the library into Model.  A record newer than the last
\* sign of life of the target makes it poll the target first.
Consume ==
  /\ consumer = "running" /\ records > 0
  /\ records' = records - 1
  /\ \E exits \in {FALSE} \cup ExitSeen, ls \in {<<>>, <<"record">>} :
       OnEtwRecord(exits, ls)
  /\ UNCHANGED <<world, child_done, etw_running, session, logged, consumer, main,
                 inject, target, pipe, todo, reader, stop_, got>>

\* External: another controller stops the session.
SessionStops ==
  /\ session /\ session' = FALSE
  /\ UNCHANGED <<world, child_done, etw_running, records, logged, consumer,
                 sidecarVars, main, inject, target, pipe, todo, reader, stop_, got>>

\* ProcessTrace returns once the session is stopped and drained, or early with
\* an error, which is ignored; OnDataComplete may have something to report.
ProcessTraceReturns ==
  /\ consumer = "running"
  /\ \/ ~session /\ records = 0 /\ consumer' = "ended"
     \/ consumer' = "failed"
  /\ \E ls \in {<<>>, <<"record">>} : OnEtwRecord(FALSE, ls)
  /\ UNCHANGED <<world, child_done, etw_running, session, records, logged, main,
                 inject, target, pipe, todo, reader, stop_, got>>

-----------------------------------------------------------------------------
(* The reader thread *)

ReaderCheck ==
  /\ reader = "check"
  /\ reader' = IF stop_ THEN "ended" ELSE "read"
  /\ UNCHANGED <<world, etwVars, main, inject, target, pipe, todo, stop_, got>>

\* OnEvent; hello is the first event.
OnEvent ==
  IF got = 0 THEN OnHello ELSE \E ls \in MayGive("record") : OnObjectEvent(ls)

\* Mutant: the event stays in the buffer.
ReadEventAgain ==
  /\ reader \in {"read", "reading"} /\ buffered > 0
  /\ OnEvent
  /\ got' = got + 1
  /\ reader' = "check"
  /\ UNCHANGED <<world, child_done, etw_running, monitorVars, main, inject, target,
                 pipe, todo, stop_>>

\* ReadExact for header and payload, then OnEvent.  The check of the magic
\* passes: both ends are built together, and Session!WireWellFramed.
ReadEvent ==
  /\ reader \in {"read", "reading"} /\ buffered > 0
  /\ buffered' = buffered - 1
  /\ OnEvent
  /\ got' = got + 1
  /\ reader' = "check"
  /\ UNCHANGED <<world, child_done, etw_running, monitorVars, main, inject, target,
                 client, sent, todo, stop_>>

\* ReadFile on an empty pipe is pending.
ReadPends ==
  /\ reader = "read" /\ buffered = 0 /\ client = "open"
  /\ reader' = "reading"
  /\ UNCHANGED <<world, etwVars, main, inject, target, pipe, todo, stop_, got>>

\* Mutant: ReadExact tries again when ReadFile fails.
ReadRetries ==
  /\ reader \in {"read", "reading"} /\ buffered = 0 /\ client = "closed"
  /\ UNCHANGED vars

\* ReadFile fails: the client is gone and the pipe is drained, or holds a header
\* without its payload, which counts as no event.
ReadFails ==
  /\ reader \in {"read", "reading"} /\ buffered = 0 /\ client = "closed"
  /\ reader' = "ended"
  /\ UNCHANGED <<world, etwVars, main, inject, target, pipe, todo, stop_, got>>

-----------------------------------------------------------------------------
(* Specification *)

Init ==
  /\ main = "create"
  /\ inject = "none" /\ target = "none"
  /\ client = "none" /\ buffered = 0 /\ sent = 0
  /\ startup \in 1..MaxStartup /\ todo = startup
  /\ taken \in BOOLEAN /\ prompt \in BOOLEAN
  /\ reader = "none" /\ stop_ = FALSE
  /\ got = 0
  /\ child_done = FALSE /\ etw_running = FALSE
  /\ session = FALSE /\ records = 0 /\ logged = 0 /\ consumer = "none"
  /\ SidecarInit

RemoteThread == DllConnect \/ DllAttach \/ DllAttached

Launcher ==
  \/ Create \/ InjectDll \/ Injected \/ EnableSidecar \/ StartMonitor \/ Resume
  \/ ConnectAndStart \/ Wait \/ Poll \/ Tick \/ Sleep \/ Stop \/ CancelIo \/ Join
  \/ StopSession \/ JoinConsumer \/ Finish

Consumer == Consume \/ ProcessTraceReturns

Reader == ReaderCheck \/ ReadEvent \/ ReadPends \/ ReadFails

Target == TargetEvent \/ TargetExits \/ TargetGone \/ TargetKilled

Next ==
  \/ RemoteThread \/ Launcher \/ Reader \/ Consumer
  \/ Target \/ Log \/ SessionStops \/ InjectTimesOut

Spec == Init /\ [][Next]_vars

\* Threads that can run are scheduled, and 30 s of waiting pass.  The
\* target need not ever exit.
FairSpec ==
  /\ Spec
  /\ WF_vars(RemoteThread) /\ WF_vars(Launcher) /\ WF_vars(Reader) /\ WF_vars(Consumer)
  /\ WF_vars(InjectTimesOut) /\ WF_vars(TargetGone)

-----------------------------------------------------------------------------
(* Properties *)

ControlTypeOK ==
  /\ main \in {"create", "inject", "enable", "start", "resume", "connect", "render",
               "poll", "tick", "sleep", "stop", "cancel", "join", "stopEtw", "joinEtw",
               "finish", "done", "failed"}
  /\ inject \in {"none", "connect", "attach", "returned"}
  /\ target \in {"none", "suspended", "running", "exiting", "gone"}
  /\ client \in {"none", "open", "closed"}
  /\ buffered \in 0..Capacity /\ sent \in Nat /\ got \in Nat
  /\ sent = buffered + got
  /\ startup \in Nat /\ todo \in 0..startup
  /\ reader \in {"none", "check", "read", "reading", "ended"}
  /\ {taken, prompt, stop_, child_done, etw_running, session} \subseteq BOOLEAN
  /\ records \in 0..logged /\ logged \in Nat
  /\ consumer \in {"none", "running", "ended", "failed"}

\* Every variable keeps its type; what is in the pipe and what was read from
\* it add up to what was sent.
TypeOK == ControlTypeOK /\ SidecarTypeOK

\* OnAttach runs while nobody reads the pipe, and the launcher waits for it
\* before it starts to: neither is ever stuck on the other as long as the
\* buffer has room for all that OnAttach sends.
NoStartupDeadlock ==
  startup <= Capacity =>
    ~(main = "inject" /\ inject = "attach" /\ todo > 0 /\ client = "open" /\ Full)

\* If the reader keeps up with the 200 ms, the summary is made from all events
\* of the target, goodbye included.
SummaryIsComplete ==
  prompt /\ main = "done" /\ reader = "ended" => got = sent

OfKind(s, k) == {i \in 1..Len(s) : s[i] = k}

\* Three threads give lines to the sidecar, and no line is lost, doubled or
\* overtaken on its way through side_prebuf_; what hello brings precedes all of
\* them, and the exit of the target is reported at most once although both the
\* main loop and the consumer look for it.
SidecarInOrder ==
  side_ \in {"open", "closed"} =>
    /\ IF hello_seen_
       THEN file = <<"etw_hello">> \o given /\ side_prebuf_ = <<>>
       ELSE file \o side_prebuf_ = given /\ (side_ = "open" => file = <<>>)
    /\ \A i, j \in OfKind(given, "target_exiting") : i = j

\* When the launcher is done, the sidecar reports the exit and ends with
\* etw_stats, which is taken from all records of the session unless
\* ProcessTrace gave up: the consumer, early or late, gives no line after it.
StatsAreLast ==
  /\ \A i \in OfKind(given, "etw_stats") : i = Len(given)
  /\ main = "done" /\ etw_running =>
       /\ consumer = "failed" \/ (consumer = "ended" /\ records = 0)
       /\ child_exiting_
       /\ side_ # "none" => side_ = "closed" /\ OfKind(given, "etw_stats") # {}

\* Once the target is gone, a launcher that got its connection finishes: Stop
\* does not hang, wherever the reader is when stop_ is set and the pending
\* read is cancelled, and neither does the wait for the consumer, unless the
\* session could not be stopped.
LauncherFinishes ==
  (target = "gone" /\ main = "render") ~> (main = "done" \/ (main = "joinEtw" /\ session))

\* ConnectAndStart waits at most for its timeout.
ConnectReturns == main = "connect" ~> main # "connect"
=============================================================================
