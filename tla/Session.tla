------------------------------- MODULE Session -------------------------------
(***************************************************************************)
(* The life of the injected DLL and of its two sinks: DllMain.cpp (attach  *)
(* and detach), PublicApi.cpp (StartLogging, StopLogging), PipeClient.cpp, *)
(* JsonLog.cpp and Modules.cpp.  Tracker says which object events there    *)
(* are; here an object event is any event, and what counts is what each    *)
(* sink does with it while sinks open, fail and close.                     *)
(*                                                                         *)
(* A thread takes one step per critical section and per access to shared   *)
(* state outside one; Send holds PipeClient::mu_ across its two WriteFile  *)
(* calls, so that is two steps.  The loader lock of Windows is external:   *)
(* DllMain and module notifications run under it.  Diagnostics, which are  *)
(* events like any other, are left out.                                    *)
(***************************************************************************)
EXTENDS Integers, Sequences, FiniteSets

CONSTANTS
  Thread,     \* threads of the target
  NoThread,
  Module,     \* modules other than dx12track.dll
  NoModule,
  Callstacks, \* whether DX12TRACK_CALLSTACKS may be 1, and may be something else
  EnumCap,    \* modules that EnumerateExistingModules has room for
  MaxOps      \* bound: object events, module loads and unloads, API calls,
              \* lines that do not get into a log

ASSUME ConstantsAssumption ==
  /\ NoThread \notin Thread
  /\ NoModule \notin Module /\ IsFiniteSet(Module)
  /\ Callstacks \subseteq BOOLEAN
  /\ EnumCap \in Nat /\ MaxOps \in Nat

VARIABLES
  env,         \* DX12TRACK_CALLSTACKS is 1
  dll,         \* external: where the DLL is in its life
  loader,      \* external: holder of the loader lock
  modules,     \* external: modules mapped in the target
  capture,     \* g_capture_callstacks
  started,     \* g_started
  registered,  \* g_cookie is set
  missed,      \* history: mapped modules that the enumeration did not list
  hooks,       \* object methods lead to our hooks
  pipe_,       \* PipeClient::pipe_ is a valid handle
  pipe_closed, \* history: times its handle was passed to CloseHandle
  pipe_mu,     \* holder of PipeClient::mu_
  server,      \* external: the launcher still has its end of the pipe
  busy,        \* external: another client has the pipe's only instance
  full,        \* external: the pipe has no room for what pipe_mu's holder writes
  wire,        \* bytes the launcher has been sent: headers and payloads
  file_,       \* JsonLog::file_: index in files, 0 for INVALID_HANDLE_VALUE
  log_mu,      \* holder of JsonLog::mu_
  files,       \* external: the log files created
  call,        \* per thread: what it does inside the DLL
  ops          \* operations begun and lines lost, at most MaxOps

moduleVars == <<modules, capture, started, registered, missed>>
pipeVars   == <<pipe_, pipe_closed, pipe_mu, server, busy, full, wire>>
logVars    == <<file_, log_mu, files>>
lifeVars   == <<env, dll, loader, hooks>>
vars == <<lifeVars, moduleVars, pipeVars, logVars, call, ops>>

-----------------------------------------------------------------------------
(* Data *)

\* An event, reduced to its kind, the module it is about, and a number that
\* tells object events apart.
Event == [kind : {"none", "hello", "goodbye", "module_loaded",
                  "module_unloaded", "object"},
          module : Module \cup {NoModule}, n : Nat]

NoEvent == [kind |-> "none", module |-> NoModule, n |-> 0]

Plain(k)        == [NoEvent EXCEPT !.kind = k]
ModuleEvent(k, m) == [NoEvent EXCEPT !.kind = k, !.module = m]

\* One WriteFile on the pipe.
Chunk == [part : {"header", "payload"}, ev : Event]

\* A log file, whether OnAttach or StartLogging opened it, the events whose
\* WriteFile failed, and how often its handle was passed to CloseHandle.
File == [by : {"attach", "start"}, lines : Seq(Event), lost : SUBSET Event,
         closed : Nat]

NewFile(by) == [by |-> by, lines |-> <<>>, lost |-> {}, closed |-> 0]

\* The call in progress of a thread: the entry point, where it is, the event
\* being emitted, where to go on after it, and the modules still to be reported.
Idle == [op |-> "none", pc |-> "idle", ev |-> NoEvent, next |-> "idle", todo |-> {}]

\* A thread that ExitProcess has terminated.
Dead == [Idle EXCEPT !.pc = "dead"]

PC == {"idle", "dead", "connect", "open", "track", "enum", "register", "load",
       "install", "close", "unlockLoader", "unregister", "closePipe",
       "closeLog", "send", "header", "payload", "append", "lock", "line"}

Frame == [op : {"none", "attach", "start", "stop", "object", "module", "detach", "exit"},
          pc : PC, ev : Event, next : PC, todo : SUBSET Module]

Become(t, frame) == call' = [call EXCEPT ![t] = frame]

Goto(t, label) == Become(t, [call[t] EXCEPT !.pc = label])

\* Go on at a label after an emission; the call is over at "idle".
Resume(t, label) ==
  Become(t, IF label = "idle" THEN Idle
            ELSE [Idle EXCEPT !.op = call[t].op, !.pc = label, !.todo = call[t].todo])

\* Emit e on both sinks (first is "send") or on the log only ("append").
EmitFrame(t, e, first, label) ==
  [call[t] EXCEPT !.pc = first, !.ev = e, !.next = label]

\* An operation of the application that t begins.
Begin(t) == call[t] = Idle /\ ops < MaxOps /\ ops' = ops + 1

-----------------------------------------------------------------------------
(* PipeClient and JsonLog *)

\* CloseHandle(pipe_); pipe_ = INVALID_HANDLE_VALUE.  Closing an invalid
\* handle does nothing.
ClosePipe ==
  /\ pipe_' = FALSE
  /\ pipe_closed' = IF pipe_ THEN pipe_closed + 1 ELSE pipe_closed

CloseFile(fs) == IF file_ = 0 THEN fs ELSE [fs EXCEPT ![file_].closed = @ + 1]

\* Mutant: the index is advanced although CreateFileW failed.
OpenLogUnchecked(by) ==
  /\ log_mu = NoThread
  /\ \/ files' = Append(CloseFile(files), NewFile(by))
     \/ files' = CloseFile(files)
  /\ file_' = Len(files) + 1
  /\ UNCHANGED log_mu

\* JsonLog::Open: the file that is open is closed, and the new one is created
\* or CreateFileW fails.
OpenLog(by) ==
  /\ log_mu = NoThread
  /\ \/ /\ files' = Append(CloseFile(files), NewFile(by))
        /\ file_' = Len(files) + 1
     \/ /\ files' = CloseFile(files)
        /\ file_' = 0
  /\ UNCHANGED log_mu

\* Send's early return reads pipe_ without the lock.
SendCheck(t) ==
  /\ call[t].pc = "send"
  /\ Goto(t, IF pipe_ THEN "header" ELSE "append")
  /\ UNCHANGED <<lifeVars, moduleVars, pipeVars, logVars, ops>>

\* WriteFile succeeds on a handle that is still open at both ends.
CanWrite == pipe_ /\ server

\* Send takes the lock, and WriteFile waits with the lock for the launcher to
\* read.
WaitForReader(t) ==
  /\ CanWrite
  /\ pipe_mu = NoThread /\ pipe_mu' = t
  /\ full' = TRUE
  /\ UNCHANGED <<pipe_, pipe_closed, wire, call>>

\* Send puts one of its two chunks on the wire.
Write(t, part) ==
  /\ CanWrite /\ ~full
  /\ wire' = Append(wire, [part |-> part, ev |-> call[t].ev])
  /\ UNCHANGED <<pipe_, pipe_closed>>

WriteHeader(t) ==
  /\ Write(t, "header")
  /\ full' \in BOOLEAN
  /\ Goto(t, "payload")

WritePayload(t) ==
  /\ Write(t, "payload")
  /\ UNCHANGED full
  /\ Goto(t, "append")

\* WriteFile fails: Send closes the pipe and returns.
WriteFails(t) ==
  /\ ~CanWrite
  /\ ClosePipe
  /\ pipe_mu' = NoThread
  /\ Goto(t, "append")
  /\ UNCHANGED <<full, wire>>

\* Mutant: the lock is not held between the two writes.
SendHeaderUnlocks(t) ==
  /\ call[t].pc = "header"
  /\ pipe_mu = NoThread
  /\ \/ WriteFails(t)
     \/ WriteHeader(t) /\ UNCHANGED pipe_mu
  /\ UNCHANGED <<lifeVars, moduleVars, server, busy, logVars, ops>>

\* Mutant: try_lock, and the event is given up when another thread writes.
SendHeaderTryLock(t) ==
  /\ call[t].pc = "header"
  /\ \/ /\ pipe_mu \notin {NoThread, t}
        /\ Goto(t, "append")
        /\ UNCHANGED <<pipe_, pipe_closed, pipe_mu, full, wire>>
     \/ /\ pipe_mu \in {NoThread, t}
        /\ \/ WaitForReader(t)
           \/ WriteFails(t)
           \/ WriteHeader(t) /\ pipe_mu' = t
  /\ UNCHANGED <<lifeVars, moduleVars, server, busy, logVars, ops>>

\* Send takes the lock and writes the header.
SendHeader(t) ==
  /\ call[t].pc = "header"
  /\ pipe_mu \in {NoThread, t}
  /\ \/ WaitForReader(t)
     \/ WriteFails(t)
     \/ WriteHeader(t) /\ pipe_mu' = t
  /\ UNCHANGED <<lifeVars, moduleVars, server, busy, logVars, ops>>

\* Mutant: the early return after a failed write keeps the lock.
SendPayloadKeepsLock(t) ==
  /\ call[t].pc = "payload"
  /\ \/ /\ ~CanWrite
        /\ ClosePipe
        /\ Goto(t, "append")
        /\ UNCHANGED <<pipe_mu, full, wire>>
     \/ WritePayload(t) /\ pipe_mu' = NoThread
  /\ UNCHANGED <<lifeVars, moduleVars, server, busy, logVars, ops>>

\* Send writes the payload, as soon as there is room, and gives up the lock.
SendPayload(t) ==
  /\ call[t].pc = "payload"
  /\ \/ WriteFails(t)
     \/ WritePayload(t) /\ pipe_mu' = NoThread
  /\ UNCHANGED <<lifeVars, moduleVars, server, busy, logVars, ops>>

\* Append's early return reads file_ without the lock.
AppendCheck(t) ==
  /\ call[t].pc = "append"
  /\ IF file_ = 0 THEN Resume(t, call[t].next) ELSE Goto(t, "lock")
  /\ UNCHANGED <<lifeVars, moduleVars, pipeVars, logVars, ops>>

\* Mutant: try_lock, and the line is dropped when another thread writes.
AppendTryLock(t) ==
  /\ call[t].pc = "lock"
  /\ IF log_mu = NoThread
       THEN log_mu' = t /\ Goto(t, "line")
       ELSE UNCHANGED log_mu /\ Resume(t, call[t].next)
  /\ UNCHANGED <<lifeVars, moduleVars, pipeVars, file_, files, ops>>

\* Append waits for the lock.
AppendLock(t) ==
  /\ call[t].pc = "lock"
  /\ log_mu = NoThread
  /\ log_mu' = t
  /\ Goto(t, "line")
  /\ UNCHANGED <<lifeVars, moduleVars, pipeVars, file_, files, ops>>

\* WriteLineLocked, into the file that is open by now.  Nobody looks at what
\* WriteFile returns.
WriteLine(t) ==
  /\ call[t].pc = "line"
  /\ \/ /\ file_ = 0
        /\ UNCHANGED <<files, ops>>
     \/ /\ file_ # 0
        /\ files' = [files EXCEPT ![file_].lines = Append(@, call[t].ev)]
        /\ UNCHANGED ops
     \/ /\ file_ # 0 /\ ops < MaxOps
        /\ files' = [files EXCEPT ![file_].lost = @ \cup {call[t].ev}]
        /\ ops' = ops + 1
  /\ log_mu' = NoThread
  /\ Resume(t, call[t].next)
  /\ UNCHANGED <<lifeVars, moduleVars, pipeVars, file_>>

-----------------------------------------------------------------------------
(* Modules.cpp *)

\* What EnumProcessModules puts into a buffer of EnumCap handles; when it fails
\* no module is reported.
Enumerated ==
  {{}} \cup
  {ms \in SUBSET modules :
     Cardinality(ms) = IF Cardinality(modules) < EnumCap
                       THEN Cardinality(modules) ELSE EnumCap}

\* EnumerateExistingModules takes stock.
Enumerate(t) ==
  \E ms \in Enumerated :
    /\ missed' = modules \ ms
    /\ Become(t, [call[t] EXCEPT !.pc = "enum", !.todo = ms])

\* Where StartModuleTracking returns to.
AfterTracking(t) == IF call[t].op = "attach" THEN "load" ELSE "idle"

\* Mutant: g_started is not consulted.
StartModuleTrackingAgain(t) ==
  /\ call[t].pc = "track"
  /\ IF capture
       THEN /\ started' = TRUE
            /\ Enumerate(t)
       ELSE Resume(t, AfterTracking(t)) /\ UNCHANGED <<started, missed>>
  /\ UNCHANGED <<lifeVars, modules, capture, registered, pipeVars, logVars,
                 ops>>

\* The caller reads g_capture_callstacks; StartModuleTracking exchanges
\* g_started and takes stock of the modules.
StartModuleTracking(t) ==
  /\ call[t].pc = "track"
  /\ IF capture /\ ~started
       THEN /\ started' = TRUE
            /\ Enumerate(t)
       ELSE Resume(t, AfterTracking(t)) /\ UNCHANGED <<started, missed>>
  /\ UNCHANGED <<lifeVars, modules, capture, registered, pipeVars, logVars,
                 ops>>

\* EnumerateExistingModules reports one module after the other.
EmitModuleLoaded(t) ==
  /\ call[t].pc = "enum"
  /\ IF call[t].todo = {}
       THEN Goto(t, "register")
       ELSE \E m \in call[t].todo :
              Become(t, [EmitFrame(t, ModuleEvent("module_loaded", m), "send", "enum")
                           EXCEPT !.todo = @ \ {m}])
  /\ UNCHANGED <<lifeVars, moduleVars, pipeVars, logVars, ops>>

\* EmitModuleLoaded reads the headers of a module that is no longer mapped:
\* the read may fault and take the target down.
FaultOnUnmapped(t) ==
  /\ call[t].pc = "enum"
  /\ call[t].todo \ modules # {}
  /\ dll' = "crashed"
  /\ call' = [u \in Thread |-> Dead]
  /\ UNCHANGED <<env, loader, hooks, moduleVars, pipeVars, logVars, ops>>

\* LdrRegisterDllNotification, which takes the loader lock.  It is not found
\* or fails, and nobody notices.
Register(t) ==
  /\ call[t].pc = "register"
  /\ loader \in {t, NoThread}
  /\ registered' \in BOOLEAN
  /\ Resume(t, AfterTracking(t))
  /\ UNCHANGED <<lifeVars, modules, capture, started, missed, pipeVars,
                 logVars, ops>>

\* Mutant: unloads are not passed on.
OnLdrNotificationLoadsOnly(t, kind, m, label) ==
  IF registered /\ kind = "module_loaded"
  THEN Become(t, EmitFrame(t, ModuleEvent(kind, m), "send", label))
  ELSE Goto(t, label)

\* OnLdrNotification, inside the loader lock; without a registration the
\* loader goes on at once.
OnLdrNotification(t, kind, m, label) ==
  IF registered
  THEN Become(t, EmitFrame(t, ModuleEvent(kind, m), "send", label))
  ELSE Goto(t, label)

LoadModule(t, m) ==
  /\ Begin(t)
  /\ dll = "in" /\ loader = NoThread
  /\ m \notin modules
  /\ modules' = modules \cup {m}
  /\ loader' = t
  /\ OnLdrNotification(t, "module_loaded", m, "unlockLoader")
  /\ UNCHANGED <<env, dll, hooks, capture, started, registered, missed,
                 pipeVars, logVars>>

UnloadModule(t, m) ==
  /\ Begin(t)
  /\ dll = "in" /\ loader = NoThread
  /\ m \in modules
  /\ modules' = modules \ {m}
  /\ loader' = t
  /\ OnLdrNotification(t, "module_unloaded", m, "unlockLoader")
  /\ UNCHANGED <<env, dll, hooks, capture, started, registered, missed,
                 pipeVars, logVars>>

\* The loader has called its observers and lets go of its lock.
UnlockLoader(t) ==
  /\ call[t].pc = "unlockLoader"
  /\ loader' = NoThread
  /\ Become(t, Idle)
  /\ UNCHANGED <<env, dll, hooks, moduleVars, pipeVars, logVars, ops>>

-----------------------------------------------------------------------------
(* DllMain.cpp, PublicApi.cpp and the object hooks *)

\* LoadLibrary of dx12track.dll, by the launcher or by the host.
Attach(t) ==
  /\ dll = "out" /\ loader = NoThread
  /\ call[t] = Idle
  /\ dll' = "attach"
  /\ loader' = t
  /\ capture' = env
  /\ Become(t, [Idle EXCEPT !.op = "attach", !.pc = "connect"])
  /\ UNCHANGED <<env, hooks, modules, started, registered, missed, pipeVars,
                 logVars, ops>>

\* GlobalPipe().Connect: DX12TRACK_PIPE is set and the launcher is there, or
\* the pipe stays closed, which OnAttach does not notice.  As long as the pipe
\* is busy the loop goes on: that branch does not look at the deadline.
Connect(t) ==
  /\ call[t].pc = "connect"
  /\ ~busy
  /\ \/ server /\ pipe_' = TRUE
     \/ UNCHANGED pipe_
  /\ Goto(t, "open")
  /\ UNCHANGED <<lifeVars, moduleVars, pipe_closed, pipe_mu, server, busy,
                 full, wire, logVars, ops>>

\* Mutant: hello is sent once the modules have been reported.
OpenAtAttachNoHello(t) ==
  /\ call[t].pc = "open" /\ call[t].op = "attach"
  /\ OpenLog("attach")
  /\ Goto(t, "track")
  /\ UNCHANGED <<lifeVars, moduleVars, pipeVars, ops>>

\* GlobalLog().Open, whose result OnAttach ignores, and SendHello.  Without
\* DX12TRACK_JSON the log stays closed, as when the file cannot be created.
OpenAtAttach(t) ==
  /\ call[t].pc = "open" /\ call[t].op = "attach"
  /\ OpenLog("attach")
  /\ Become(t, EmitFrame(t, Plain("hello"), "send", "track"))
  /\ UNCHANGED <<lifeVars, moduleVars, pipeVars, ops>>

\* InstallExportHooks loads d3d12.dll if the target has not done so yet, and
\* the modules d3d12.dll needs with it.
LoadD3D12(t) ==
  /\ call[t].pc = "load"
  /\ \/ \E m \in Module \ modules :
          /\ modules' = modules \cup {m}
          /\ OnLdrNotification(t, "module_loaded", m, "load")
     \/ UNCHANGED modules /\ Goto(t, "install")
  /\ UNCHANGED <<lifeVars, capture, started, registered, missed, pipeVars,
                 logVars, ops>>

\* InstallExportHooks arms the hooks or fails; the loader lock is released.
InstallExportHooks(t) ==
  /\ call[t].pc = "install"
  /\ hooks' \in BOOLEAN
  /\ dll' = "in"
  /\ loader' = NoThread
  /\ Become(t, Idle)
  /\ UNCHANGED <<env, moduleVars, pipeVars, logVars, ops>>

\* A hook reports something about an object (module Tracker).
ObjectEvent(t) ==
  /\ Begin(t)
  /\ dll \in {"in", "detach"} /\ hooks
  /\ Become(t, [EmitFrame(t, [Plain("object") EXCEPT !.n = ops + 1], "send", "idle")
                  EXCEPT !.op = "object"])
  /\ UNCHANGED <<lifeVars, moduleVars, pipeVars, logVars>>

\* Dx12Track_StartLogging with a path.
StartLogging(t, callstacks) ==
  /\ Begin(t)
  /\ dll = "in"
  /\ capture' = callstacks
  /\ Become(t, [Idle EXCEPT !.op = "start", !.pc = "open"])
  /\ UNCHANGED <<lifeVars, modules, started, registered, missed, pipeVars,
                 logVars>>

\* StartLogging opens the log and sends hello to it, or returns FALSE.
OpenAtStart(t) ==
  /\ call[t].pc = "open" /\ call[t].op = "start"
  /\ OpenLog("start")
  /\ Become(t, IF file_' = 0 THEN Idle
               ELSE EmitFrame(t, Plain("hello"), "append", "track"))
  /\ UNCHANGED <<lifeVars, moduleVars, pipeVars, ops>>

\* Dx12Track_StopLogging.
StopLogging(t) ==
  /\ Begin(t)
  /\ dll = "in"
  /\ Become(t, [Idle EXCEPT !.op = "stop", !.pc = "close"])
  /\ UNCHANGED <<lifeVars, moduleVars, pipeVars, logVars>>

\* Mutant: file_ is not reset.
CloseLogKeepsHandle(t) ==
  /\ call[t].pc = "close"
  /\ log_mu = NoThread
  /\ files' = CloseFile(files)
  /\ Become(t, Idle)
  /\ UNCHANGED <<lifeVars, moduleVars, pipeVars, file_, log_mu, ops>>

\* JsonLog::Close.
CloseLog(t) ==
  /\ call[t].pc = "close"
  /\ log_mu = NoThread
  /\ files' = CloseFile(files)
  /\ file_' = 0
  /\ Become(t, Idle)
  /\ UNCHANGED <<lifeVars, moduleVars, pipeVars, log_mu, ops>>

\* OnDetach begins and sends goodbye.  FreeLibrary leaves the other threads
\* alone; ExitProcess terminates them wherever they are, with the locks they
\* hold.
Detach(t, op) ==
  /\ dll = "in" /\ loader = NoThread
  /\ call[t] = Idle
  /\ dll' = "detach"
  /\ loader' = t
  /\ LET frame == [EmitFrame(t, Plain("goodbye"), "send", "unregister") EXCEPT !.op = op] IN
     IF op = "exit"
     THEN call' = [u \in Thread |-> IF u = t THEN frame ELSE Dead]
     ELSE Become(t, frame)
  /\ UNCHANGED <<env, hooks, moduleVars, pipeVars, logVars, ops>>

\* StopModuleTracking; RemoveAllHooks then leaves the methods of objects
\* patched.
StopModuleTracking(t) ==
  /\ call[t].pc = "unregister"
  /\ registered' = FALSE
  /\ Goto(t, "closePipe")
  /\ UNCHANGED <<lifeVars, modules, capture, started, missed, pipeVars,
                 logVars, ops>>

\* PipeClient::Close.
ClosePipeAtDetach(t) ==
  /\ call[t].pc = "closePipe"
  /\ pipe_mu = NoThread
  /\ ClosePipe
  /\ Goto(t, "closeLog")
  /\ UNCHANGED <<lifeVars, moduleVars, pipe_mu, server, busy, full, wire,
                 logVars, ops>>

\* JsonLog::Close, and the process ends or the DLL is unmapped, under the feet
\* of the threads that are still inside.
CloseLogAtDetach(t) ==
  /\ call[t].pc = "closeLog"
  /\ log_mu = NoThread
  /\ files' = CloseFile(files)
  /\ file_' = 0
  /\ dll' = "gone"
  /\ loader' = NoThread
  /\ call' = [u \in Thread |->
       IF call[t].op = "exit" \/ (u # t /\ call[u] # Idle) THEN Dead ELSE Idle]
  /\ UNCHANGED <<env, hooks, moduleVars, pipeVars, log_mu, ops>>

\* External: the launcher goes away, and the pipe with it.
ServerCloses ==
  /\ server
  /\ server' = FALSE
  /\ busy' = FALSE
  /\ full' = FALSE
  /\ UNCHANGED <<lifeVars, moduleVars, pipe_, pipe_closed, pipe_mu, wire,
                 logVars, call, ops>>

\* External: the launcher's PipeServer::ReaderLoop makes room in the pipe.
ServerReads ==
  /\ server /\ full
  /\ full' = FALSE
  /\ UNCHANGED <<lifeVars, moduleVars, pipe_, pipe_closed, pipe_mu, server,
                 busy, wire, logVars, call, ops>>

-----------------------------------------------------------------------------
(* Specification *)

Init ==
  /\ env \in Callstacks
  /\ dll = "out"
  /\ loader = NoThread
  /\ modules \in SUBSET Module
  /\ capture = FALSE /\ started = FALSE /\ registered = FALSE
  /\ missed = {}
  /\ hooks = FALSE
  /\ pipe_ = FALSE /\ pipe_closed = 0 /\ pipe_mu = NoThread
  /\ server = TRUE /\ busy \in BOOLEAN /\ full = FALSE
  /\ wire = <<>>
  /\ file_ = 0 /\ log_mu = NoThread
  /\ files = <<>>
  /\ call = [t \in Thread |-> Idle]
  /\ ops = 0

\* What the application, the loader and the launcher may begin.
Environment(t) ==
  \/ Attach(t)
  \/ ObjectEvent(t)
  \/ \E callstacks \in BOOLEAN : StartLogging(t, callstacks)
  \/ StopLogging(t)
  \/ \E m \in Module : LoadModule(t, m) \/ UnloadModule(t, m)
  \/ \E op \in {"detach", "exit"} : Detach(t, op)

\* The rest of what t has begun.
Continue(t) ==
  \/ SendCheck(t)
  \/ SendHeader(t)
  \/ SendPayload(t)
  \/ AppendCheck(t)
  \/ AppendLock(t)
  \/ WriteLine(t)
  \/ StartModuleTracking(t)
  \/ EmitModuleLoaded(t)
  \/ FaultOnUnmapped(t)
  \/ Register(t)
  \/ UnlockLoader(t)
  \/ Connect(t)
  \/ OpenAtAttach(t)
  \/ LoadD3D12(t)
  \/ InstallExportHooks(t)
  \/ OpenAtStart(t)
  \/ CloseLog(t)
  \/ StopModuleTracking(t)
  \/ ClosePipeAtDetach(t)
  \/ CloseLogAtDetach(t)

LauncherActs == ServerCloses \/ ServerReads

Next == LauncherActs \/ \E t \in Thread : Environment(t) \/ Continue(t)

Spec == Init /\ [][Next]_vars

\* Windows schedules every thread that can run, and the launcher reads as long
\* as it has its end of the pipe.
FairSpec ==
  /\ Spec
  /\ \A t \in Thread : WF_vars(Continue(t))
  /\ WF_vars(ServerReads)

-----------------------------------------------------------------------------
(* Properties *)

\* Every variable keeps its type; file_ is 0 or an open file.
TypeOK ==
  /\ env \in BOOLEAN
  /\ dll \in {"out", "attach", "in", "detach", "gone", "crashed"}
  /\ loader \in Thread \cup {NoThread}
  /\ modules \subseteq Module /\ missed \subseteq Module
  /\ {capture, started, registered, hooks, pipe_, server, busy, full} \subseteq BOOLEAN
  /\ pipe_closed \in Nat
  /\ pipe_mu \in Thread \cup {NoThread}
  /\ wire \in Seq(Chunk)
  /\ file_ \in 0..Len(files)
  /\ log_mu \in Thread \cup {NoThread}
  /\ files \in Seq(File)
  /\ call \in [Thread -> Frame]
  /\ ops \in Nat

\* The launcher can always cut the byte stream into messages: each header is
\* followed by its own payload, whatever threads write, fail, close the pipe
\* or are terminated; only the last message may lack its payload.
WireWellFramed ==
  \A i \in 1..Len(wire) :
    IF i % 2 = 1
    THEN wire[i].part = "header"
    ELSE wire[i].part = "payload" /\ wire[i].ev = wire[i - 1].ev

\* No handle is closed twice, by failing writers, re-opening, StopLogging and
\* OnDetach together (its number may belong to someone else by then).
NoHandleClosedTwice ==
  /\ pipe_closed <= 1
  /\ \A i \in 1..Len(files) : files[i].closed <= 1

\* The events that the launcher can read from the pipe.
Messages == [i \in 1..((Len(wire) + 1) \div 2) |-> wire[2 * i - 1].ev]

StartsWithHello(s) == s # <<>> => s[1].kind = "hello"

\* A sink that OnAttach connects or opens gets hello before anything else,
\* unless writing hello to the log fails.
HelloOpensAttachedSinks ==
  /\ StartsWithHello(Messages)
  /\ \A i \in 1..Len(files) :
       files[i].by = "attach" /\ Plain("hello") \notin files[i].lost =>
         StartsWithHello(files[i].lines)

\* hello is line 1 of every log that could be written to.
HelloIsLineOne ==
  \A i \in 1..Len(files) : files[i].lost = {} => StartsWithHello(files[i].lines)

\* Modules that a reader of s takes for mapped: the last event about them is a
\* load.
ModulesIn(s) ==
  {m \in Module : \E i \in 1..Len(s) :
     /\ s[i].module = m /\ s[i].kind = "module_loaded"
     /\ \A j \in (i + 1)..Len(s) : s[j].module # m}

\* Between two loads of a module there is an unload, and between two unloads a
\* load.
Alternates(s) ==
  \A i, j \in 1..Len(s) :
    i < j /\ s[i].module \in Module /\ s[j].module = s[i].module /\ s[j].kind = s[i].kind
      => \E k \in (i + 1)..(j - 1) :
           s[k].module = s[i].module /\ s[k].kind # s[i].kind

UnloadsFollowLoads(s) ==
  \A j \in 1..Len(s) :
    s[j].module \in Module \ missed /\ s[j].kind = "module_unloaded" =>
      \E i \in 1..(j - 1) : s[i].module = s[j].module /\ s[i].kind = "module_loaded"

\* No event about a module was lost on the way to a log.
Complete(f) == \A e \in f.lost : e.module = NoModule

\* What a reader of the pipe, and of a log opened by OnAttach, is told.
AttachedStreams ==
  {Messages} \cup
  {files[i].lines : i \in {k \in 1..Len(files) :
                            files[k].by = "attach" /\ Complete(files[k])}}

\* With module tracking from OnAttach, no sink opened there reports a module as
\* loaded or as unloaded twice in a row, however often logging is started again,
\* nor as unloaded before it was loaded unless the enumeration missed it.
ModuleStreamsAlternate ==
  env => \A s \in AttachedStreams : Alternates(s) /\ UnloadsFollowLoads(s)

\* s gives the mapped modules: no other, and all but those that the enumeration
\* missed.
Gives(s) ==
  /\ ModulesIn(s) \subseteq modules
  /\ modules \ missed \subseteq ModulesIn(s)

\* With module tracking from OnAttach and a registration that succeeded, a sink
\* opened there and still open gives the modules that are mapped, whenever the
\* loader is idle.
ModulesKnownFromAttach ==
  env /\ dll = "in" /\ loader = NoThread /\ registered =>
    /\ pipe_ /\ server => Gives(Messages)
    /\ file_ # 0 /\ files[file_].by = "attach" /\ Complete(files[file_]) =>
         Gives(files[file_].lines)

AllIdle == \A t \in Thread : call[t] = Idle

\* While callstacks are captured and no call is in progress, the open log
\* gives the modules that are mapped, also when nothing failed on the way.
ModulesKnown ==
  capture /\ registered /\ missed = {} /\ dll = "in" /\ AllIdle
  /\ file_ # 0 /\ files[file_].lost = {}
    => ModulesIn(files[file_].lines) = modules

\* The channel that the pipe is: its state, the threads that live, the event
\* that each of them is sending, and the messages that are complete.
ChannelState ==
  IF CanWrite THEN "open"
  ELSE IF server /\ pipe_closed = 0 THEN "new" ELSE "closed"

Living == {t \in Thread : call[t] # Dead}

Sending == {"send", "header", "payload"}

Unsent == [t \in Thread |-> IF call[t].pc \in Sending THEN call[t].ev ELSE NoEvent]

Received == [i \in 1..(Len(wire) \div 2) |-> wire[2 * i].ev]

Channel == INSTANCE Channel WITH
  Sender   <- Thread,
  Message  <- Event \ {NoEvent},
  None     <- NoEvent,
  state    <- ChannelState,
  alive    <- Living,
  pending  <- Unsent,
  received <- Received

\* Send with its unlocked check, its lock, its two writes and its early returns
\* implements a channel whose messages are atomic: while the pipe is open at
\* both ends no event of a thread that lives is lost, and none comes twice or
\* in pieces.
ImplementsChannel == Channel!Spec

EmitPC == {"send", "header", "payload", "append", "lock", "line"}

Once(s, e) == Cardinality({i \in 1..Len(s) : s[i] = e}) = 1

\* When the call of a hook ends, its event is exactly once in the log that is
\* open by then, also if that was opened in the meantime, unless writing that
\* line failed, and exactly once on the wire, with its payload, if the pipe is
\* still open.
EventReachesOpenSinks ==
  [][\A t \in Thread :
       call[t].op = "object" /\ call[t].pc \in EmitPC /\ call'[t] = Idle =>
         /\ file_' # 0 => \/ Once(files'[file_'].lines, call[t].ev)
                          \/ call[t].ev \in files'[file_'].lost
         /\ pipe_' => Once(wire', [part |-> "payload", ev |-> call[t].ev])]_vars

\* A lock that died with its owner in ExitProcess.
Orphaned ==
  \E m \in {pipe_mu, log_mu} : m # NoThread /\ call[m] = Dead

\* OnAttach goes round in Connect while another client has the pipe.
RetriesBusyPipe(t) == call[t].pc = "connect" /\ busy

\* Every other call into the DLL returns, OnDetach included: the locks of the
\* sinks, a full pipe, the loader lock and the early returns of Send never leave
\* a thread waiting for ever, unless ExitProcess terminated the owner of a lock.
CallsReturn ==
  \A t \in Thread :
    []<>(\/ call[t].pc \in {"idle", "dead"} \/ RetriesBusyPipe(t)
         \/ dll \in {"gone", "crashed"} \/ Orphaned)
=============================================================================
